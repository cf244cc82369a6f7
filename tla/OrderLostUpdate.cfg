\* Three requests on two units of one order: enough for one to overlap two others.
SPECIFICATION OrdersSpec
CONSTANTS
    Requests = {r1, r2, r3}
    Units = {u1, u2}
    Orders = {o1}
    Home <- OneOrder
    r1 = r1
    r2 = r2
    r3 = r3
    u1 = u1
    u2 = u2
    o1 = o1
    Nobody = Nobody
INVARIANTS
    CountersAgree
CHECK_DEADLOCK FALSE
