\* Three requests on two units of one order: enough for one to overlap two others.
\* Two server processes and one report with three attempts, one fault and one
\* retry request; or two reports with three attempts and a batch of one.  No
\* symmetry, for liveness.
SPECIFICATION RequestsSpec
CONSTANTS
    Requests = {r1, r2, r3}
    Units = {u1, u2}
    Orders = {o1}
    Home <- OneOrder
    r1 = r1
    r2 = r2
    r3 = r3
    u1 = u1
    u2 = u2
    o1 = o1
    Nobody = Nobody
    w1 = w1
    w2 = w2
    q1 = q1
    q2 = q2
    Workers = {w1, w2}
    Reports = {q1, q2}
    MaxAttempts = 3
    BatchSize = 1
    MaxFaults = 1
    MaxResets = 1
CONSTRAINT
    ArriveInOrder
INVARIANTS
    DuplicatesExplained
    CountersExplained
PROPERTIES
    RefinesDelivery
    TransitionsWhenAlone
    EveryRequestEnds
    QueueDrains
CHECK_DEADLOCK FALSE
