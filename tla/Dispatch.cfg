\* Three transactions on two items and two machines with one place each: a move,
\* its handler, and one more that meets either.
SPECIFICATION Spec
CONSTANTS
    Items = {u1, u2}
    Steps = {s1, s2}
    Equipment = {e1, e2}
    Logged = {e2}
    Tasks = {t1, t2, t3}
    Capable <- OneSpecialised
    First = s1
    Limit <- OnePlaceEach
    None = None
    s1 = s1
    s2 = s2
    e1 = e1
    e2 = e2
    u1 = u1
    u2 = u2
    t1 = t1
    t2 = t2
    t3 = t3
SYMMETRY Symmetry
INVARIANTS
    OverfullExplained
    AtEquipmentOfItsStep
    NobodyForgotten
CHECK_DEADLOCK FALSE
