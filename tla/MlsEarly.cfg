\* Two requests at a time, either of which may be sent before the commit it is made on
SPECIFICATION Spec
CONSTANTS
    a1 = a1  a2 = a2  b1 = b1  g1 = g1  g2 = g2
    Devices = {a1, a2, b1}
    UserOf <- MCUserOf
    Groups = {g1, g2}
    Requests = {r1, r2}
    Changes <- MCChanges
    MaxMembers = 2
    MaxEpoch <- MCMaxEpoch
    MayAge = {g2}
    Joins <- MCJoins
    Creators = {b1}
    Nil = Nil
SYMMETRY Interchangeable
INVARIANTS FanOutPreCommit
CHECK_DEADLOCK FALSE
