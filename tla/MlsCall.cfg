\* Two requests at a time on two groups of one channel, two epochs, roster ceiling of two
SPECIFICATION Spec
CONSTANTS
    a1 = a1  a2 = a2  b1 = b1  g1 = g1  g2 = g2
    Devices = {a1, a2, b1}
    UserOf <- MCUserOf
    Groups = {g1, g2}
    Requests = {r1, r2}
    Changes <- MCChanges
    MaxMembers = 2
    MaxEpoch <- MCMaxEpoch
    MayAge = {g2}
    Joins <- MCJoins
    Creators = {b1}
    Nil = Nil
SYMMETRY Interchangeable
INVARIANTS NeverAhead FanOutComplete OneDevicePerCommit
PROPERTIES ImplementsLog
CHECK_DEADLOCK FALSE
