SPECIFICATION Spec
CONSTANTS
    own = own  ann = ann  o1 = o1  a1 = a1  a2 = a2
    Users = {own, ann}
    Devices = {o1, a1, a2}
    UserOf <- MCUserOf
    Owner = own
    Requests = {r1, r2}
    Caps = {1, 2}
    FirstCap = 2
    MaxChange = 1
    MaxVersion = 3
    MaxEpoch = 2
    MaxGeneration = 1
INVARIANTS RosterSeated PendingRemovable BoundToList WithinCap NotReseated SeatedAreMembers NoPlaintext
SYMMETRY Interchangeable
CHECK_DEADLOCK FALSE
