SPECIFICATION Spec
CONSTANTS
    a1 = a1  a2 = a2  b1 = b1  A = A  B = B  None = None
    Conns = {a1, a2, b1}
    Channels = {A, B}
    Room <- MCRoom
    Removable = {A}
    MaxLost = 1
    Courses <- MCCourses
SYMMETRY Interchangeable
INVARIANTS ConnectedIsSeen NoGhost ConnectedIsShown
CHECK_DEADLOCK FALSE
