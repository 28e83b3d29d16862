SPECIFICATION Spec
CONSTANTS
    Orders = {o1}
    Prot <- MCProt
    Nonces = {n1}
    Adjust <- MCAdjust
    Workers = {w1, w2}
    Stalls = {}
    None = None
    o1 = o1
    n1 = n1
    w1 = w1
    w2 = w2
SYMMETRY Interchangeable
INVARIANT DeletedKeepsNoCredit
CHECK_DEADLOCK FALSE
