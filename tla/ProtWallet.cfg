SPECIFICATION Spec
CONSTANTS
    Orders = {o1}
    Prot <- MCProt
    Nonces = {n1}
    Adjust <- MCAdjust
    Workers = {w1, w2}
    Stalls = {"credit"}
    None = None
    o1 = o1
    n1 = n1
    w1 = w1
    w2 = w2
SYMMETRY Interchangeable
INVARIANTS DoubleEntry RefundedIsClawed DeadWallet
CHECK_DEADLOCK FALSE
