\* The release of a refunded purchase meets an upgrade that is being disputed
SPECIFICATION Spec
SYMMETRY Interchangeable
CONSTANTS
    alice = alice  bob = bob  n1 = n1  n2 = n2  n3 = n3  p1 = p1  Free = Free
    Workers = {w1, w2}
    Users = {alice}
    Orders = {n1, p1}
    Cap = 1
    Disputes = {d1}
    MaxVersion = 5
    Courses <- MCUpgradeRefund
    Buyer <- MCBuyer
    From <- MCFrom
PROPERTIES NoUpgradeRefundInDispute
