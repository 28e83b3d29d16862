\* One payment through failed calls, dead processes and stalled workers;
\* purchases and upgrades that meet on a membership or on a number
SPECIFICATION Spec
SYMMETRY Interchangeable
CONSTANTS
    alice = alice  bob = bob  n1 = n1  n2 = n2  n3 = n3  p1 = p1  Free = Free
    Workers = {w1, w2}
    Users = {alice, bob}
    Orders = {n1, n2, n3, p1}
    Cap = 2
    Disputes = {d1}
    MaxVersion = 5
    Courses <- MCOrders
    Buyer <- MCBuyer
    From <- MCFrom
INVARIANTS RefundIsFinal RefundedNeverApplied VoidedRefundTaken DeletedLeavesNothing
           BadgeSettled DisputesListed NumberHeld
PROPERTIES NoVoidRefundInDispute OrdersFollowLifecycle DeletedRowsRefunded
