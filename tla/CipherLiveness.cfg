\* No event need arrive, processes die: the sweep alone gets everything done
SPECIFICATION LiveSpec
CONSTANTS
    alice = alice  bob = bob  n1 = n1  n2 = n2  n3 = n3  p1 = p1  Free = Free
    Workers = {w1, w2}
    Users = {alice}
    Orders = {n1}
    Cap = 1
    Disputes = {d1}
    MaxVersion = 8
    Courses <- MCLiveness
    Buyer <- MCBuyer
    From <- MCFrom
PROPERTIES PaidSettles DisputesClose ReleaseEnds
