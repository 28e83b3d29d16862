--------------------------- MODULE MCCipherEngine ---------------------------
\* CipherEngine for TLC: a buyer's purchase n1, an upgrade p1 on top of it, a
\* second purchase n2 by the same buyer, and another buyer's n3.
EXTENDS CipherEngine, TLC

CONSTANTS alice, bob, n1, p1, n2, n3

MCBuyer == [o \in Orders |-> IF o = n3 THEN bob ELSE alice]
MCFrom == [o \in Orders |-> IF o = p1 THEN 1 ELSE 0]

\* Workers are alike, and so are the disputes of a payment
Interchangeable == Permutations(Workers) \cup Permutations(Disputes)

\* Nothing sold, nothing for sale, nothing goes wrong
Calm == [sold |-> {}, opened |-> {}, new |-> {}, expire |-> {},
         dispute |-> {}, refund |-> {}, slow |-> {}, delete |-> {},
         refusals |-> {}, spent |-> FALSE, stalls |-> FALSE,
         faults |-> FALSE, crashes |-> FALSE]

\* One payment from its session on. Calls fail and processes die while it sees
\* two of a dispute, a Dashboard refund and the deletion of the buyer's account;
\* or it sees all three and nothing fails. Refunds may settle later, or not
MCFailures ==
    LET Faulty == [Calm EXCEPT !.opened = {n1}, !.expire = {n1},
                               !.refusals = {"RegionUnavailable"},
                               !.faults = TRUE, !.crashes = TRUE] IN
    {[Faulty EXCEPT !.dispute = {n1}, !.delete = {alice}],
     [Faulty EXCEPT !.refund = {n1}, !.delete = {alice}],
     [Faulty EXCEPT !.dispute = {n1}, !.refund = {n1}, !.slow = {n1}],
     [Calm EXCEPT !.opened = {n1}, !.dispute = {n1}, !.refund = {n1},
                  !.slow = {n1}, !.delete = {alice}]}

\* One payment, refunded in the Dashboard or by the deletion of the account,
\* handled by workers that outlast their leases
MCStalls ==
    LET Stalled == [Calm EXCEPT !.opened = {n1}, !.slow = {n1}, !.stalls = TRUE] IN
    {[Stalled EXCEPT !.refund = {n1}], [Stalled EXCEPT !.delete = {alice}]}

\* A purchase is refunded and bought anew while an upgrade of it is applied
MCRebought ==
    {[Calm EXCEPT !.sold = {n1}, !.opened = {p1}, !.new = {n2}, !.refund = {n1}]}

\* An upgrade paid while the purchase under it is refunded, itself disputed,
\* and refunded by the owner or by us with a refund that settles later
MCUpgrades ==
    {[Calm EXCEPT !.sold = {n1}, !.opened = {p1}, !.dispute = {p1},
                  !.refund = {n1, p1}, !.spent = TRUE],
     [Calm EXCEPT !.sold = {n1}, !.opened = {p1}, !.dispute = {p1},
                  !.refund = {n1}, !.slow = {p1}]}

\* A session open and a checkout for the last number, while the owner of the
\* other one is refunded or disputed; or both, without the checkout
MCLastNumber ==
    {[Calm EXCEPT !.sold = {n1}, !.opened = {n2}, !.new = {n3}, !.refund = {n1}],
     [Calm EXCEPT !.sold = {n1}, !.opened = {n2}, !.new = {n3}, !.dispute = {n1}],
     [Calm EXCEPT !.sold = {n1}, !.opened = {n2}, !.dispute = {n1},
                  !.refund = {n1}]}

MCOrders == MCFailures \cup MCStalls \cup MCRebought \cup MCUpgrades \cup MCLastNumber

\* No event need arrive, processes die, Dashboard refunds are made or ours
\* settle late: the sweep alone gets everything done
MCLiveness ==
    {[Calm EXCEPT !.opened = {n1}, !.dispute = {n1}, !.refund = {n1},
                  !.crashes = TRUE],
     [Calm EXCEPT !.opened = {n1}, !.dispute = {n1}, !.slow = {n1},
                  !.refusals = {"RegionUnavailable"}, !.crashes = TRUE]}

\* The release of a refunded purchase meets an upgrade that is being disputed
MCUpgradeRefund ==
    {[Calm EXCEPT !.sold = {n1, p1}, !.dispute = {p1}, !.refund = {n1}]}

=============================================================================
