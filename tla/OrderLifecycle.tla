--------------------------- MODULE OrderLifecycle ---------------------------
(***************************************************************************)
(* What the engine promises of ONE payment order, as if every change of it *)
(* were a single indivisible step: it only ever moves by the changes of    *)
(* PaymentOrder, each judged on the order as it is stored, and by the      *)
(* account-deletion unlink, which runs outside the lease.                  *)
(*                                                                         *)
(* OrderLease shows that workers which lease the stored row, work on a     *)
(* private copy, stall, crash and are taken over still implement this.     *)
(***************************************************************************)
EXTENDS PaymentOrder

VARIABLE order

Init == order = NewOrder

Next == Change(order, order') \/ Unlink(order, order')

Spec == Init /\ [][Next]_order

-----------------------------------------------------------------------------
(***************************************************************************)
(* An order that reached Paid, Fulfilled or Refunded has its payment       *)
(* intent recorded: without it none of the refunds of void_paid or of a    *)
(* number release could name the payment.                                  *)
(***************************************************************************)
MoneyRecorded == order.state \in {"Paid", "Fulfilled", "Refunded"} => order.intent

(***************************************************************************)
(* A settled order (Refunded, or Voided after its payment was seen) never  *)
(* leaves its state again, whatever is delivered late or twice: only the   *)
(* buyer link may still go.                                                *)
(***************************************************************************)
SettledForever == [][Settled(order) => /\ order'.state = order.state
                                       /\ order'.intent = order.intent]_order

(***************************************************************************)
(* A lost dispute recorded before it could be applied is never forgotten   *)
(* nor replaced by a refund until the order is Voided or Refunded (or is   *)
(* Fulfilled with no membership left to revoke).                           *)
(***************************************************************************)
LostDisputeKept ==
    [][order.pending = "DisputeLost" /\ order'.pending # "DisputeLost" =>
         \/ order'.state \in {"Voided", "Refunded"}
         \/ order.state = "Fulfilled" /\ order'.pending = "None"]_order

=============================================================================
