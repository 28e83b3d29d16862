---------------------------- MODULE PaymentOrder ----------------------------
(***************************************************************************)
(* One payment order: the fields of models/payment_orders that decide what *)
(* may happen to it, and every change the engine ever writes to it, each   *)
(* as a relation between the order a worker holds and the one it stores.   *)
(***************************************************************************)
EXTENDS Naturals

OrderState == {"Creating", "Pending", "SessionFailed", "Paid", "Fulfilled",
               "Expired", "Refunded", "Voided"}

\* The order's `reversal_pending`
Reversal == {"None", "Refund", "DisputeLost"}

(***************************************************************************)
(* The fields of a PaymentOrder that some write is conditional on.         *)
(*   intent - payment_intent_id is set (the money was seen)                *)
(*   open   - open_disputes is not empty                                   *)
(*   buyer  - user_id is still set                                         *)
(***************************************************************************)
Order == [state: OrderState, intent: BOOLEAN, pending: Reversal,
          open: BOOLEAN, buyer: BOOLEAN]

NewOrder == [state |-> "Creating", intent |-> FALSE, pending |-> "None",
             open |-> FALSE, buyer |-> TRUE]

Unpaid == {"Creating", "Pending", "SessionFailed"}
BeforeFulfilment == Unpaid \cup {"Expired", "Paid"}

\* engine.rs is_disputed: a dispute is open, or a lost one is not applied yet
IsDisputed(o) == o.open \/ o.pending = "DisputeLost"

-----------------------------------------------------------------------------
\* The writes

\* The checkout session was created, or could not be
StartSession(o, n) ==
    /\ o.state = "Creating"
    /\ n \in {[o EXCEPT !.state = "Pending"],
              [o EXCEPT !.state = "SessionFailed"]}

Expire(o, n) ==
    /\ o.state \in Unpaid
    /\ n = [o EXCEPT !.state = "Expired"]

\* A paid session: even an Expired order is marked Paid
MarkPaid(o, n) ==
    /\ o.state \in Unpaid \cup {"Expired"}
    /\ n = [o EXCEPT !.state = "Paid", !.intent = TRUE]

Fulfil(o, n) ==
    /\ o.state = "Paid"
    /\ n = [o EXCEPT !.state = "Fulfilled"]

\* The last write of a void: never while a dispute is open, unless one is lost
Void(o, n) ==
    /\ o.state = "Paid"
    /\ o.open => o.pending = "DisputeLost"
    /\ n = [o EXCEPT !.state = "Voided", !.pending = "None"]

\* Account deletion voids an order nobody has paid
VoidUnpaid(o, n) ==
    /\ o.state \in Unpaid
    /\ n = [o EXCEPT !.state = "Voided"]

\* A Voided order is paid after all: refunded where it stands, or back to
\* Paid (its void waits) when a dispute is on record
PayVoided(o, n) ==
    /\ o.state = "Voided" /\ ~o.intent
    /\ n = [o EXCEPT !.intent = TRUE,
                     !.state = IF IsDisputed(o) THEN "Paid" ELSE "Voided"]

\* A refund or a dispute of an order that is not fulfilled yet
RecordReversal(o, n) ==
    /\ o.state \in BeforeFulfilment
    /\ \/ n = [o EXCEPT !.pending = IF @ = "None" THEN "Refund" ELSE @]
       \/ \E open \in BOOLEAN :
             n \in {[o EXCEPT !.open = open],
                    [o EXCEPT !.open = open, !.pending = "DisputeLost"]}

\* A dispute of a fulfilled order is written on the order first
RecordDispute(o, n) ==
    /\ o.state = "Fulfilled"
    /\ \E open \in BOOLEAN : n = [o EXCEPT !.open = open]

\* The money went back. A Paid order too: an upgrade whose fulfilment
\* crashed, refunded by the release of the membership's number
MarkRefunded(o, n) ==
    /\ o.state \in {"Paid", "Fulfilled"}
    /\ n = [o EXCEPT !.state = "Refunded", !.pending = "None"]

\* No membership is left to reverse: the recorded reversal is dropped
DropReversal(o, n) ==
    /\ o.state = "Fulfilled" /\ o.pending # "None"
    /\ n = [o EXCEPT !.pending = "None"]

\* A fenced write that changes none of these fields: the no-op that asks
\* "is the lease still mine?", void_reason, refund_settling_since
Touch(o, n) == n = o

Change(o, n) ==
    \/ StartSession(o, n)   \/ Expire(o, n)        \/ MarkPaid(o, n)
    \/ Fulfil(o, n)         \/ Void(o, n)          \/ VoidUnpaid(o, n)
    \/ PayVoided(o, n)      \/ RecordReversal(o, n) \/ RecordDispute(o, n)
    \/ MarkRefunded(o, n)   \/ DropReversal(o, n)  \/ Touch(o, n)

\* unlink_payment_orders_by_user, for this order
Unlink(o, n) ==
    /\ o.buyer
    /\ n = [o EXCEPT !.buyer = FALSE]

\* An order whose money is settled for good
Settled(o) == o.state = "Refunded" \/ (o.state = "Voided" /\ o.intent)

=============================================================================
