----------------------------- MODULE ProtWallet -----------------------------
(***************************************************************************)
(* The Prot wallet of one buyer: paid orders credited to it and clawed     *)
(* back from it, staff adjustments, and the deletion of the account, whose *)
(* forfeit races every credit still under way.  A posting (the ledger row, *)
(* unique by its key, and the balances it moves) is one transaction; the   *)
(* steps around it are not, and each may be the last one of its process.   *)
(*                                                                         *)
(* Money is left to CipherEngine: an order is only its own record here.    *)
(***************************************************************************)
EXTENDS Integers, FiniteSets, FiniteSetsExt

CONSTANTS
    Orders,         \* the buyer's Prot orders
    Prot,           \* what each order credits
    Nonces,         \* staff adjustments
    Adjust,         \* what each adjustment adds, or takes
    Workers,        \* workers that may hold an order
    Stalls,         \* bound: where a worker may outlive its lease
    None

ASSUME WalletAmounts == Prot \in [Orders -> Nat \ {0}] /\ Adjust \in [Nonces -> Int \ {0}]
ASSUME WalletOrders == IsFiniteSet(Orders)
ASSUME WalletNone == None \notin Workers /\ Stalls \subseteq STRING

VARIABLES
    order,          \* payment_orders
    holder,         \* Orders -> the worker whose lease has not run out
    worker,         \* workers and the copy of the order each works on
    ledger,         \* prot_ledger
    balance,        \* prot_accounts: the wallet
    deleted,        \* the user is flagged deleted
    task,           \* the deletion of the account
    staff,          \* staff adjustments in progress
    late,           \* history: orders credited by a worker past its lease
    lost            \* history: orders whose late creditor died before its second pass

vars == <<order, holder, worker, ledger, balance, deleted, task, staff, late, lost>>

\* `terms`: whether the session that pays the order asks what the order costs
NewOrder(terms) ==
    [state |-> "Pending", intent |-> FALSE, reason |-> FALSE, pending |-> "None", open |-> FALSE,
     buyer |-> TRUE, terms |-> terms]
Idle == [pc |-> "idle", o |-> None, copy |-> NewOrder(TRUE), kind |-> "None", deleting |-> FALSE]

Init ==
    /\ order \in [Orders -> {NewOrder(terms) : terms \in BOOLEAN}]
    /\ holder = [o \in Orders |-> None]
    /\ worker = [w \in Workers |-> Idle]
    /\ ledger = {} /\ balance = 0
    /\ deleted = FALSE /\ task = "due"
    /\ staff = [n \in Nonces |-> "new"]
    /\ late = {} /\ lost = {}

IsDisputed(o) == o.open \/ o.pending = "DisputeLost"
-----------------------------------------------------------------------------
(* The ledger: apply_prot_posting and what is posted                       *)

Rows(kind, id) == {row \in ledger : row.kind = kind /\ row.id = id}
Purchased(o) == Rows("purchase", o) # {}
Clawed(o) == Rows("clawback", o) # {}

\* Mutant: the key of the row does not keep a posting from being applied twice
PostTwice(kind, id, amount) ==
    /\ ledger' = ledger \cup {[kind |-> kind, id |-> id, amount |-> amount]}
    /\ balance' = balance + amount

\* A row under a key that is taken moves nothing
Post(kind, id, amount) ==
    IF Rows(kind, id) # {}
      THEN UNCHANGED <<ledger, balance>>
      ELSE /\ ledger' = ledger \cup {[kind |-> kind, id |-> id, amount |-> amount]}
           /\ balance' = balance + amount

Lesser(a, b) == IF a <= b THEN a ELSE b

\* clawback_purchase: up to what the purchase credited, from what the wallet holds
ClawbackPurchase(o) ==
    IF Purchased(o)
      THEN Post("clawback", o, -Lesser(Prot[o], balance))
      ELSE UNCHANGED <<ledger, balance>>

\* One pass of forfeit_prot_wallet
ForfeitPass ==
    Post("forfeit", Cardinality({row \in ledger : row.kind = "forfeit"}) + 1, -balance)
-----------------------------------------------------------------------------
(* Workers: lease, copy, fenced writes (models/payment_orders, engine.rs)  *)

At(w, pc) == worker[w].pc = pc
Goto(w, pc) == worker' = [worker EXCEPT ![w].pc = pc]
Fenced(w) == LET q == worker[w] IN holder[q.o] = w /\ order[q.o] = q.copy

Stop(w) ==
    /\ worker' = [worker EXCEPT ![w] = Idle]
    /\ holder' = [holder EXCEPT ![worker[w].o] = IF @ = w THEN None ELSE @]

\* The handler goes on at `pc`, or is done
Done(w, pc) ==
    IF pc = "done" THEN Stop(w)
    ELSE worker' = [worker EXCEPT ![w].pc = pc, ![w].kind = "None"] /\ UNCHANGED holder

\* A write of the worker's copy, refused once the lease, the version or the buyer moved
Save(w, copy, pc) ==
    IF ~Fenced(w)
      THEN Stop(w) /\ UNCHANGED order
      ELSE /\ order' = [order EXCEPT ![worker[w].o] = copy]
           /\ IF pc = "done" THEN Stop(w)
              ELSE /\ worker' = [worker EXCEPT ![w].copy = copy, ![w].pc = pc, ![w].kind = "None"]
                   /\ UNCHANGED holder

Acquire(w, o, pc, kind, deleting) ==
    /\ At(w, "idle") /\ holder[o] = None
    /\ holder' = [holder EXCEPT ![o] = w]
    /\ worker' = [worker EXCEPT ![w] = [pc |-> pc, o |-> o, copy |-> order[o],
                                        kind |-> kind, deleting |-> deleting]]
    /\ UNCHANGED <<order, ledger, balance, deleted, task, staff, late, lost>>
-----------------------------------------------------------------------------
(* Fulfilment: fulfil_locked, for a Prot order                             *)

\* A paid session, or the reconcile resume of an order already paid
StartFulfil(w, o) ==
    LET state == order[o].state IN
    /\ \/ state \in {"Pending", "Paid"}
       \/ state = "Voided" /\ ~order[o].intent
       \/ state = "Fulfilled" /\ order[o].pending # "None"
    /\ Acquire(w, o, CASE state = "Pending" -> "pay" [] state = "Paid" -> "judge"
                       [] state = "Voided" -> "latepay" [] state = "Fulfilled" -> "claw",
               "None", FALSE)

MarkPaid(w) ==
    /\ At(w, "pay")
    /\ Save(w, [worker[w].copy EXCEPT !.state = "Paid", !.intent = TRUE], "judge")
    /\ UNCHANGED <<ledger, balance, deleted, task, staff, late, lost>>

\* void_late_payment: a dispute on record keeps the refund waiting
PayVoided(w) ==
    LET q == worker[w] IN
    /\ At(w, "latepay")
    /\ IF IsDisputed(q.copy)
         THEN Save(w, [q.copy EXCEPT !.intent = TRUE, !.state = "Paid"], "void")
         ELSE Save(w, [q.copy EXCEPT !.intent = TRUE], "done")
    /\ UNCHANGED <<ledger, balance, deleted, task, staff, late, lost>>

\* Wrong terms, a void already begun, a buyer unlinked or deleted: in this order
Judge(w) ==
    LET q == worker[w] IN
    /\ At(w, "judge")
    /\ Goto(w, IF ~q.copy.terms \/ q.copy.reason THEN "void"
               ELSE IF ~q.copy.buyer \/ deleted THEN "unwind" ELSE "applied")
    /\ UNCHANGED <<order, holder, ledger, balance, deleted, task, staff, late, lost>>

\* Credited by a worker that died: only the last write is missing.  Otherwise the country
\* may not be one Prot is sold to, and nothing is credited with a dispute open or the
\* money on its way back
ReadApplied(w) ==
    LET q == worker[w] IN
    /\ At(w, "applied")
    /\ \E refused \in BOOLEAN :
          Goto(w, IF Purchased(q.o) THEN "fulfil"
                  ELSE IF refused \/ q.copy.open \/ q.copy.pending # "None" THEN "void"
                  ELSE "credit")
    /\ UNCHANGED <<order, holder, ledger, balance, deleted, task, staff, late, lost>>

\* apply_purchase
Credit(w) ==
    LET o == worker[w].o IN
    /\ At(w, "credit")
    /\ Post("purchase", o, Prot[o])
    /\ late' = IF holder[o] # w /\ ~Purchased(o) THEN late \cup {o} ELSE late
    /\ Goto(w, "second")
    /\ UNCHANGED <<order, holder, deleted, task, staff, lost>>

\* Mutant: the account is not looked at again after the credit
SecondPassSkipped(w) ==
    /\ At(w, "second")
    /\ Goto(w, "fulfil")
    /\ UNCHANGED <<order, holder, ledger, balance, deleted, task, staff, late, lost>>

\* forfeit_if_deleted, read after the credit has committed
SecondPass(w) ==
    /\ At(w, "second")
    /\ Goto(w, IF deleted /\ balance > 0 THEN "forfeit" ELSE "fulfil")
    /\ UNCHANGED <<order, holder, ledger, balance, deleted, task, staff, late, lost>>

Forfeit(w) ==
    /\ At(w, "forfeit")
    /\ ForfeitPass
    /\ Goto(w, "fulfil")
    /\ UNCHANGED <<order, holder, deleted, task, staff, late, lost>>

\* A reversal recorded before is applied next
Fulfilled(w) ==
    LET q == worker[w] IN
    /\ At(w, "fulfil")
    /\ Save(w, [q.copy EXCEPT !.state = "Fulfilled"], IF q.copy.pending = "None" THEN "done" ELSE "claw")
    /\ UNCHANGED <<ledger, balance, deleted, task, staff, late, lost>>
-----------------------------------------------------------------------------
(* Voids: void_for_deleted_account, void_paid                              *)

\* Our session names the buyer even when the order no longer does
Unwind(w) ==
    /\ At(w, "unwind")
    /\ ClawbackPurchase(worker[w].o)
    /\ Goto(w, "void")
    /\ UNCHANGED <<order, holder, deleted, task, staff, late, lost>>

\* The reason is written before the refund, unless a lost dispute took the money; an open
\* dispute puts the void off
Void(w) ==
    LET q == worker[w] IN
    /\ At(w, "void")
    /\ IF q.copy.pending = "DisputeLost"
         THEN Save(w, [q.copy EXCEPT !.state = "Voided", !.reason = TRUE, !.pending = "None"], "done")
         ELSE IF q.copy.open THEN Stop(w) /\ UNCHANGED order
         ELSE IF q.copy.reason THEN Goto(w, "refund") /\ UNCHANGED <<order, holder>>
         ELSE Save(w, [q.copy EXCEPT !.reason = TRUE], "refundnew")
    /\ UNCHANGED <<ledger, balance, deleted, task, staff, late, lost>>

\* Stripe refunds, refuses (the reason this void wrote is taken back) or does not answer
Refund(w) ==
    LET q == worker[w] IN
    /\ q.pc \in {"refund", "refundnew"}
    /\ \/ Goto(w, "voided") /\ UNCHANGED <<order, holder>>
       \/ q.pc = "refundnew" /\ Save(w, [q.copy EXCEPT !.reason = FALSE], "done")
       \/ Stop(w) /\ UNCHANGED order
    /\ UNCHANGED <<ledger, balance, deleted, task, staff, late, lost>>

Voided(w) ==
    /\ At(w, "voided")
    /\ Save(w, [worker[w].copy EXCEPT !.state = "Voided", !.pending = "None"], "done")
    /\ UNCHANGED <<ledger, balance, deleted, task, staff, late, lost>>
-----------------------------------------------------------------------------
(* Reversals: reverse_locked, reverse_prot_fulfilled                       *)

Kinds == {"Refund", "DisputeOpened", "DisputeWon", "DisputeLost"}

StartReverse(w, o, kind) ==
    /\ order[o].state \in {"Pending", "Paid", "Fulfilled"}
    /\ Acquire(w, o, "record", kind, FALSE)

DisputeAfter(copy, kind) ==
    CASE kind = "DisputeOpened" -> TRUE
      [] kind \in {"DisputeWon", "DisputeLost"} -> FALSE
      [] OTHER -> copy.open

\* record_before_fulfilment; a fulfilled order records the dispute, then the clawback
Record(w) ==
    LET q == worker[w]
        copy == [q.copy EXCEPT !.open = DisputeAfter(q.copy, q.kind)]
        pending == CASE q.kind = "DisputeLost" -> "DisputeLost"
                     [] q.kind = "Refund" /\ q.copy.pending = "None" -> "Refund"
                     [] OTHER -> q.copy.pending
        takes == q.kind \in {"Refund", "DisputeLost"} IN
    /\ At(w, "record")
    /\ IF q.copy.state # "Fulfilled" THEN Save(w, [copy EXCEPT !.pending = pending], "done")
       ELSE IF copy = q.copy THEN Done(w, IF takes THEN "claw" ELSE "done") /\ UNCHANGED order
       ELSE Save(w, copy, IF takes THEN "claw" ELSE "done")
    /\ UNCHANGED <<ledger, balance, deleted, task, staff, late, lost>>

\* Mutant: the order is recorded Refunded, the clawback left for later
ClawNothing(w) ==
    /\ At(w, "claw")
    /\ UNCHANGED <<ledger, balance>>
    /\ Goto(w, "refunded")
    /\ UNCHANGED <<order, holder, deleted, task, staff, late, lost>>

\* An unlinked order has no wallet to claw from
Claw(w) ==
    LET q == worker[w] IN
    /\ At(w, "claw")
    /\ IF q.copy.buyer THEN ClawbackPurchase(q.o) ELSE UNCHANGED <<ledger, balance>>
    /\ Goto(w, "refunded")
    /\ UNCHANGED <<order, holder, deleted, task, staff, late, lost>>

Refunded(w) ==
    /\ At(w, "refunded")
    /\ Save(w, [worker[w].copy EXCEPT !.state = "Refunded", !.pending = "None"], "done")
    /\ UNCHANGED <<ledger, balance, deleted, task, staff, late, lost>>
-----------------------------------------------------------------------------
(* Account deletion: crond delete_accounts, on_account_deleted             *)

Deleting == \E w \in Workers : worker[w].deleting

\* The voids are best-effort: an order that is leased, or missed, is left alone
StartDeletionVoid(w, o) ==
    /\ task = "void" /\ ~Deleting
    /\ order[o].buyer /\ order[o].state \in {"Pending", "Paid"}
    /\ Acquire(w, o, IF order[o].state = "Paid" THEN "unwind" ELSE "voidunpaid", "None", TRUE)

VoidUnpaid(w) ==
    /\ At(w, "voidunpaid")
    /\ Save(w, [worker[w].copy EXCEPT !.state = "Voided", !.reason = TRUE], "done")
    /\ UNCHANGED <<ledger, balance, deleted, task, staff, late, lost>>

StartTask ==
    /\ task = "due"
    /\ task' = "void"
    /\ UNCHANGED <<order, holder, worker, ledger, balance, deleted, staff, late, lost>>

Unlink ==
    /\ task = "void" /\ ~Deleting
    /\ order' = [o \in Orders |-> [order[o] EXCEPT !.buyer = FALSE]]
    /\ task' = "user"
    /\ UNCHANGED <<holder, worker, ledger, balance, deleted, staff, late, lost>>

\* User::delete flags the user before the wallet is forfeited
DeleteUser ==
    /\ task = "user"
    /\ deleted' = TRUE
    /\ task' = "wallet"
    /\ UNCHANGED <<order, holder, worker, ledger, balance, staff, late, lost>>

ReadWallet ==
    /\ task = "wallet"
    /\ task' = IF balance > 0 THEN "forfeit" ELSE "mark"
    /\ UNCHANGED <<order, holder, worker, ledger, balance, deleted, staff, late, lost>>

ForfeitWallet ==
    /\ task = "forfeit"
    /\ ForfeitPass
    /\ task' = "mark"
    /\ UNCHANGED <<order, holder, worker, deleted, staff, late, lost>>

MarkDeleted ==
    /\ task = "mark"
    /\ task' = "done"
    /\ UNCHANGED <<order, holder, worker, ledger, balance, deleted, staff, late, lost>>

\* A step that failed, or the task's death: the account stays due
TaskFails ==
    /\ task \notin {"due", "done"}
    /\ ~Deleting
    /\ task' = "due"
    /\ UNCHANGED <<order, holder, worker, ledger, balance, deleted, staff, late, lost>>
-----------------------------------------------------------------------------
(* Staff adjustments: prot_adjust, admin_prot_adjust                       *)

\* The route refuses an account that is deleted, a replay of the nonce included
StaffCheck(n) ==
    /\ staff[n] \in {"new", "died"} /\ ~deleted
    /\ staff' = [staff EXCEPT ![n] = "post"]
    /\ UNCHANGED <<order, holder, worker, ledger, balance, deleted, task, late, lost>>

\* What a debit cannot cover is refused, unless its row is there already
StaffPost(n) ==
    LET refused == Rows("admin", n) = {} /\ balance + Adjust[n] < 0 IN
    /\ staff[n] = "post"
    /\ IF refused THEN UNCHANGED <<ledger, balance>> ELSE Post("admin", n, Adjust[n])
    /\ staff' = [staff EXCEPT ![n] = IF Adjust[n] > 0 THEN "second" ELSE "done"]
    /\ UNCHANGED <<order, holder, worker, deleted, task, late, lost>>

StaffSecond(n) ==
    /\ staff[n] = "second"
    /\ staff' = [staff EXCEPT ![n] = IF deleted /\ balance > 0 THEN "forfeit" ELSE "done"]
    /\ UNCHANGED <<order, holder, worker, ledger, balance, deleted, task, late, lost>>

StaffForfeit(n) ==
    /\ staff[n] = "forfeit"
    /\ ForfeitPass
    /\ staff' = [staff EXCEPT ![n] = "done"]
    /\ UNCHANGED <<order, holder, worker, deleted, task, late, lost>>

StaffDies(n) ==
    /\ staff[n] \in {"post", "second", "forfeit"}
    /\ staff' = [staff EXCEPT ![n] = "died"]
    /\ UNCHANGED <<order, holder, worker, ledger, balance, deleted, task, late, lost>>
-----------------------------------------------------------------------------
\* The worker died, and its lease has run out since, or a call it made failed
Crash(w) ==
    LET q == worker[w] IN
    /\ ~At(w, "idle")
    /\ lost' = IF q.pc \in {"second", "forfeit"} /\ holder[q.o] # w THEN lost \cup {q.o} ELSE lost
    /\ Stop(w)
    /\ UNCHANGED <<order, ledger, balance, deleted, task, staff, late>>

\* LEASE_MS has passed, and the holder is still at work
LeaseRunsOut(o) ==
    /\ holder[o] # None /\ worker[holder[o]].pc \in Stalls
    /\ holder' = [holder EXCEPT ![o] = None]
    /\ UNCHANGED <<order, worker, ledger, balance, deleted, task, staff, late, lost>>

WorkerStep(w) ==
    \/ MarkPaid(w) \/ PayVoided(w) \/ Judge(w) \/ ReadApplied(w) \/ Credit(w) \/ SecondPass(w)
    \/ Forfeit(w) \/ Fulfilled(w) \/ Unwind(w) \/ Void(w) \/ Refund(w) \/ Voided(w) \/ VoidUnpaid(w)
    \/ Record(w) \/ Claw(w) \/ Refunded(w)

TaskStep == StartTask \/ Unlink \/ DeleteUser \/ ReadWallet \/ ForfeitWallet \/ MarkDeleted

StaffStep(n) == StaffPost(n) \/ StaffSecond(n) \/ StaffForfeit(n)

Next ==
    \/ \E w \in Workers :
          \/ WorkerStep(w) \/ Crash(w)
          \/ \E o \in Orders : \/ StartFulfil(w, o) \/ StartDeletionVoid(w, o)
                               \/ \E kind \in Kinds : StartReverse(w, o, kind)
    \/ \E o \in Orders : LeaseRunsOut(o)
    \/ TaskStep \/ TaskFails
    \/ \E n \in Nonces : StaffCheck(n) \/ StaffStep(n) \/ StaffDies(n)

Spec == Init /\ [][Next]_vars
-----------------------------------------------------------------------------
OrderRow == [state : {"Pending", "Paid", "Fulfilled", "Voided", "Refunded"}, intent : BOOLEAN,
             reason : BOOLEAN, pending : {"None", "Refund", "DisputeLost"}, open : BOOLEAN,
             buyer : BOOLEAN, terms : BOOLEAN]
LedgerRow == [kind : {"purchase", "clawback", "forfeit", "admin"},
              id : Orders \cup Nonces \cup Nat, amount : Int]
Pcs == {"idle", "pay", "latepay", "judge", "applied", "credit", "second", "forfeit", "fulfil", "unwind",
        "void", "refund", "refundnew", "voided", "voidunpaid", "record", "claw", "refunded"}

\* Orders, rows and processes keep their shapes, and no debit overdraws the wallet
TypeOK ==
    /\ order \in [Orders -> OrderRow]
    /\ holder \in [Orders -> Workers \cup {None}]
    /\ worker \in [Workers -> [pc : Pcs, o : Orders \cup {None}, copy : OrderRow,
                               kind : Kinds \cup {"None"}, deleting : BOOLEAN]]
    /\ ledger \subseteq LedgerRow
    /\ balance \in Nat
    /\ deleted \in BOOLEAN
    /\ task \in {"due", "void", "user", "wallet", "forfeit", "mark", "done"}
    /\ staff \in [Nonces -> {"new", "post", "second", "forfeit", "done", "died"}]
    /\ late \subseteq Orders /\ lost \subseteq Orders

\* The balance is what the rows add up to, and no key has two rows
DoubleEntry ==
    /\ balance = MapThenSumSet(LAMBDA row : row.amount, ledger)
    /\ \A r, s \in ledger : r.kind = s.kind /\ r.id = s.id => r = s

\* An order whose money went back has had its Prot taken back too, however its handlers
\* died and were repeated; an unlinked order is the forfeit's business.  Not promised once a
\* worker has outlived its lease: the credit is not fenced
RefundedIsClawed ==
    \A o \in Orders \ late :
        order[o].state \in {"Voided", "Refunded"} /\ order[o].buyer /\ Purchased(o) => Clawed(o)

\* Prot in the wallet of an account whose deletion is done is on its way out: its worker
\* has yet to look at the account again, or its order is Paid and will be voided.  Only a
\* process that dies with its credit posted and nothing left to resume it strands Prot
OnItsWayOut ==
    \/ \E w \in Workers : worker[w].pc \in {"second", "forfeit"}
    \/ \E o \in Orders : order[o].state = "Paid" /\ Purchased(o) /\ ~Clawed(o)
    \/ \E n \in Nonces : staff[n] \in {"second", "forfeit"}
Stranded == lost # {} \/ \E n \in Nonces : staff[n] = "died" /\ Rows("admin", n) # {}
DeadWallet == task = "done" /\ balance > 0 => OnItsWayOut \/ Stranded

\* "An account deleted after the check above still never keeps a credit"
AllStopped == (\A w \in Workers : At(w, "idle")) /\ \A n \in Nonces : staff[n] \in {"new", "done", "died"}
DeletedKeepsNoCredit ==
    task = "done" /\ AllStopped /\ (\A o \in Orders : order[o].state # "Paid") => balance = 0
=============================================================================
