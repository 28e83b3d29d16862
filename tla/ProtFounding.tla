---------------------------- MODULE ProtFounding ----------------------------
(***************************************************************************)
(* The Prot a Cipher membership brings with it.  The ledger is kept in     *)
(* step with the buyer's membership row: an upward sync posts what the     *)
(* membership is owed, the clawback of a reversed order takes back what it *)
(* has beyond its target.  Both are transactions that end in a bump of the *)
(* row's version, so neither commits on a row that moved since it was      *)
(* read.  The engine's own steps, between them, may be cut anywhere.       *)
(*                                                                         *)
(* One buyer.  An order has one handler at a time (its lease); workers     *)
(* that outlive a lease, money and the badge are CipherEngine's.           *)
(***************************************************************************)
EXTENDS Integers, Sequences, FiniteSets, FiniteSetsExt

CONSTANTS
    LastOrder,      \* bound: order ids are 1..LastOrder, in the order of their creation
    TierProt,       \* the Prot of each tier (catalog::tier_prot)
    Syncers,        \* fulfilment hooks and sweeps that may sync at the same time
    MaxBusy,        \* bound: orders handled at the same time
    MaxSpent,       \* bound: Prot the buyer spends
    Expiring,       \* bound: orders whose session may expire unpaid
    Disputed,       \* bound: orders that may be disputed
    None

Orders == 1..LastOrder
Tiers == 1..Len(TierProt)

ASSUME FoundingProt == /\ TierProt \in Seq(Nat \ {0}) /\ TierProt # <<>>
                       /\ \A t, u \in Tiers : t <= u => TierProt[t] <= TierProt[u]
ASSUME FoundingBounds == LastOrder \in Nat \ {0} /\ MaxBusy \in Nat \ {0} /\ MaxSpent \in Nat
                         /\ Expiring \subseteq Orders /\ Disputed \subseteq Orders
MemberRow == [orders : Seq(Orders), tier : Tiers, active : BOOLEAN,
              reason : {"None", "Refund", "DisputeLost"}, disputed : SUBSET Orders]
ClawRow == [base : Orders, requested : Nat, amount : Nat]
ASSUME FoundingNames == None \notin MemberRow \cup ClawRow /\ Syncers \cap (Orders \X {"row", "claw"}) = {}

VARIABLES
    order,          \* payment_orders; `to` is the tier bought, `from` the tier upgraded.  For
                    \* the properties: was a reversal of it begun, which row was it applied to
    handler,        \* the handler of each order and what it holds in memory
    member,         \* cipher_memberships: the buyer's row
    marked,         \* orders whose number is marked for release (cipher_numbers)
    granted,        \* base order -> Prot of its founding and upgrade rows (prot_ledger)
    claws,          \* order -> its clawback row
    balance,        \* the wallet
    sync,           \* syncs that have read the row
    current,        \* reads of the row not followed by a write of it: the version still holds
    spent, replaced, released, cut, skipped   \* history, see the properties

vars == <<order, handler, member, marked, granted, claws, balance, sync, current,
          spent, replaced, released, cut, skipped>>
rows == <<granted, claws, balance>>
history == <<replaced, released, cut, skipped>>

NoOrder == [state |-> "None", from |-> 0, to |-> 1, pending |-> FALSE, reversed |-> FALSE, home |-> 0]
NoHandler == [pc |-> "idle", why |-> "Refund", need |-> 0, releasing |-> FALSE, stays |-> FALSE, others |-> {}]

Init ==
    /\ order = [o \in Orders |-> NoOrder]
    /\ handler = [o \in Orders |-> NoHandler]
    /\ member = None /\ marked = {}
    /\ granted = [o \in Orders |-> 0] /\ claws = [o \in Orders |-> None]
    /\ balance = 0 /\ spent = 0
    /\ sync = [s \in Syncers |-> 0] /\ current = {}
    /\ replaced = {} /\ released = {} /\ cut = {} /\ skipped = {}
-----------------------------------------------------------------------------
(* The row and its Prot: models/prot/model.rs                              *)

ToSet(s) == {s[i] : i \in DOMAIN s}
Active == member # None /\ member.active
Listed(o) == member # None /\ o \in ToSet(member.orders)
Base == member.orders[1]

Claws(b) == {o \in Orders : claws[o] # None /\ claws[o].base = b}
\* cipher_prot_posted counts what a clawback asked for, not what the wallet had left
Posted(b) == granted[b] - MapThenSumSet(LAMBDA o : claws[o].requested, Claws(b))
Shortfall(b) == MapThenSumSet(LAMBDA o : claws[o].requested - claws[o].amount, Claws(b))
Target == IF Active THEN TierProt[member.tier] ELSE 0

Current(token) == token \in current
Read(token) == current' = current \cup {token}
\* A compare-and-swap that succeeds: every read made before it is out of date
WriteRow(row) == member' = row /\ current' = {}
-----------------------------------------------------------------------------
(* The upward sync: plan_cipher_sync, CipherSyncBody                       *)

\* Mutant: only the founding grant is synced, never the difference of an upgrade
SyncReadFounding(s) ==
    /\ sync[s] = 0
    /\ Active /\ member.disputed = {} /\ granted[Base] = 0
    /\ sync' = [sync EXCEPT ![s] = Target]
    /\ Read(s)
    /\ UNCHANGED <<order, handler, member, marked, rows, spent, history>>

\* Only an active membership with no dispute listed is owed anything
SyncRead(s) ==
    /\ sync[s] = 0
    /\ Active /\ member.disputed = {} /\ Posted(Base) < Target
    /\ sync' = [sync EXCEPT ![s] = Target - Posted(Base)]
    /\ Read(s)
    /\ UNCHANGED <<order, handler, member, marked, rows, spent, history>>

\* Mutant: the posting does not depend on the version that was read
SyncCommitAnyhow(s) ==
    /\ sync[s] > 0 /\ member # None
    /\ granted' = [granted EXCEPT ![Base] = @ + sync[s]]
    /\ balance' = balance + sync[s]
    /\ current' = {}
    /\ sync' = [sync EXCEPT ![s] = 0]
    /\ UNCHANGED <<order, handler, member, marked, claws, spent, history>>

\* The row moved: the transaction ends without a trace, and is run again on what is there
SyncCommit(s) ==
    /\ sync[s] > 0
    /\ IF Current(s)
         THEN /\ granted' = [granted EXCEPT ![Base] = @ + sync[s]]
              /\ balance' = balance + sync[s]
              /\ current' = {}
         ELSE UNCHANGED <<granted, balance, current>>
    /\ sync' = [sync EXCEPT ![s] = 0]
    /\ UNCHANGED <<order, handler, member, marked, claws, spent, history>>
-----------------------------------------------------------------------------
(* Handlers: the order's own steps                                         *)

At(o, pc) == handler[o].pc = pc
Goto(o, pc) == handler' = [handler EXCEPT ![o].pc = pc]
Finish(o) ==
    /\ handler' = [handler EXCEPT ![o] = NoHandler]
    /\ current' = current \ ({o} \X {"row", "claw"})
Begin(o, pc, why) ==
    /\ At(o, "idle") /\ Cardinality({p \in Orders : ~At(p, "idle")}) < MaxBusy
    /\ handler' = [handler EXCEPT ![o] = [NoHandler EXCEPT !.pc = pc, !.why = why]]

OrderIs(o, state) == order' = [order EXCEPT ![o].state = state]

ReleasePending == member # None /\ Base \in marked

\* create_cipher_checkout: one payable order at a time
Checkout(o) ==
    /\ order[o].state = "None" /\ \A p \in Orders : p < o => order[p].state # "None"
    /\ \A p \in Orders : order[p].state # "Pending"
    /\ ~ReleasePending
    /\ Active => member.disputed = {} /\ member.tier + 1 \in Tiers
    /\ LET from == IF Active THEN member.tier ELSE 0 IN
       order' = [order EXCEPT ![o] = [NoOrder EXCEPT !.state = "Pending", !.from = from, !.to = from + 1]]
    /\ UNCHANGED <<handler, member, marked, rows, sync, current, spent, history>>

\* expire_order; the session may still turn out to be paid
Expire(o) ==
    /\ o \in Expiring /\ order[o].state = "Pending" /\ At(o, "idle")
    /\ OrderIs(o, "Expired")
    /\ UNCHANGED <<handler, member, marked, rows, sync, current, spent, history>>

Pay(o) ==
    /\ order[o].state \in {"Pending", "Expired"}
    /\ Begin(o, "judge", "Refund")
    /\ OrderIs(o, "Paid")
    /\ UNCHANGED <<member, marked, rows, sync, current, spent, history>>

Resume(o) ==
    /\ order[o].state = "Paid" \/ (order[o].state = "Fulfilled" /\ order[o].pending)
    /\ Begin(o, IF order[o].state = "Paid" THEN "judge" ELSE "revoke", "Refund")
    /\ UNCHANGED <<order, member, marked, rows, sync, current, spent, history>>

\* What apply_membership asks of the row, each time it reads it
Applicable(o) ==
    IF order[o].from = 0 THEN ~Active
    ELSE Active /\ member.tier = order[o].from /\ member.disputed = {}

\* fulfil_locked up to the membership write
Judge(o) ==
    /\ At(o, "judge")
    /\ IF Listed(o) THEN Goto(o, "fulfil") /\ UNCHANGED <<order, current>>
       ELSE IF ~Applicable(o) \/ order[o].pending \/ (order[o].from = 0 /\ ReleasePending)
         THEN Finish(o) /\ OrderIs(o, "Voided")
         ELSE Goto(o, "apply") /\ UNCHANGED <<order, current>>
    /\ UNCHANGED <<member, marked, rows, sync, spent, history>>

\* apply_membership: a revoked row is replaced
Apply(o) ==
    LET fresh == [orders |-> <<o>>, tier |-> order[o].to, active |-> TRUE, reason |-> "None", disputed |-> {}]
        upgraded == [member EXCEPT !.orders = Append(@, o), !.tier = order[o].to]
        old == IF member # None /\ order[o].from = 0 THEN {Base} ELSE {} IN
    /\ At(o, "apply")
    /\ IF Applicable(o)
         THEN /\ WriteRow(IF order[o].from = 0 THEN fresh ELSE upgraded)
              /\ replaced' = (replaced \cup old) \ {o}
              /\ cut' = cut \cup {b \in old : Posted(b) > 0}
              /\ order' = [order EXCEPT ![o].home = IF order[o].from = 0 THEN o ELSE Base]
              /\ Goto(o, "fulfil")
         ELSE Finish(o) /\ OrderIs(o, "Voided") /\ UNCHANGED <<member, replaced, cut>>
    /\ UNCHANGED <<marked, rows, sync, spent, released, skipped>>

\* A reversal that came first is applied at once; it says nothing about a window
Fulfil(o) ==
    /\ At(o, "fulfil")
    /\ OrderIs(o, "Fulfilled")
    /\ IF order[o].pending THEN Goto(o, "revoke") /\ UNCHANGED current ELSE Finish(o)
    /\ UNCHANGED <<member, marked, rows, sync, spent, history>>
-----------------------------------------------------------------------------
(* Reversals: reverse_fulfilled, refund_within_window                      *)

\* A pending release is finished first, unless the dispute lost drops it
StartReverse(o, why, inWindow) ==
    /\ inWindow => why = "Refund"
    /\ order[o].state = "Fulfilled"
    /\ order' = [order EXCEPT ![o].reversed = TRUE]
    /\ marked' = IF why = "DisputeLost" THEN marked \ {o} ELSE marked
    /\ Begin(o, IF o \in marked' THEN "release" ELSE IF inWindow THEN "plan" ELSE "revoke", why)
    /\ UNCHANGED <<member, rows, sync, current, spent, history>>

\* record_before_fulfilment
RecordPending(o) ==
    /\ order[o].state = "Paid" /\ At(o, "idle") /\ ~order[o].pending
    /\ order' = [order EXCEPT ![o].pending = TRUE, ![o].reversed = TRUE]
    /\ UNCHANGED <<handler, member, marked, rows, sync, current, spent, history>>

\* dispute_lost_after_refund
LostAfterRefund(o) ==
    /\ order[o].state = "Refunded" /\ At(o, "idle")
    /\ Listed(o) /\ member.reason = "Refund"
    /\ WriteRow([member EXCEPT !.reason = "DisputeLost"])
    /\ UNCHANGED <<order, handler, marked, rows, sync, spent, history>>

\* window_clawback_covered
Covered(target) ==
    LET needed == Posted(Base) - target IN Shortfall(Base) = 0 /\ (needed > 0 => balance >= needed)

\* window_refund_plan_cipher
Undo(o) ==
    IF ~Listed(o) THEN "none"
    ELSE IF order[o].from = 0
      THEN IF member.disputed = {} /\ (Active \/ member.reason = "Refund") /\ o = Base THEN "release" ELSE "none"
    ELSE IF ~Active THEN "none"
    ELSE IF member.tier = order[o].to /\ member.orders[Len(member.orders)] = o THEN "downgrade"
    ELSE "stacked"

\* window_refund_plan: the undo the window allows, or the revoke
Plan(o) ==
    /\ At(o, "plan")
    /\ \/ /\ Undo(o) = "downgrade" /\ Covered(TierProt[order[o].from])
          /\ Goto(o, "downgrade") /\ Read(<<o, "row">>)
       \/ /\ Undo(o) = "release" /\ Covered(0)
          /\ Goto(o, "mark") /\ UNCHANGED current
       \/ /\ ~(Undo(o) = "downgrade" /\ Covered(TierProt[order[o].from]))
          /\ ~(Undo(o) = "release" /\ Covered(0))
          /\ Goto(o, IF Undo(o) = "stacked" THEN "refunded" ELSE "revoke") /\ UNCHANGED current
    /\ UNCHANGED <<order, member, marked, rows, sync, spent, history>>

\* The order goes from the row: it is the last one listed, and listed once
Downgrade(o) ==
    /\ At(o, "downgrade")
    /\ IF Current(<<o, "row">>)
         THEN /\ WriteRow([member EXCEPT !.tier = order[o].from, !.disputed = @ \ {o},
                                         !.orders = SubSeq(@, 1, Len(@) - 1)])
              /\ Goto(o, "claw")
         ELSE Goto(o, "plan") /\ UNCHANGED <<member, current>>
    /\ UNCHANGED <<order, marked, rows, sync, spent, history>>

\* The membership write of reverse_fulfilled; an order no row lists is unlisted_reversal's
Revoke(o) ==
    LET why == handler[o].why
        reason == IF Active \/ (why = "DisputeLost" /\ member.reason = "Refund") THEN why ELSE member.reason
        row == [member EXCEPT !.active = FALSE, !.reason = reason,
                              !.disputed = IF why = "DisputeLost" THEN @ \ {o} ELSE @] IN
    /\ At(o, "revoke")
    /\ IF Listed(o) /\ row # member THEN WriteRow(row) ELSE UNCHANGED <<member, current>>
    /\ Goto(o, "claw")
    /\ UNCHANGED <<order, marked, rows, sync, spent, history>>

Refunded(o) ==
    /\ At(o, "refunded")
    /\ order' = [order EXCEPT ![o].state = "Refunded", ![o].pending = FALSE]
    /\ Finish(o)
    /\ UNCHANGED <<member, marked, rows, sync, spent, history>>
-----------------------------------------------------------------------------
(* The downward sync: clawback_cipher_prot                                 *)

AfterClaw(o) == IF handler[o].releasing THEN "check" ELSE "refunded"
AfterCommit(o) == IF handler[o].releasing THEN "release" ELSE "refunded"

\* is_older_incarnation compares order ids with the base order's
Older(o) == o < Base

\* One row per order, nothing for an order older than the row, nothing to take back
Claw(o) ==
    LET settled == claws[o] # None \/ member = None \/ Older(o) \/ Posted(Base) <= Target IN
    /\ At(o, "claw")
    /\ IF settled THEN Goto(o, AfterClaw(o)) /\ UNCHANGED current
       ELSE /\ handler' = [handler EXCEPT ![o].pc = "commit", ![o].need = Posted(Base) - Target]
            /\ Read(<<o, "claw">>)
    /\ skipped' = IF member # None /\ Older(o) /\ order[o].home = Base THEN skipped \cup {o} ELSE skipped
    /\ UNCHANGED <<order, member, marked, rows, sync, spent, replaced, released, cut>>

\* Mutant: the clawback does not depend on the version that was read
CommitAnyhow(o) ==
    LET need == handler[o].need
        taken == IF need <= balance THEN need ELSE balance IN
    /\ At(o, "commit") /\ member # None
    /\ claws' = [claws EXCEPT ![o] = [base |-> Base, requested |-> need, amount |-> taken]]
    /\ balance' = balance - taken
    /\ current' = {}
    /\ Goto(o, AfterCommit(o))
    /\ UNCHANGED <<order, member, marked, granted, sync, spent, history>>

\* Up to what the wallet holds; the rest is the row's shortfall.  A release reads again
Commit(o) ==
    LET need == handler[o].need
        taken == IF need <= balance THEN need ELSE balance IN
    /\ At(o, "commit")
    /\ IF Current(<<o, "claw">>)
         THEN /\ claws' = [claws EXCEPT ![o] = [base |-> Base, requested |-> need, amount |-> taken]]
              /\ balance' = balance - taken
              /\ current' = {}
              /\ handler' = [handler EXCEPT ![o].need = 0, ![o].pc = AfterCommit(o)]
         ELSE Goto(o, "claw") /\ UNCHANGED <<claws, balance, current>>
    /\ UNCHANGED <<order, member, marked, granted, sync, spent, history>>
-----------------------------------------------------------------------------
(* The release of the number: finish_number_release_locked                 *)

\* Any reversal of the order, or the reconcile sweep, finishes what is marked
StartRelease(o) ==
    /\ o \in marked
    /\ Begin(o, "release", "Refund")
    /\ UNCHANGED <<order, member, marked, rows, sync, current, spent, history>>

Mark(o) ==
    /\ At(o, "mark")
    /\ marked' = marked \cup {o}
    /\ Goto(o, "release")
    /\ UNCHANGED <<order, member, rows, sync, current, spent, history>>

\* The row is revoked, read, and its Prot taken back before it is looked at any further
Release(o) ==
    /\ At(o, "release")
    /\ IF ~Listed(o) THEN Goto(o, "record") /\ UNCHANGED <<member, current>>
       ELSE IF Active THEN WriteRow([member EXCEPT !.active = FALSE, !.reason = "Refund"]) /\ UNCHANGED handler
       ELSE /\ handler' = [handler EXCEPT ![o].pc = "claw", ![o].releasing = TRUE,
                              ![o].others = ToSet(member.orders) \ {o},
                              ![o].stays = member.reason # "Refund" \/ member.disputed # {}]
            /\ Read(<<o, "row">>) /\ UNCHANGED member
    /\ UNCHANGED <<order, marked, rows, sync, spent, history>>

\* Mutant: Prot spent since the decision does not matter
CheckStays(o) ==
    /\ At(o, "check")
    /\ Goto(o, IF handler[o].stays THEN "record" ELSE "upgrades")
    /\ UNCHANGED <<order, member, marked, rows, sync, current, spent, history>>

\* keep_number_retired, or on with the release
Check(o) ==
    /\ At(o, "check")
    /\ Goto(o, IF handler[o].stays \/ Shortfall(o) > 0 THEN "record" ELSE "upgrades")
    /\ UNCHANGED <<order, member, marked, rows, sync, current, spent, history>>

\* refund_release_upgrades: each refunded and recorded, or the release waits
Upgrades(o) ==
    LET open == {u \in handler[o].others : order[u].state \notin {"Refunded", "Voided"}} IN
    /\ At(o, "upgrades")
    /\ \/ open = {} /\ Goto(o, "delete") /\ UNCHANGED <<order, current>>
       \/ \E u \in open : At(u, "idle") /\ OrderIs(u, "Refunded") /\ UNCHANGED <<handler, current>>
       \/ open # {} /\ Finish(o) /\ UNCHANGED order
    /\ skipped' = skipped \cup {u \in open : order'[u].state = "Refunded" /\ order[u].home # o}
    /\ UNCHANGED <<member, marked, rows, sync, spent, replaced, released, cut>>

\* Mutant: the row is deleted whatever became of it since it was read
DeleteAnyhow(o) ==
    /\ At(o, "delete")
    /\ IF member # None
         THEN WriteRow(None) /\ released' = released \cup {Base} /\ Goto(o, "record")
         ELSE Goto(o, "release") /\ UNCHANGED <<member, current, released>>
    /\ UNCHANGED <<order, marked, rows, sync, spent, replaced, cut, skipped>>

Delete(o) ==
    /\ At(o, "delete")
    /\ IF Current(<<o, "row">>)
         THEN WriteRow(None) /\ released' = released \cup {Base} /\ Goto(o, "record")
         ELSE Goto(o, "release") /\ UNCHANGED <<member, current, released>>
    /\ UNCHANGED <<order, marked, rows, sync, spent, replaced, cut, skipped>>

Record(o) ==
    /\ At(o, "record")
    /\ order' = [order EXCEPT ![o].state = IF @ = "Fulfilled" THEN "Refunded" ELSE @, ![o].pending = FALSE]
    /\ Goto(o, "unmark")
    /\ UNCHANGED <<member, marked, rows, sync, current, spent, history>>

\* The number goes back to the pool, or stays retired: either way the mark goes
Unmark(o) ==
    /\ At(o, "unmark")
    /\ marked' = marked \ {o}
    /\ Finish(o)
    /\ UNCHANGED <<order, member, rows, sync, spent, history>>
-----------------------------------------------------------------------------
\* Prot leaves the wallet (a staff debit)
Spend ==
    /\ balance > 0 /\ spent < MaxSpent
    /\ balance' = balance - 1 /\ spent' = spent + 1
    /\ UNCHANGED <<order, handler, member, marked, granted, claws, sync, current, history>>

\* set_dispute_listing: a dispute on a listed order opens, or is won
Dispute(o) ==
    /\ o \in Disputed /\ Listed(o) /\ At(o, "idle") /\ order[o].state \in {"Paid", "Fulfilled"}
    /\ WriteRow([member EXCEPT !.disputed = IF o \in @ THEN @ \ {o} ELSE @ \cup {o}])
    /\ UNCHANGED <<order, handler, marked, rows, sync, spent, history>>

\* The handler died or failed; its event is delivered again, or the sweep resumes the order
Crash(o) ==
    /\ ~At(o, "idle")
    /\ Finish(o)
    /\ UNCHANGED <<order, member, marked, rows, sync, spent, history>>

OrderStep(o) ==
    \/ Judge(o) \/ Apply(o) \/ Fulfil(o) \/ Plan(o) \/ Downgrade(o) \/ Revoke(o) \/ Refunded(o)
    \/ Claw(o) \/ Commit(o) \/ Mark(o) \/ Release(o) \/ Check(o) \/ Upgrades(o) \/ Delete(o)
    \/ Record(o) \/ Unmark(o)

Next ==
    \/ \E o \in Orders :
          \/ Checkout(o) \/ Expire(o) \/ Pay(o) \/ Resume(o) \/ RecordPending(o) \/ LostAfterRefund(o)
          \/ StartRelease(o) \/ OrderStep(o) \/ Dispute(o) \/ Crash(o)
          \/ \E inWindow \in BOOLEAN, why \in {"Refund", "DisputeLost"} : StartReverse(o, why, inWindow)
    \/ \E s \in Syncers : SyncRead(s) \/ SyncCommit(s)
    \/ Spend

\* The sweep runs every hour for as long as grants are on
Fairness == \A s \in Syncers : WF_vars(SyncRead(s) \/ SyncCommit(s))

Spec == Init /\ [][Next]_vars /\ Fairness
-----------------------------------------------------------------------------
Unfinished(o) == order[o].reversed /\ order[o].state \in {"Paid", "Fulfilled"}

\* Rows and handlers keep their shapes, and no clawback overdraws the wallet
TypeOK ==
    /\ \A o \in Orders : /\ order[o].state \in {"None", "Pending", "Expired", "Paid", "Fulfilled", "Refunded", "Voided"}
                         /\ order[o].to \in Tiers /\ order[o].from = order[o].to - 1
    /\ member # None => /\ member.orders \in Seq(Orders) \ {<<>>} /\ member.tier \in Tiers
                        /\ (member.active <=> member.reason = "None")
    /\ granted \in [Orders -> Nat] /\ balance \in Nat
    /\ \A o \in Orders : claws[o] # None => claws[o].requested >= claws[o].amount /\ claws[o].amount >= 0

\* PROT_CIPHER_OVERPOSTED: a membership has more Prot than its tier brings only while a
\* reversal of one of its orders is not finished.  A clawback refused because its order
\* is older than the base order of the very row that lists it is never made up for, nor is
\* that of an upgrade which the release of an earlier row recorded Refunded, nor one of a row
\* that was replaced before its clawback ran and is back since
OverPosted ==
    member # None /\ Posted(Base) > Target =>
        (\E o \in Orders : Unfinished(o)) \/ (\E o \in skipped : order[o].home = Base) \/ Base \in cut

\* However reversals of several orders of a membership race, no incarnation is clawed back
\* for more than it was granted
NeverClawedTwice == \A b \in Orders : Posted(b) >= 0

\* A membership row goes, released or replaced, with nothing of its Prot left posted;
\* only a purchase that replaces a revoked row before its clawback has run cuts it off
PastSettled == \A b \in (replaced \ cut) \cup released : Posted(b) = 0

\* A number goes back to the pool only with its Prot unspent, even if it was spent between
\* the decision and the clawback
ReleasedUnspent == \A b \in released : Shortfall(b) = 0

Owed == Active /\ member.disputed = {} /\ Posted(Base) < Target
\* A membership in good standing gets its Prot, whatever the fulfilment hook did
GrantedAtLast == Owed ~> ~Owed
=============================================================================
