----------------------------- MODULE CipherState -----------------------------
(***************************************************************************)
(* The state the payments engine shares between its workers when it sells  *)
(* Cipher memberships, and the steps every handler is made of: taking and  *)
(* giving back an order's lease, the fenced write of an order, the         *)
(* compare-and-swap of a membership, the dispute listing and the badge.    *)
(*                                                                         *)
(* A worker runs one handler at a time. Each database or Stripe call of a  *)
(* handler is one step; what the handler decides between two calls is an   *)
(* operator from worker record to worker record (the "continuation"). A    *)
(* call may fail: then the handler stops and only gives its lease back     *)
(* (Fail). A process may die anywhere (Crash).                             *)
(*                                                                         *)
(* Leases: OrderLease models the row's lease_until and version; here an    *)
(* order's lease is the worker that holds it, and a worker's fence ("mine")*)
(* is what OrderLease!NoLostUpdate shows the four compared fields to be:   *)
(* the stored order is still exactly the worker's copy.                    *)
(***************************************************************************)
EXTENDS PaymentOrder, FiniteSets

CONSTANTS
    Workers,
    Users,
    Orders,     \* order ids that may be created
    Buyer,      \* Orders -> Users
    From,       \* Orders -> Nat: 0 a CipherNew, k an upgrade of tier k
    Cap,        \* cipher_cap: numbers 1..Cap are seeded
    Disputes,   \* dispute ids a payment can carry
    MaxVersion, \* bound: the largest version of a membership row (u64::MAX)
    Courses,    \* bound: what a behaviour starts from and what may befall it
    Free        \* no worker, no order

ASSUME CipherAssumption ==
    /\ Buyer \in [Orders -> Users]
    /\ From \in [Orders -> Nat]
    /\ Cap \in Nat /\ MaxVersion \in Nat
    /\ Free \notin Workers \cup Orders

(***************************************************************************)
(* A course: the orders fulfilled (`sold`: of each user a purchase and the *)
(* upgrades on it, tier by tier, no more purchases than numbers) and those *)
(* with an open checkout session (`opened`) when the behaviour starts,     *)
(* those it may create besides, whose session may expire, whose payment    *)
(* may be disputed or refunded by the owner in the Dashboard, or has its   *)
(* refunds settle slowly (`slow`), buyers whose scheduled deletion is due  *)
(* (their accounts are disabled for a week by then: no checkout of theirs  *)
(* runs), the reasons not to sell that the check may find, whether Prot of *)
(* an order may be spent, whether a live worker may outlast its lease,     *)
(* calls may fail, processes may die.                                      *)
(***************************************************************************)
ASSUME CoursesAssumption ==
    \A c \in Courses :
        /\ c.sold \cup c.opened \cup c.new \subseteq Orders /\ c.sold \cap c.opened = {}
        /\ IsFiniteSet(c.sold) /\ Cardinality({o \in c.sold : From[o] = 0}) <= Cap
        /\ \A u \in Users : LET own == {o \in c.sold : Buyer[o] = u} IN
              {From[o] : o \in own} = 0 .. Cardinality(own) - 1
        /\ c.expire \cup c.dispute \cup c.refund \cup c.slow \subseteq Orders
        /\ c.delete \subseteq {Buyer[o] : o \in Orders}
        /\ c.refusals \subseteq {"RegionUnavailable", "SalesClosed"}
        /\ {c.spent, c.stalls, c.faults, c.crashes} \subseteq BOOLEAN

To(o) == From[o] + 1
IsNew(o) == From[o] = 0
Numbers == 1 .. Cap

VARIABLES
    orders,   \* stored orders
    lease,    \* Orders -> the worker whose lease is not run out, or Free
    members,  \* Users -> CipherMembership
    numbers,  \* the cipher_numbers table
    badge,    \* Users -> the user's public `cipher`
    deleted,  \* users flagged deleted
    stripe,   \* Orders -> what Stripe knows
    wk,       \* workers
    crossed,  \* history: see Crossing
    course    \* the course of this behaviour; never changes

vars == <<orders, lease, members, numbers, badge, deleted, stripe, wk, crossed, course>>

-----------------------------------------------------------------------------
(* Types *)

VoidReasons == {"None", "SoldOut", "Stale", "SalesClosed", "DisputeOpen",
                "AccountDeleted", "Reversed", "ReleasePending",
                "RegionUnavailable"}

\* "Absent": the id is not used yet. `linked`: user_id is set.
StoredOrder == [state: OrderState \cup {"Absent"}, intent: BOOLEAN,
                reason: VoidReasons, pending: Reversal,
                open: SUBSET Disputes, linked: BOOLEAN]

AbsentOrder == [state |-> "Absent", intent |-> FALSE, reason |-> "None",
                pending |-> "None", open |-> {}, linked |-> TRUE]

\* The fields OrderLifecycle speaks of
View(c) == [state |-> c.state, intent |-> c.intent, pending |-> c.pending,
            open |-> c.open # {}, buyer |-> c.linked]

Disputed(c) == IsDisputed(View(c))

\* The stored rows; number 0: the user has no row
CipherMembership == [number: Numbers, tier: Nat, orders: SUBSET Orders,
                     disputed: SUBSET Orders,
                     revoked: {"No", "Refund", "DisputeLost"}, version: Nat]

NoMember == [number |-> 0, tier |-> 0, orders |-> {}, disputed |-> {},
             revoked |-> "No", version |-> 0]

Membership == CipherMembership \cup {NoMember}

IsActive(m) == m # NoMember /\ m.revoked = "No"
Holds(m, o) == m # NoMember /\ o \in m.orders

\* public_badge: number and tier, <<>> when none
Badge == {<<>>} \cup (Numbers \X Nat)

PublicBadge(m) ==
    IF IsActive(m) /\ m.disputed = {} THEN <<m.number, m.tier>> ELSE <<>>

NumberRow == [order: Orders \cup {Free}, mark: BOOLEAN]
NumberOf(o) == {n \in Numbers : numbers[n].order = o}
ReleaseMarked(o) == \E n \in NumberOf(o) : numbers[n].mark

(***************************************************************************)
(* Stripe, external: the checkout session, whether part of the payment (no *)
(* more) is back by a refund made in the Dashboard, whether Stripe took a  *)
(* refund of ours, where the refund of the payment (or of the rest of it)  *)
(* stands, whoever made it, and each dispute's status. A refund taken may  *)
(* be "settling" (pending, requires_action) and end "failed" (canceled):   *)
(* nothing went back, and another can be made.                             *)
(***************************************************************************)
StripeOrder == [session: {"none", "open", "expired", "paid"},
                partial: BOOLEAN,
                void: BOOLEAN,     \* our void-{id}
                upgrade: BOOLEAN,  \* our release-upgrade-{id}
                refund: {"none", "settling", "back", "failed"},
                dispute: [Disputes -> {"none", "open", "won", "lost"}]]

NewStripe == [session |-> "none", partial |-> FALSE, void |-> FALSE,
              upgrade |-> FALSE, refund |-> "none",
              dispute |-> [d \in Disputes |-> "none"]]

\* How a refund of o stands when Stripe takes it
Taken(o) == {"back"} \cup IF o \in course.slow THEN {"settling"} ELSE {}

\* The payment s with its refund at r
WithRefund(s, r) == [s EXCEPT !.refund = r, !.partial = @ /\ r # "back"]

\* charge_already_refunded: a refund that is still settling counts
FullyRefunded(o) == stripe[o].refund \in {"settling", "back"}

\* The refunds that succeeded add up to the payment's amount
RefundedInFull(o) == stripe[o].refund = "back"

\* Stripe took a refund of the whole payment, whatever became of it
RefundTaken(o) == stripe[o].refund # "none"

-----------------------------------------------------------------------------
(***************************************************************************)
(* A worker: the call it makes next (pc), its task and order, its leased   *)
(* copy `c` and whether that copy is still the stored order (`mine`), the  *)
(* membership it last read (`m`), and the arguments of what it is doing:   *)
(*   kind, d, full  - the reversal, its dispute, "refunded in full"        *)
(*   reason, prev   - the void's reason, the reason the order had before   *)
(*   number         - the number claimed, or to be released                *)
(*   list, found, missing - set_dispute_listing: its argument, and where   *)
(*                    it returns to                                        *)
(*   show, ret      - sync_user_badge: the badge read, where it returns to *)
(*   then           - where a reversal returns to: "recheck" inside        *)
(*                    recheck_open_disputes, else "release"                *)
(*   todo           - disputes (recheck) or orders (deletion) still to do  *)
(*   ups, up, waiting - refund_release_upgrades: its loop                  *)
(***************************************************************************)
Idle == [pc |-> "idle", task |-> "none", o |-> Free, c |-> AbsentOrder,
         mine |-> FALSE, m |-> NoMember, kind |-> "none", d |-> {},
         full |-> FALSE, planned |-> FALSE, reason |-> "None", prev |-> "None",
         number |-> 0, list |-> FALSE, found |-> "none", missing |-> "none",
         show |-> <<>>, ret |-> "none", then |-> "release", todo |-> {},
         ups |-> {}, up |-> Free, waiting |-> FALSE]

Go(k, pc) == [k EXCEPT !.pc = pc]
Stop(k) == Go(k, "release")     \* the handler returns; its lease goes back
At(w, pc) == wk[w].pc = pc
Step(w, k) == wk' = [wk EXCEPT ![w] = k]
User(k) == Buyer[k.o]

\* A reversal is over: its arguments are gone
Done(k) == [k EXCEPT !.pc = k.then, !.kind = "none", !.d = {}, !.full = FALSE,
                     !.planned = FALSE, !.m = NoMember, !.number = 0,
                     !.ups = {}, !.up = Free, !.waiting = FALSE]

\* An error: the handler stops. One inside recheck_open_disputes ends the
\* recheck only, and its caller goes on with the copy as it is.
Abort(k) == [Done(k) EXCEPT !.todo = IF k.then = "recheck" THEN {} ELSE @]

\* Mutant: the row is replaced whoever wrote it since
WriteOrUnfenced(w, n, next, refused) ==
    /\ orders' = [orders EXCEPT ![wk[w].o] = n]
    /\ Step(w, [next EXCEPT !.c = n])

(***************************************************************************)
(* engine.rs write: stores `n` in place of the copy if the copy is still   *)
(* the stored order, and goes on with `next`; a refused write is an error. *)
(***************************************************************************)
WriteOr(w, n, next, refused) ==
    LET k == wk[w] IN
    IF k.mine
      THEN /\ orders' = [orders EXCEPT ![k.o] = n]
           /\ Step(w, [next EXCEPT !.c = n])
      ELSE /\ Step(w, refused)
           /\ UNCHANGED orders

Write(w, n, next) == WriteOr(w, n, next, Abort(wk[w]))

\* A write that changes nothing: is the lease still mine?
Fence(w, next) == Write(w, wk[w].c, next)

(***************************************************************************)
(* update_cipher_membership_if_version with the row `row`, read as k.m.    *)
(* The unique number index refuses another user's number, and a version    *)
(* never wraps: both are errors.                                           *)
(***************************************************************************)
NumberTaken(u, n) == \E v \in Users \ {u} : members[v].number = n

Unmoved(k) ==
    /\ members[User(k)] # NoMember
    /\ members[User(k)].version = k.m.version

Cas(w, row, next, again) ==
    LET k == wk[w]
        u == User(k)
        k0(r) == [r EXCEPT !.m = NoMember] IN
    IF ~Unmoved(k)
      THEN Step(w, k0(again)) /\ UNCHANGED members
    ELSE IF NumberTaken(u, row.number) \/ k.m.version = MaxVersion
      THEN Step(w, Abort(k)) /\ UNCHANGED members
      ELSE /\ members' = [members EXCEPT ![u] =
                            [row EXCEPT !.version = k.m.version + 1]]
           /\ Step(w, k0(next))

Read(k) == members[User(k)]

-----------------------------------------------------------------------------
(* The lease *)

\* Another lease, or an unlink, makes every other copy of the order old
Outdated(k, o) == IF k.o = o THEN [k EXCEPT !.mine = FALSE] ELSE k

\* acquire, then `k`; Busy (the lease is held) changes nothing
TakeLease(w, o, k) ==
    /\ orders[o].state # "Absent"
    /\ lease[o] = Free
    /\ lease' = [lease EXCEPT ![o] = w]
    /\ wk' = [v \in Workers |-> IF v = w THEN k ELSE Outdated(wk[v], o)]

\* A worker with the lease on `o` for `task`
Holding(o, task) ==
    [Idle EXCEPT !.task = task, !.o = o, !.c = orders[o], !.mine = TRUE]

\* release: only the worker's own lease is cleared. An account deletion goes
\* on with the user's next order.
Release(w) ==
    LET k == wk[w] IN
    /\ At(w, "release")
    /\ lease' = IF lease[k.o] = w THEN [lease EXCEPT ![k.o] = Free] ELSE lease
    /\ Step(w, IF k.task = "delete"
                 THEN [Idle EXCEPT !.pc = "account", !.task = "delete",
                                   !.o = k.o, !.todo = k.todo]
                 ELSE Idle)
    /\ UNCHANGED <<orders, members, numbers, badge, deleted, stripe>>

\* Every call that can fail, and every bounded retry that can give up, is at
\* one of these places
Fallible(k) == k.pc \notin {"idle", "release", "account"}

Fail(w) ==
    /\ Fallible(wk[w])
    /\ Step(w, IF wk[w].c = AbsentOrder THEN Idle ELSE Abort(wk[w]))
    /\ UNCHANGED <<orders, lease, members, numbers, badge, deleted, stripe>>

\* The process dies; a lease it holds runs out later
Crash(w) ==
    /\ ~At(w, "idle")
    /\ Step(w, Idle)
    /\ UNCHANGED <<orders, lease, members, numbers, badge, deleted, stripe>>

\* LEASE_MS passed since the lease was taken; `stalls` allows its holder to
\* be still at work
LeaseRunsOut(o, stalls) ==
    /\ lease[o] # Free
    /\ ~stalls => wk[lease[o]].o # o
    /\ lease' = [lease EXCEPT ![o] = Free]
    /\ UNCHANGED <<orders, members, numbers, badge, deleted, stripe, wk>>

-----------------------------------------------------------------------------
(* sync_user_badge: write, then verify. It returns to k.ret. *)

Sync(k, ret) == [k EXCEPT !.pc = "sync_read", !.ret = ret, !.m = NoMember]

SyncRead(w) ==
    /\ At(w, "sync_read")
    /\ Step(w, [wk[w] EXCEPT !.pc = "sync_user",
                             !.show = PublicBadge(Read(wk[w]))])
    /\ UNCHANGED <<orders, lease, members, numbers, badge, deleted, stripe>>

\* The user is read: a deleted account never gets a badge
SyncUser(w) ==
    LET k == wk[w]
        want == IF User(k) \in deleted THEN <<>> ELSE k.show IN
    /\ At(w, "sync_user")
    /\ Step(w, IF badge[User(k)] = want
                 THEN [k EXCEPT !.pc = k.ret, !.show = <<>>, !.ret = "none"]
                 ELSE [k EXCEPT !.pc = "sync_write", !.show = want])
    /\ UNCHANGED <<orders, lease, members, numbers, badge, deleted, stripe>>

\* Mutant: written, not verified
SyncWriteOnce(w) ==
    LET k == wk[w] IN
    /\ At(w, "sync_write")
    /\ badge' = [badge EXCEPT ![User(k)] = k.show]
    /\ Step(w, [k EXCEPT !.pc = k.ret, !.show = <<>>, !.ret = "none"])
    /\ UNCHANGED <<orders, lease, members, numbers, deleted, stripe>>

SyncWrite(w) ==
    LET k == wk[w] IN
    /\ At(w, "sync_write")
    /\ badge' = [badge EXCEPT ![User(k)] = k.show]
    /\ Step(w, [k EXCEPT !.pc = "sync_read", !.show = <<>>])
    /\ UNCHANGED <<orders, lease, members, numbers, deleted, stripe>>

-----------------------------------------------------------------------------
(* set_dispute_listing: returns to `found` when the membership holds the   *)
(* order, to `missing` otherwise                                           *)

Listing(k, open, found, missing) ==
    [k EXCEPT !.pc = "list_read", !.list = open,
              !.found = found, !.missing = missing]

ListEnd(k, pc) == [k EXCEPT !.pc = pc, !.list = FALSE,
                            !.found = "none", !.missing = "none"]

ListRead(w) ==
    LET k == wk[w]  m == Read(k) IN
    /\ At(w, "list_read")
    /\ Step(w, IF ~Holds(m, k.o) THEN ListEnd(k, k.missing)
               ELSE IF (k.o \in m.disputed) = k.list THEN ListEnd(k, k.found)
               ELSE [k EXCEPT !.pc = "list_cas", !.m = m])
    /\ UNCHANGED <<orders, lease, members, numbers, badge, deleted, stripe>>

Listed(m, o, open) ==
    [m EXCEPT !.disputed = IF open THEN @ \cup {o} ELSE @ \ {o}]

ListCas(w) ==
    LET k == wk[w] IN
    /\ At(w, "list_cas")
    /\ Cas(w, Listed(k.m, k.o, k.list), ListEnd(k, k.found), Go(k, "list_read"))
    /\ UNCHANGED <<orders, lease, numbers, badge, deleted, stripe>>

=============================================================================
