---------------------------- MODULE CipherEngine ----------------------------
(***************************************************************************)
(* The payments engine selling Cipher memberships: what starts a handler   *)
(* (a checkout request, a Stripe event, the reconcile sweep, an account    *)
(* deletion), the handlers of CipherFulfil, CipherReverse and              *)
(* CipherRelease run by several workers, and Stripe.                       *)
(*                                                                         *)
(* An event may be delivered again, late, out of order or never: every     *)
(* start is possible whenever what it looks for is true at Stripe or in    *)
(* the database, and none is forced.                                       *)
(***************************************************************************)
EXTENDS CipherFulfil

-----------------------------------------------------------------------------
(* Where a behaviour starts: the sold orders are fulfilled one after       *)
(* another, each user's purchase first                                     *)

SoldTo(u) == {o \in course.sold : Buyer[o] = u}
Purchases == {o \in course.sold : IsNew(o)}
NumberAt == CHOOSE f \in [Purchases -> 1 .. Cardinality(Purchases)] :
                \A o, p \in Purchases : f[o] = f[p] => o = p

MemberAt(u) ==
    IF SoldTo(u) = {} THEN NoMember
    ELSE [number |-> NumberAt[CHOOSE o \in SoldTo(u) : IsNew(o)],
          tier |-> Cardinality(SoldTo(u)), orders |-> SoldTo(u), disputed |-> {},
          revoked |-> "No", version |-> Cardinality(SoldTo(u)) - 1]

OrderAt(o) ==
    IF o \in course.sold THEN [AbsentOrder EXCEPT !.state = "Fulfilled", !.intent = TRUE]
    ELSE IF o \in course.opened THEN [AbsentOrder EXCEPT !.state = "Pending"]
    ELSE AbsentOrder

Init ==
    /\ course \in Courses
    /\ orders = [o \in Orders |-> OrderAt(o)]
    /\ lease = [o \in Orders |-> Free]
    /\ members = [u \in Users |-> MemberAt(u)]
    /\ numbers = [n \in Numbers |->
                    [order |-> IF \E o \in Purchases : NumberAt[o] = n
                                 THEN CHOOSE o \in Purchases : NumberAt[o] = n
                                 ELSE Free,
                     mark |-> FALSE]]
    /\ badge = [u \in Users |-> PublicBadge(MemberAt(u))]
    /\ deleted = {}
    /\ stripe = [o \in Orders |->
                   [NewStripe EXCEPT !.session =
                      IF o \in course.sold THEN "paid"
                      ELSE IF o \in course.opened THEN "open" ELSE "none"]]
    /\ wk = [w \in Workers |-> Idle]
    /\ crossed = {}

-----------------------------------------------------------------------------
(* Stripe *)

Money(o, s) ==
    /\ stripe' = [stripe EXCEPT ![o] = s]
    /\ UNCHANGED <<orders, lease, members, numbers, badge, deleted, wk>>

Pay(o) ==
    /\ stripe[o].session = "open" /\ orders[o].state # "Creating"
    /\ Money(o, [stripe[o] EXCEPT !.session = "paid"])

SessionExpires(o) ==
    /\ o \in course.expire /\ stripe[o].session = "open"
    /\ Money(o, [stripe[o] EXCEPT !.session = "expired"])

DisputeMoves(o) ==
    /\ o \in course.dispute /\ stripe[o].session = "paid"
    /\ \E d \in Disputes :
         \/ /\ stripe[o].dispute[d] = "none"
            /\ Money(o, [stripe[o] EXCEPT !.dispute[d] = "open"])
         \/ /\ stripe[o].dispute[d] = "open"
            /\ \E end \in {"won", "lost"} :
                 Money(o, [stripe[o] EXCEPT !.dispute[d] = end])

OwnerRefunds(o) ==
    /\ o \in course.refund /\ stripe[o].session = "paid" /\ ~FullyRefunded(o)
    /\ \/ /\ ~stripe[o].partial
          /\ Money(o, [stripe[o] EXCEPT !.partial = TRUE])
       \/ \E s \in Taken(o) : Money(o, WithRefund(stripe[o], s))

\* A refund that was taken unsettled succeeds, or fails after all
RefundSettles(o) ==
    /\ stripe[o].refund = "settling"
    /\ \E s \in {"back", "failed"} : Money(o, WithRefund(stripe[o], s))

-----------------------------------------------------------------------------
(* create_cipher_checkout *)

\* One live order per user; only a Pending one with an open session blocks
LiveOrder(u) ==
    \E o \in Orders : /\ Buyer[o] = u /\ orders[o].linked
                      /\ \/ orders[o].state = "Creating"
                         \/ /\ orders[o].state = "Pending"
                            /\ stripe[o].session = "open"

\* All that is read before the order is stored
CheckoutAllowed(o) ==
    LET m == members[Buyer[o]] IN
    /\ Buyer[o] \notin course.delete
    /\ m # NoMember => ~ReleasePending(m)
    /\ Precondition(o, m) = "None"
    /\ IsNew(o) => NumberOf(Free) # {}
    /\ ~LiveOrder(Buyer[o])

Checkout(w, o) ==
    /\ At(w, "idle") /\ o \in course.new /\ orders[o].state = "Absent"
    /\ \A v \in Workers : wk[v].o # o
    /\ CheckoutAllowed(o)
    /\ Step(w, [Idle EXCEPT !.pc = "create", !.task = "checkout", !.o = o])
    /\ UNCHANGED <<orders, lease, members, numbers, badge, deleted, stripe>>

\* The order is stored and leased (nobody else knows its id yet)
Create(w) ==
    LET o == wk[w].o
        c == [AbsentOrder EXCEPT !.state = "Creating"] IN
    /\ At(w, "create")
    /\ orders' = [orders EXCEPT ![o] = c]
    /\ lease' = [lease EXCEPT ![o] = w]
    /\ Step(w, [wk[w] EXCEPT !.pc = "session", !.c = c, !.mine = TRUE])
    /\ UNCHANGED <<members, numbers, badge, deleted, stripe>>

\* start_session: the buyer gets the session's URL only once it is stored
StartSessionStep(w) ==
    LET k == wk[w] IN
    /\ At(w, "session")
    /\ \/ /\ Write(w, [k.c EXCEPT !.state = "Pending"], Stop(k))
          /\ stripe' = IF k.mine THEN [stripe EXCEPT ![k.o].session = "open"]
                       ELSE stripe
       \/ /\ Write(w, [k.c EXCEPT !.state = "SessionFailed"], Stop(k))
          /\ UNCHANGED stripe
    /\ UNCHANGED <<lease, members, numbers, badge, deleted>>

-----------------------------------------------------------------------------
(* Events and the sweep *)

Starts(w, o, k) ==
    /\ At(w, "idle")
    /\ TakeLease(w, o, k)
    /\ UNCHANGED <<orders, members, numbers, badge, deleted, stripe>>

\* The session is found by its id, which a Creating order does not have yet
FulfilOrder(w, o) ==
    /\ stripe[o].session = "paid"
    /\ orders[o].state \notin {"Creating", "SessionFailed"}
    /\ Starts(w, o, FulfilStart(Holding(o, "fulfil")))

ResumeOrder(w, o) ==
    /\ orders[o].state = "Paid"
    /\ Starts(w, o, ResumeStart(Holding(o, "resume")))

\* expire_order, of an expired session or of an order that never got one
ExpireOrder(w, o) ==
    /\ \/ stripe[o].session = "expired"
       \/ orders[o].state \in {"Creating", "SessionFailed"}
    /\ Starts(w, o, Go(Holding(o, "expire"),
                       IF orders[o].state \in Unpaid THEN "expire"
                       ELSE "release"))

ExpireWrite(w) ==
    LET k == wk[w] IN
    /\ At(w, "expire")
    /\ Write(w, [k.c EXCEPT !.state = "Expired"], Stop(k))
    /\ UNCHANGED <<lease, members, numbers, badge, deleted, stripe>>

ReverseDispute(w, o) ==
    \E d \in Disputes :
        /\ stripe[o].dispute[d] # "none"
        /\ Starts(w, o, [Holding(o, "dispute") EXCEPT !.pc = "dispute_read",
                                                      !.todo = {d}])

RecheckDisputes(w, o) ==
    /\ orders[o].state = "Fulfilled" /\ orders[o].open # {}
    /\ Starts(w, o, RecheckStart(Holding(o, "recheck")))

\* reverse_order once some refund succeeded and none is settling, with what
\* Stripe lists
RefundOrder(w, o) ==
    /\ stripe[o].partial \/ RefundedInFull(o)
    /\ stripe[o].refund # "settling"
    /\ Starts(w, o, ReverseStart(Holding(o, "refund"), "Refund", {},
                                 RefundedInFull(o)))

ApplyPending(w, o) ==
    /\ orders[o].state = "Fulfilled" /\ orders[o].pending # "None"
    /\ Starts(w, o, ReverseStart(Holding(o, "pending"), orders[o].pending,
                                 {}, FALSE))

\* Mutant: the sweep looks at Fulfilled orders only
FinishNumberReleaseFulfilled(w, o) ==
    /\ ReleaseMarked(o) /\ orders[o].state = "Fulfilled"
    /\ Starts(w, o, Go(Holding(o, "release"), "rel_check"))

FinishNumberRelease(w, o) ==
    /\ ReleaseMarked(o)
    /\ Starts(w, o, Go(Holding(o, "release"), "rel_check"))

-----------------------------------------------------------------------------
(* Account deletion: on_account_deleted, then User::delete *)

OpenOrders(u) == {o \in Orders : /\ Buyer[o] = u /\ orders[o].linked
                                 /\ orders[o].state \in Unpaid \cup {"Paid"}}

DeleteAccount(w, u) ==
    /\ At(w, "idle")
    /\ u \in course.delete \ deleted
    /\ \A v \in Workers : wk[v].task = "delete" => User(wk[v]) # u
    /\ Step(w, [Idle EXCEPT !.pc = "account", !.task = "delete",
                            !.o = CHOOSE o \in Orders : Buyer[o] = u,
                            !.todo = OpenOrders(u)])
    /\ UNCHANGED <<orders, lease, members, numbers, badge, deleted, stripe>>

\* void_for_deletion
VoidForDeletion(k) ==
    CASE k.c.state = "Paid" -> VoidDeleted(k)
      [] k.c.state \in Unpaid -> Go(k, "void_unpaid")
      [] OTHER -> Stop(k)

\* The next open order: voided under its lease, skipped when it is held
DeleteNext(w) ==
    LET k == wk[w] IN
    /\ At(w, "account")
    /\ \E o \in k.todo :
         LET rest == k.todo \ {o} IN
         \/ TakeLease(w, o, VoidForDeletion([Holding(o, "delete")
                                                EXCEPT !.todo = rest]))
         \/ /\ lease[o] # Free
            /\ Step(w, [k EXCEPT !.todo = rest])
            /\ UNCHANGED lease
    /\ UNCHANGED <<orders, members, numbers, badge, deleted, stripe>>

VoidUnpaidWrite(w) ==
    LET k == wk[w] IN
    /\ At(w, "void_unpaid")
    /\ Write(w, [k.c EXCEPT !.state = "Voided", !.reason = "AccountDeleted"],
             Stop(k))
    /\ UNCHANGED <<lease, members, numbers, badge, deleted, stripe>>

\* unlink_payment_orders_by_user: every row in one statement; no lease
UnlinkOrders(w) ==
    LET k == wk[w]
        mine == {o \in Orders : /\ Buyer[o] = User(k) /\ orders[o].linked
                                /\ orders[o].state # "Absent"} IN
    /\ At(w, "account") /\ k.todo = {}
    /\ orders' = [o \in Orders |-> IF o \in mine
                                     THEN [orders[o] EXCEPT !.linked = FALSE]
                                     ELSE orders[o]]
    /\ wk' = [v \in Workers |->
                IF v = w THEN Go(k, "del_row")
                ELSE IF wk[v].o \in mine THEN [wk[v] EXCEPT !.mine = FALSE]
                ELSE wk[v]]
    /\ UNCHANGED <<lease, members, numbers, badge, deleted, stripe>>

DeleteMembership(w) ==
    /\ At(w, "del_row")
    /\ members' = [members EXCEPT ![User(wk[w])] = NoMember]
    /\ Step(w, Go(wk[w], "del_user"))
    /\ UNCHANGED <<orders, lease, numbers, badge, deleted, stripe>>

\* User::delete: flagged deleted, the badge cleared with the other fields
DeleteUser(w) ==
    LET u == User(wk[w]) IN
    /\ At(w, "del_user")
    /\ deleted' = deleted \cup {u}
    /\ badge' = [badge EXCEPT ![u] = <<>>]
    /\ Step(w, Idle)
    /\ UNCHANGED <<orders, lease, members, numbers, stripe>>

-----------------------------------------------------------------------------
Handler(w) ==
    \/ Release(w) \/ SyncRead(w) \/ SyncUser(w) \/ SyncWrite(w)
    \/ ListRead(w) \/ ListCas(w)
    \/ ReleaseNext(w) \/ ReverseNext(w) \/ FulfilNext(w)
    \/ Create(w) \/ StartSessionStep(w) \/ ExpireWrite(w)
    \/ DeleteNext(w) \/ VoidUnpaidWrite(w) \/ UnlinkOrders(w)
    \/ DeleteMembership(w) \/ DeleteUser(w)

\* What the reconcile sweep starts
Sweep(w, o) ==
    \/ ResumeOrder(w, o) \/ RecheckDisputes(w, o) \/ ApplyPending(w, o)
    \/ FinishNumberRelease(w, o)

Event(w, o) ==
    \/ FulfilOrder(w, o) \/ ExpireOrder(w, o) \/ ReverseDispute(w, o)
    \/ RefundOrder(w, o)

Provider(o) == Pay(o) \/ SessionExpires(o) \/ DisputeMoves(o) \/ OwnerRefunds(o)
               \/ RefundSettles(o)

\* The calls that compare the version of the membership they read
Swaps == {"list_cas", "rel_revoke", "rel_delete", "lar_cas", "down_cas", "rev_cas", "replace",
          "upgrade_cas"}

(***************************************************************************)
(* History: the users of whose row such a call changed another than it had *)
(* read. The row it read was deleted since, and the one a new purchase     *)
(* inserted came to the same version.                                      *)
(***************************************************************************)
Crossing ==
    {u \in Users : /\ members'[u] # members[u]
                   /\ \E w \in Workers : /\ wk'[w] # wk[w] /\ wk[w].pc \in Swaps
                                         /\ User(wk[w]) = u /\ wk[w].m # members[u]}

Aside == crossed' = crossed \cup Crossing /\ UNCHANGED course

Next ==
    /\ \/ \E w \in Workers :
            \/ Handler(w)
            \/ course.faults /\ Fail(w)
            \/ course.crashes /\ Crash(w)
            \/ \E o \in Orders : Checkout(w, o) \/ Event(w, o) \/ Sweep(w, o)
            \/ \E u \in Users : DeleteAccount(w, u)
       \/ \E o \in Orders : Provider(o) \/ LeaseRunsOut(o, course.stalls)
    /\ Aside

Spec == Init /\ [][Next]_vars

(***************************************************************************)
(* What the server's scheduling gives: a call that was made returns, a     *)
(* lease nobody gives back runs out, and the reconcile sweep, which visits *)
(* every such order at every tick, is not kept from one by its lease for   *)
(* ever. Of Stripe: a dispute ends, a refund settles, and one it may       *)
(* refuse now is not refused for ever. Failed calls and dead processes     *)
(* become rare. No event is ever required to arrive.                       *)
(***************************************************************************)
RefundAccepted(o) ==
    \E w \in Workers :
        /\ wk[w].o = o
        /\ \/ VoidRefund(w) /\ wk'[w].pc = "void_write"
           \/ LateRefund(w) /\ wk'[w].pc = "late_write"

UpgradeRefunded(u) == \E w \in Workers :
    wk[w].up = u /\ RelRefund(w) /\ wk'[w].pc = "rel_record"

DisputeEnds(o) ==
    DisputeMoves(o) /\ \E d \in Disputes : stripe[o].dispute[d] = "open"
                                         /\ stripe'[o].dispute[d] # "open"

Fairness ==
    /\ \A w \in Workers : WF_vars(Handler(w) /\ Aside)
    /\ \A o \in Orders :
         /\ WF_vars(LeaseRunsOut(o, course.stalls) /\ Aside)
         /\ SF_vars((\E w \in Workers : ResumeOrder(w, o)) /\ Aside)
         /\ SF_vars((\E w \in Workers : RecheckDisputes(w, o)) /\ Aside)
         /\ SF_vars((\E w \in Workers : ApplyPending(w, o)) /\ Aside)
         /\ SF_vars((\E w \in Workers : FinishNumberRelease(w, o)) /\ Aside)
         /\ WF_vars(DisputeEnds(o) /\ Aside)
         /\ WF_vars(RefundSettles(o) /\ Aside)
         /\ SF_vars(RefundAccepted(o) /\ Aside)
         /\ SF_vars(UpgradeRefunded(o) /\ Aside)

Accident == \E w \in Workers : (course.faults /\ Fail(w)) \/ (course.crashes /\ Crash(w))

LiveSpec == Spec /\ Fairness /\ <>[][~Accident]_vars

-----------------------------------------------------------------------------
\* Every table, badge and private copy holds a value of its type: a badge
\* names a seeded number, a membership a seeded number and known orders
TypeOK ==
    /\ orders \in [Orders -> StoredOrder]
    /\ lease \in [Orders -> Workers \cup {Free}]
    /\ members \in [Users -> Membership]
    /\ numbers \in [Numbers -> NumberRow]
    /\ badge \in [Users -> Badge]
    /\ deleted \subseteq Users
    /\ stripe \in [Orders -> StripeOrder]
    /\ crossed \subseteq Users
    /\ \A w \in Workers : /\ wk[w].c \in StoredOrder
                          /\ wk[w].m \in Membership

\* No handler is running
Quiet == \A w \in Workers : At(w, "idle")

\* No call fails, no process dies, no worker outlasts its lease: a handler that
\* started gets to its end
Undisturbed == ~course.faults /\ ~course.crashes /\ ~course.stalls

\* An order is voided or refunded, or its void is on record
Voiding(s) ==
    s.state \in {"Voided", "Refunded"} \/ (s.state = "Paid" /\ s.reason # "None")

(***************************************************************************)
(* Once the refund of a void was taken, its order is Voided or Refunded or *)
(* still Paid with the void's reason on it, which the next resume takes up *)
(* again: never Fulfilled, whatever workers crashed, failed or outlasted   *)
(* their leases between the refund and the Voided write.                   *)
(***************************************************************************)
RefundIsFinal == \A o \in Orders : stripe[o].void => Voiding(orders[o])

(***************************************************************************)
(* Nor does such a payment buy anything: no membership lists its order.    *)
(* (Where a live worker may outlast its lease this is false: the           *)
(* membership's compare-and-swap is not fenced by the lease. Nor of a row  *)
(* that was crossed.)                                                      *)
(***************************************************************************)
RefundedNeverApplied ==
    ~course.stalls => \A o \in Orders : stripe[o].void /\ Buyer[o] \notin crossed =>
        ~Holds(members[Buyer[o]], o)

(***************************************************************************)
(* The void's refund is never made while the order has a dispute open or a *)
(* lost one not applied (it could pay the buyer twice), by a worker whose  *)
(* lease lasts.                                                            *)
(***************************************************************************)
NoVoidRefundInDispute ==
    [][~course.stalls => \A o \in Orders :
         ~stripe[o].void /\ stripe'[o].void => ~Disputed(orders[o])]_vars

(***************************************************************************)
(* The same for the refund of an upgrade by the release of its             *)
(* membership's number.                                                    *)
(***************************************************************************)
NoUpgradeRefundInDispute ==
    [][\A o \in Orders :
         ~stripe[o].upgrade /\ stripe'[o].upgrade => ~Disputed(orders[o])]_vars

(***************************************************************************)
(* The number on a membership is claimed in cipher_numbers, by one of the  *)
(* membership's own orders: a number is never free, or another's, while a  *)
(* row holds it. (For workers that keep within their leases, and rows that *)
(* were not crossed.)                                                      *)
(***************************************************************************)
NumberHeld ==
    ~course.stalls => \A u \in Users \ crossed : members[u] # NoMember =>
        numbers[members[u].number].order \in members[u].orders

(***************************************************************************)
(* A live account's membership row disappears only once each order on it,  *)
(* the refunded purchase apart, is Refunded or Voided: no paid upgrade is  *)
(* lost with the row, unless it was crossed.                               *)
(***************************************************************************)
DeletedRowsRefunded ==
    [][\A u \in Users \ (course.delete \cup crossed') :
         members[u] # NoMember /\ members'[u] = NoMember =>
             \A o \in members[u].orders : ~IsNew(o) =>
                 orders[o].state \in {"Refunded", "Voided"}]_vars

(***************************************************************************)
(* At rest, a membership lists every one of its orders that is disputed.   *)
(* (A handler that fails or dies before it leaves this to the next.)       *)
(***************************************************************************)
DisputesListed ==
    Quiet /\ Undisturbed => \A o \in Orders :
        /\ orders[o].state \in {"Paid", "Fulfilled"} /\ orders[o].linked
        /\ Disputed(orders[o]) /\ Holds(members[Buyer[o]], o) /\ Buyer[o] \notin crossed
        => o \in members[Buyer[o]].disputed

(***************************************************************************)
(* At rest, the public badge is the membership's: hidden while revoked or  *)
(* disputed, never left by the interleaving of two badge writes; and a     *)
(* deleted account has none. (Again for handlers that get to their end.)   *)
(***************************************************************************)
BadgeSettled ==
    Quiet /\ Undisturbed => \A u \in Users :
        badge[u] = IF u \in deleted THEN <<>> ELSE PublicBadge(members[u])

(***************************************************************************)
(* At rest, a deleted account has no membership, unless a Paid order of    *)
(* its is left, which the next resume voids together with the row. (Again  *)
(* for workers that keep within their leases.)                             *)
(***************************************************************************)
DeletedLeavesNothing ==
    Quiet /\ ~course.stalls => \A u \in deleted \ crossed :
        \/ members[u] = NoMember
        \/ \E o \in members[u].orders : orders[o].state = "Paid"

(***************************************************************************)
(* Every change of a stored order, by any handler, is one of               *)
(* PaymentOrder's: the engine implements OrderLifecycle for each order.    *)
(***************************************************************************)
OrdersFollowLifecycle ==
    [][\A o \in Orders : orders'[o] # orders[o] =>
         \/ orders[o].state = "Absent" /\ View(orders'[o]) = NewOrder
         \/ orders[o].state # "Absent"
            /\ \/ Change(View(orders[o]), View(orders'[o]))
               \/ Unlink(View(orders[o]), View(orders'[o]))]_vars

(***************************************************************************)
(* A paid order is Voided only after Stripe took a refund of the payment,  *)
(* ours or the owner's, or the bank gave it back through a lost dispute: a *)
(* crash, a refused refund or a dispute in between never ends in a Voided  *)
(* order whose refund was not even taken. (Taken is not returned: one that *)
(* was taken unsettled may still fail, and the order stays Voided, which   *)
(* refund_for_void leaves to an operator.)                                 *)
(***************************************************************************)
VoidedRefundTaken ==
    \A o \in Orders : orders[o].state = "Voided" /\ orders[o].intent =>
        \/ RefundTaken(o)
        \/ \E d \in Disputes : stripe[o].dispute[d] = "lost"

(***************************************************************************)
(* Once paid, an order is always fulfilled or voided in the end, though no *)
(* further event about it arrives: the sweep resumes it, re-reads the      *)
(* disputes its void waits on, and asks for its refund again.              *)
(***************************************************************************)
PaidSettles ==
    \A o \in Orders : orders[o].state = "Paid" ~> orders[o].state # "Paid"

(***************************************************************************)
(* A dispute recorded on an order does not stay on it for ever when its    *)
(* close event is lost.                                                    *)
(***************************************************************************)
DisputesClose ==
    \A o \in Orders :
        orders[o].state = "Fulfilled" /\ orders[o].open # {} ~>
            orders[o].state # "Fulfilled" \/ orders[o].open = {}

(***************************************************************************)
(* A decided number release always ends, wherever a run of it stopped: the *)
(* number is free again or kept retired.                                   *)
(***************************************************************************)
ReleaseEnds == \A o \in Orders : ReleaseMarked(o) ~> ~ReleaseMarked(o)

=============================================================================
