---------------------------- MODULE CipherFulfil ----------------------------
(***************************************************************************)
(* Fulfilment of a paid order whose lease the worker holds (fulfil_locked  *)
(* and what it calls): Paid, number, membership, badge, Fulfilled; or the  *)
(* void of an order that no longer applies, with our refund.               *)
(***************************************************************************)
EXTENDS CipherReverse

\* Mutant: open disputes are not looked at
VoidStartInDispute(k, reason) ==
    LET n == [k EXCEPT !.reason = reason, !.prev = k.c.reason,
                       !.m = NoMember, !.number = 0] IN
    IF k.c.pending = "DisputeLost" THEN Go(n, "void_write")
    ELSE IF k.c.reason = reason THEN Go(n, "void_refund")
    ELSE Go(n, "void_mark")

\* void_paid: nothing while a dispute is open; no refund once one is lost;
\* otherwise the reason is on the order before the refund
VoidStart(k, reason) ==
    LET n == [k EXCEPT !.reason = reason, !.prev = k.c.reason,
                       !.m = NoMember, !.number = 0]
        lost == k.c.pending = "DisputeLost" IN
    IF lost THEN Go(n, "void_write")
    ELSE IF k.c.open # {} THEN Stop(n)
    ELSE IF k.c.reason = reason THEN Go(n, "void_refund")
    ELSE Go(n, "void_mark")

\* Mutant: the membership is not looked for
VoidDeletedRowKept(k) == VoidStart(k, "AccountDeleted")

\* void_for_deleted_account
VoidDeleted(k) == Go(k, "del_read")

\* Mutant: a recorded void is not finished first
FulfilPaidAfresh(k) == IF ~k.c.linked THEN VoidDeleted(k) ELSE Go(k, "judge")

\* fulfil_locked after the order is Paid: a recorded void comes first
FulfilPaid(k) ==
    IF k.c.reason # "None" THEN VoidStart(k, k.c.reason)
    ELSE IF ~k.c.linked THEN VoidDeleted(k)
    ELSE Go(k, "judge")

\* A recorded reversal names no dispute and no refund
ReversePending(k) ==
    IF k.c.pending = "None" THEN Stop(k)
    ELSE ReverseStart(k, k.c.pending, {}, FALSE)

\* finish_fulfilled: the listing is only ever added
FinishFulfilled(k) ==
    IF ~k.c.linked THEN ReversePending(k)
    ELSE IF Disputed(k.c)
      THEN Listing([k EXCEPT !.ret = "finish"], TRUE, "sync_read", "sync_read")
    ELSE Sync(k, "finish")

\* void_late_payment
LatePayment(k) ==
    IF k.c.intent THEN Stop(k)
    ELSE Go(k, IF Disputed(k.c) THEN "late_paid" ELSE "late_refund")

\* fulfil_locked, by the state of the leased copy, for a paid session
FulfilStart(k) ==
    CASE k.c.state = "Fulfilled" -> FinishFulfilled(k)
      [] k.c.state = "Refunded" -> Stop(k)
      [] k.c.state = "Voided" -> LatePayment(k)
      [] k.c.state = "Paid" -> FulfilPaid(k)
      [] OTHER -> Go(k, "paid")

\* recheck_open_disputes from the leased copy
RecheckStart(k) ==
    [k EXCEPT !.pc = "recheck", !.then = "recheck", !.todo = k.c.open]

\* Mutant: the disputes a void waits on are not re-read
ResumeBlind(k) == FulfilStart(k)

\* resume_locked
ResumeStart(k) ==
    IF k.c.state = "Paid" /\ k.c.open # {} THEN RecheckStart(k)
    ELSE FulfilStart(k)

\* The next dispute; afterwards the sweep's check is over, a resume or a
\* late payment goes on
Recheck(w) ==
    LET k == wk[w]
        over == [k EXCEPT !.then = "release", !.todo = {}] IN
    /\ At(w, "recheck")
    /\ \/ /\ k.todo # {} /\ k.c.state \notin {"Voided", "Refunded"}
          /\ \E d \in k.todo :
               Step(w, ReverseStart([k EXCEPT !.todo = @ \ {d}],
                                    KindOf(stripe[k.o].dispute[d]), {d}, FALSE))
       \/ /\ k.todo = {} \/ k.c.state \in {"Voided", "Refunded"}
          /\ Step(w, IF k.task = "recheck" THEN Stop(over)
                     ELSE FulfilStart(over))
    /\ UNCHANGED <<orders, lease, members, numbers, badge, deleted, stripe>>

-----------------------------------------------------------------------------
\* 1. Paid
AsPaid(c) == [c EXCEPT !.state = "Paid", !.intent = TRUE]

Paid(w) ==
    LET k == wk[w] IN
    /\ At(w, "paid")
    /\ Write(w, AsPaid(k.c), FulfilPaid([k EXCEPT !.c = AsPaid(k.c)]))
    /\ UNCHANGED <<lease, members, numbers, badge, deleted, stripe>>

\* 2. The account, then the membership: already applied?
Judge(w) ==
    LET k == wk[w]  m == Read(k) IN
    /\ At(w, "judge")
    /\ Step(w, IF User(k) \in deleted THEN VoidDeleted(k)
               ELSE IF Holds(m, k.o)
                 THEN Listing(k, Disputed(k.c), "publish", "publish")
               ELSE [k EXCEPT !.pc = "decide", !.m = m])
    /\ UNCHANGED <<orders, lease, members, numbers, badge, deleted, stripe>>

\* number_release_pending
ReleasePending(m) ==
    \E o \in m.orders : m.number \in NumberOf(o) /\ numbers[m.number].mark

\* precondition_failure, the sale's close apart
Precondition(o, m) ==
    IF IsNew(o) THEN IF IsActive(m) THEN "Stale" ELSE "None"
    ELSE IF ~IsActive(m) \/ m.tier # From[o] THEN "Stale"
    ELSE IF m.disputed # {} THEN "DisputeOpen" ELSE "None"

\* Whether the order still applies to the membership read
Decide(w) ==
    LET k == wk[w]
        why == IF IsNew(k.o) /\ ReleasePending(k.m) THEN "ReleasePending"
               ELSE IF Precondition(k.o, k.m) # "None"
                 THEN Precondition(k.o, k.m)
               ELSE IF k.c.pending # "None" THEN "Reversed" ELSE "None" IN
    /\ At(w, "decide")
    /\ \/ \E reason \in course.refusals : Step(w, VoidStart(k, reason))
       \/ Step(w, IF why # "None" THEN VoidStart(k, why)
                  ELSE [k EXCEPT !.m = NoMember,
                                 !.pc = IF IsNew(k.o) THEN "number"
                                        ELSE "upgrade_read"])
    /\ UNCHANGED <<orders, lease, members, numbers, badge, deleted, stripe>>

-----------------------------------------------------------------------------
(* apply_membership *)

\* 4. A number claimed before is kept; no number for a member
Number(w) ==
    LET k == wk[w]  m == Read(k) IN
    /\ At(w, "number")
    /\ Step(w, IF NumberOf(k.o) # {}
                 THEN [k EXCEPT !.pc = "insert",
                                !.number = CHOOSE n \in NumberOf(k.o) : TRUE]
               ELSE IF IsActive(m) /\ ~Holds(m, k.o) THEN VoidStart(k, "Stale")
               ELSE Go(k, "claim"))
    /\ UNCHANGED <<orders, lease, members, numbers, badge, deleted, stripe>>

\* Mutant: a number marked for release counts as free
ClaimMarked(w) ==
    LET k == wk[w]
        own == NumberOf(k.o)
        free == {n \in Numbers : numbers[n].order = Free \/ numbers[n].mark}
        pool == IF own # {} THEN own ELSE free
        n == CHOOSE x \in pool : \A y \in pool : x <= y IN
    /\ At(w, "claim")
    /\ IF pool = {}
         THEN Step(w, VoidStart(k, "SoldOut")) /\ UNCHANGED numbers
         ELSE /\ numbers' = [numbers EXCEPT ![n].order = k.o]
              /\ Step(w, [k EXCEPT !.pc = "insert", !.number = n])
    /\ UNCHANGED <<orders, lease, members, badge, deleted, stripe>>

\* claim_cipher_number: the order's own number, or the lowest free one
Claim(w) ==
    LET k == wk[w]
        own == NumberOf(k.o)
        pool == IF own # {} THEN own ELSE NumberOf(Free)
        n == CHOOSE x \in pool : \A y \in pool : x <= y IN
    /\ At(w, "claim")
    /\ IF pool = {}
         THEN Step(w, VoidStart(k, "SoldOut")) /\ UNCHANGED numbers
         ELSE /\ numbers' = [numbers EXCEPT ![n].order = k.o]
              /\ Step(w, [k EXCEPT !.pc = "insert", !.number = n])
    /\ UNCHANGED <<orders, lease, members, badge, deleted, stripe>>

\* The row of a new purchase; a dispute known by now is listed with it
Fresh(k) ==
    [number |-> k.number, tier |-> To(k.o), orders |-> {k.o},
     disputed |-> IF Disputed(k.c) THEN {k.o} ELSE {},
     revoked |-> "No", version |-> 0]

Publishing(k) == [k EXCEPT !.pc = "publish", !.number = 0, !.m = NoMember]

\* 5. insert_cipher_membership
Insert(w) ==
    LET k == wk[w] IN
    /\ At(w, "insert")
    /\ IF Read(k) # NoMember
         THEN Step(w, Go(k, "insert_read")) /\ UNCHANGED members
       ELSE IF NumberTaken(User(k), k.number)
         THEN Step(w, Stop(k)) /\ UNCHANGED members
         ELSE /\ members' = [members EXCEPT ![User(k)] = Fresh(k)]
              /\ Step(w, Publishing(k))
    /\ UNCHANGED <<orders, lease, numbers, badge, deleted, stripe>>

InsertRead(w) ==
    LET k == wk[w]  m == Read(k) IN
    /\ At(w, "insert_read")
    /\ Step(w, IF m = NoMember THEN Go(k, "insert")
               ELSE IF Holds(m, k.o) THEN Publishing(k)
               ELSE IF IsActive(m) THEN VoidStart(k, "Stale")
               ELSE [k EXCEPT !.pc = "replace", !.m = m])
    /\ UNCHANGED <<orders, lease, members, numbers, badge, deleted, stripe>>

\* A revoked row is replaced
Replace(w) ==
    LET k == wk[w] IN
    /\ At(w, "replace")
    /\ Cas(w, Fresh(k), Publishing(k), Go(k, "insert"))
    /\ UNCHANGED <<orders, lease, numbers, badge, deleted, stripe>>

UpgradeRead(w) ==
    LET k == wk[w]  m == Read(k) IN
    /\ At(w, "upgrade_read")
    /\ Step(w, IF Holds(m, k.o) THEN Publishing(k)
               ELSE IF Precondition(k.o, m) # "None"
                 THEN VoidStart(k, Precondition(k.o, m))
               ELSE [k EXCEPT !.pc = "upgrade_cas", !.m = m])
    /\ UNCHANGED <<orders, lease, members, numbers, badge, deleted, stripe>>

\* Mutant: the upgrade is added without its disputes
UpgradeCasUnlisted(w) ==
    LET k == wk[w] IN
    /\ At(w, "upgrade_cas")
    /\ Cas(w, [k.m EXCEPT !.tier = To(k.o), !.orders = @ \cup {k.o}],
           Publishing(k), Go(k, "upgrade_read"))
    /\ UNCHANGED <<orders, lease, numbers, badge, deleted, stripe>>

UpgradeCas(w) ==
    LET k == wk[w]
        more == [k.m EXCEPT !.tier = To(k.o), !.orders = @ \cup {k.o}] IN
    /\ At(w, "upgrade_cas")
    /\ Cas(w, Listed(more, k.o, Disputed(k.c)), Publishing(k),
           Go(k, "upgrade_read"))
    /\ UNCHANGED <<orders, lease, numbers, badge, deleted, stripe>>

-----------------------------------------------------------------------------
\* 6. publish_badge: only while the order is still ours
Publish(w) ==
    LET k == wk[w] IN
    /\ At(w, "publish")
    /\ WriteOr(w, k.c, Sync(k, "fulfilled"), Go(k, "publish_lost"))
    /\ UNCHANGED <<lease, members, numbers, badge, deleted, stripe>>

\* The fence was refused: the stored order decides the listing
PublishLost(w) ==
    LET k == wk[w] IN
    /\ At(w, "publish_lost")
    /\ Step(w, IF Disputed(orders[k.o])
                 THEN Listing(k, TRUE, "release", "release") ELSE Stop(k))
    /\ UNCHANGED <<orders, lease, members, numbers, badge, deleted, stripe>>

\* 7. Fulfilled, then any reversal that arrived first
Fulfilled(w) ==
    LET k == wk[w]
        c == [k.c EXCEPT !.state = "Fulfilled"] IN
    /\ At(w, "fulfilled")
    /\ Write(w, c, ReversePending([k EXCEPT !.c = c]))
    /\ UNCHANGED <<lease, members, numbers, badge, deleted, stripe>>

Finish(w) ==
    /\ At(w, "finish")
    /\ Step(w, ReversePending(wk[w]))
    /\ UNCHANGED <<orders, lease, members, numbers, badge, deleted, stripe>>

-----------------------------------------------------------------------------
(* Voids *)

\* A membership that lists the deleted account's order goes first
DelRead(w) ==
    LET k == wk[w] IN
    /\ At(w, "del_read")
    /\ Step(w, IF Holds(Read(k), k.o) THEN Go(k, "del_member")
               ELSE VoidStart(k, "AccountDeleted"))
    /\ UNCHANGED <<orders, lease, members, numbers, badge, deleted, stripe>>

DelMember(w) ==
    LET k == wk[w] IN
    /\ At(w, "del_member")
    /\ members' = [members EXCEPT ![User(k)] = NoMember]
    /\ Step(w, VoidStart(k, "AccountDeleted"))
    /\ UNCHANGED <<orders, lease, numbers, badge, deleted, stripe>>

VoidMark(w) ==
    LET k == wk[w] IN
    /\ At(w, "void_mark")
    /\ Write(w, [k.c EXCEPT !.reason = k.reason], Go(k, "void_refund"))
    /\ UNCHANGED <<lease, members, numbers, badge, deleted, stripe>>

\* refund_for_void: done once the money is back or on its way. The payment is
\* already refunded, or Stripe repeats its answer to our key although that
\* refund failed since; or it takes the refund, settled or not; or refuses it
RefundAsked(w, o, done, refused) ==
    \/ /\ FullyRefunded(o) \/ (stripe[o].void /\ RefundTaken(o))
       /\ Step(w, done)
       /\ UNCHANGED stripe
    \/ /\ ~FullyRefunded(o)
       /\ \E s \in Taken(o) :
            stripe' = [stripe EXCEPT ![o] = [WithRefund(@, s) EXCEPT !.void = TRUE]]
       /\ Step(w, done)
    \/ /\ ~FullyRefunded(o)
       /\ Step(w, refused)
       /\ UNCHANGED stripe

\* Mutant: a refused refund counts as made
VoidRefundUnchecked(w) ==
    LET k == wk[w] IN
    /\ At(w, "void_refund")
    /\ RefundAsked(w, k.o, Go(k, "void_write"), Go(k, "void_write"))
    /\ UNCHANGED <<orders, lease, members, numbers, badge, deleted>>

VoidRefund(w) ==
    LET k == wk[w] IN
    /\ At(w, "void_refund")
    /\ RefundAsked(w, k.o, Go(k, "void_write"),
                   IF k.prev # k.reason THEN Go(k, "void_unmark") ELSE Stop(k))
    /\ UNCHANGED <<orders, lease, members, numbers, badge, deleted>>

\* No money moved: the order is judged afresh next time
VoidUnmark(w) ==
    LET k == wk[w] IN
    /\ At(w, "void_unmark")
    /\ Write(w, [k.c EXCEPT !.reason = k.prev], Stop(k))
    /\ UNCHANGED <<lease, members, numbers, badge, deleted, stripe>>

VoidWrite(w) ==
    LET k == wk[w] IN
    /\ At(w, "void_write")
    /\ Write(w, [k.c EXCEPT !.state = "Voided", !.reason = k.reason,
                            !.pending = "None"], Stop(k))
    /\ UNCHANGED <<lease, members, numbers, badge, deleted, stripe>>

\* A Voided order paid after all: with a dispute on record it is Paid again,
\* and its void waits for the disputes
LatePaid(w) ==
    LET k == wk[w] IN
    /\ At(w, "late_paid")
    /\ Write(w, AsPaid(k.c), RecheckStart([k EXCEPT !.c = AsPaid(k.c)]))
    /\ UNCHANGED <<lease, members, numbers, badge, deleted, stripe>>

LateRefund(w) ==
    LET k == wk[w] IN
    /\ At(w, "late_refund")
    /\ RefundAsked(w, k.o, Go(k, "late_write"), Stop(k))
    /\ UNCHANGED <<orders, lease, members, numbers, badge, deleted>>

LateWrite(w) ==
    LET k == wk[w] IN
    /\ At(w, "late_write")
    /\ Write(w, [k.c EXCEPT !.intent = TRUE], Stop(k))
    /\ UNCHANGED <<lease, members, numbers, badge, deleted, stripe>>

FulfilNext(w) ==
    \/ Recheck(w) \/ Paid(w) \/ Judge(w) \/ Decide(w)
    \/ Number(w) \/ Claim(w) \/ Insert(w) \/ InsertRead(w) \/ Replace(w)
    \/ UpgradeRead(w) \/ UpgradeCas(w)
    \/ Publish(w) \/ PublishLost(w) \/ Fulfilled(w) \/ Finish(w)
    \/ DelRead(w) \/ DelMember(w)
    \/ VoidMark(w) \/ VoidRefund(w) \/ VoidUnmark(w) \/ VoidWrite(w)
    \/ LatePaid(w) \/ LateRefund(w) \/ LateWrite(w)

=============================================================================
