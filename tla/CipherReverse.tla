---------------------------- MODULE CipherReverse ----------------------------
(***************************************************************************)
(* Refunds and disputes of an order whose lease the worker holds:          *)
(* reverse_locked and what it calls. A reversal of an order that is not    *)
(* fulfilled is only recorded on it; one of a Fulfilled order changes the  *)
(* membership first and the order last.                                    *)
(***************************************************************************)
EXTENDS CipherRelease

Kinds == {"Refund", "DisputeOpened", "DisputeWon", "DisputeLost"}
TakesBack(kind) == kind \in {"Refund", "DisputeLost"}

\* disputes_after
DisputesAfter(k) ==
    CASE k.kind = "DisputeOpened" -> k.c.open \cup k.d
      [] k.kind \in {"DisputeWon", "DisputeLost"} -> k.c.open \ k.d
      [] OTHER -> k.c.open

\* record_before_fulfilment: the order as it will be
Recorded(k) ==
    [k.c EXCEPT !.open = DisputesAfter(k),
                !.pending = CASE k.kind = "DisputeLost" -> "DisputeLost"
                              [] k.kind = "Refund" /\ @ = "None" -> "Refund"
                              [] OTHER -> @]

\* The disputes are mirrored into a membership a dead worker may have written
Mirror(k) ==
    IF k.c.linked
      THEN Listing([Done(k) EXCEPT !.ret = k.then], Disputed(k.c),
                   "sync_read", k.then)
      ELSE Done(k)

\* reverse_fulfilled after the order's own write: a lost dispute drops a
\* pending release, any other finishes it
AfterRecord(k) ==
    Go(k, IF k.kind = "DisputeLost" THEN "lost_fence" ELSE "rel_check")

\* reverse_locked, by the state of the leased copy
ReverseStart(k, kind, d, full) ==
    LET n == [k EXCEPT !.kind = kind, !.d = d, !.full = full] IN
    CASE k.c.state = "Refunded" /\ kind = "DisputeLost" /\ k.c.linked ->
           Go(n, "lar_read")
      [] k.c.state = "Voided" \/ (k.c.state = "Refunded" /\ ~(kind = "DisputeLost" /\ k.c.linked)) -> Done(n)
      [] k.c.state = "Fulfilled" ->
           IF DisputesAfter(n) # k.c.open THEN Go(n, "rev_record")
           ELSE AfterRecord(n)
      [] OTHER -> IF Recorded(n) # k.c THEN Go(n, "rec_write") ELSE Mirror(n)

-----------------------------------------------------------------------------
RecWrite(w) ==
    LET k == wk[w]
        c == Recorded(k) IN
    /\ At(w, "rec_write")
    /\ Write(w, c, Mirror([k EXCEPT !.c = c]))
    /\ UNCHANGED <<lease, members, numbers, badge, deleted, stripe>>

\* dispute_lost_after_refund: the membership's revoke reason becomes the
\* lost dispute
LarRead(w) ==
    LET k == wk[w]  m == Read(k) IN
    /\ At(w, "lar_read")
    /\ Step(w, IF Holds(m, k.o) /\ m.revoked = "Refund"
                 THEN [k EXCEPT !.pc = "lar_cas", !.m = m] ELSE Done(k))
    /\ UNCHANGED <<orders, lease, members, numbers, badge, deleted, stripe>>

LarCas(w) ==
    LET k == wk[w] IN
    /\ At(w, "lar_cas")
    /\ Cas(w, [k.m EXCEPT !.revoked = "DisputeLost"], Done(k), Go(k, "lar_read"))
    /\ UNCHANGED <<orders, lease, numbers, badge, deleted, stripe>>

-----------------------------------------------------------------------------
(* reverse_fulfilled *)

RevRecord(w) ==
    LET k == wk[w]
        c == [k.c EXCEPT !.open = DisputesAfter(k)] IN
    /\ At(w, "rev_record")
    /\ Write(w, c, AfterRecord([k EXCEPT !.c = c]))
    /\ UNCHANGED <<lease, members, numbers, badge, deleted, stripe>>

\* drop_release_for_lost_dispute
LostFence(w) ==
    LET k == wk[w] IN
    /\ At(w, "lost_fence")
    /\ IF ReleaseMarked(k.o) THEN Fence(w, Go(k, "lost_cancel"))
       ELSE Step(w, Go(k, "rel_check")) /\ UNCHANGED orders
    /\ UNCHANGED <<lease, members, numbers, badge, deleted, stripe>>

LostCancel(w) ==
    /\ At(w, "lost_cancel")
    /\ CancelRelease(wk[w].o)
    /\ Step(w, Go(wk[w], "rel_check"))
    /\ UNCHANGED <<orders, lease, members, badge, deleted, stripe>>

\* no_membership_to_reverse
NoMembership(k) == IF k.c.pending = "None" THEN Done(k) ELSE Go(k, "clear")

\* A pending release is finished first; only then this reversal
RelCheck(w) ==
    LET k == wk[w] IN
    /\ At(w, "rel_check")
    /\ Step(w, IF IsNew(k.o) /\ ReleaseMarked(k.o) THEN RelEnter(k)
               ELSE IF k.task = "release" THEN Stop(k)
               ELSE IF ~k.c.linked THEN NoMembership(k)
               ELSE IF k.kind = "Refund" /\ ~k.planned THEN Go(k, "plan")
               ELSE Go(k, "rev_read"))
    /\ UNCHANGED <<orders, lease, members, numbers, badge, deleted, stripe>>

Clear(w) ==
    LET k == wk[w] IN
    /\ At(w, "clear")
    /\ Write(w, [k.c EXCEPT !.pending = "None"], Done(k))
    /\ UNCHANGED <<lease, members, numbers, badge, deleted, stripe>>

(***************************************************************************)
(* window_refund_plan for membership m, `undo` being what the model does   *)
(* not follow: the refund is inside the window and no Prot is spent. The   *)
(* latest upgrade of a row is the one to its tier: each upgrade leaves     *)
(* from the tier the one before it reached.                                *)
(***************************************************************************)
Plan(k, m, undo) ==
    IF ~(undo /\ k.full /\ Holds(m, k.o)) \/ Disputed(k.c) THEN "revoke"
    ELSE IF ~IsNew(k.o) THEN
           IF ~IsActive(m) THEN "revoke"
           ELSE IF m.tier = To(k.o) THEN "downgrade" ELSE "refund_only"
    ELSE IF /\ m.disputed = {} /\ m.revoked \in {"No", "Refund"}
            /\ m.number \in NumberOf(k.o)
           THEN "release" ELSE "revoke"

RefundPlan(w) ==
    LET k == wk[w]  m == Read(k) IN
    /\ At(w, "plan")
    /\ \E undo \in BOOLEAN :
         Step(w, CASE Plan(k, m, undo) = "revoke" -> Go(k, "rev_read")
                   [] Plan(k, m, undo) = "refund_only" -> Go(k, "refunded")
                   [] Plan(k, m, undo) = "release" -> Go(k, "plan_fence")
                   [] Plan(k, m, undo) = "downgrade" ->
                        [k EXCEPT !.pc = "down_cas", !.m = m])
    /\ UNCHANGED <<orders, lease, members, numbers, badge, deleted, stripe>>

PlanFence(w) ==
    /\ At(w, "plan_fence")
    /\ Fence(w, Go(wk[w], "plan_mark"))
    /\ UNCHANGED <<lease, members, numbers, badge, deleted, stripe>>

\* mark_cipher_number_release: the decision is on the number row first
PlanMark(w) ==
    LET k == wk[w] IN
    /\ At(w, "plan_mark")
    /\ numbers' = [n \in Numbers |-> IF numbers[n].order = k.o
                                       THEN [numbers[n] EXCEPT !.mark = TRUE]
                                       ELSE numbers[n]]
    /\ Step(w, IF NumberOf(k.o) = {} THEN Go(k, "rev_read")
               ELSE [k EXCEPT !.pc = "rel_check", !.planned = TRUE])
    /\ UNCHANGED <<orders, lease, members, badge, deleted, stripe>>

\* The upgrade is rolled back
DownCas(w) ==
    LET k == wk[w] IN
    /\ At(w, "down_cas")
    /\ Cas(w, [k.m EXCEPT !.tier = From[k.o], !.orders = @ \ {k.o},
                          !.disputed = @ \ {k.o}],
           Sync(k, "refunded"), Go(k, "plan"))
    /\ UNCHANGED <<orders, lease, numbers, badge, deleted, stripe>>

\* The membership as this reversal leaves it
Reversed(k, m) ==
    LET listed == IF k.kind = "DisputeLost" THEN k.c.open # {}
                  ELSE Disputed(k.c)
        revoked == IF k.kind = "Refund" /\ m.revoked = "No" THEN "Refund"
                   ELSE IF k.kind = "DisputeLost" THEN "DisputeLost"
                   ELSE m.revoked IN
    [(IF k.kind = "Refund" THEN m ELSE Listed(m, k.o, listed))
        EXCEPT !.revoked = revoked]

AfterReverse(k) == Sync(k, IF TakesBack(k.kind) THEN "refunded" ELSE "rev_done")

\* unlisted_reversal when no membership holds the order
RevRead(w) ==
    LET k == wk[w]  m == Read(k) IN
    /\ At(w, "rev_read")
    /\ Step(w, IF ~Holds(m, k.o) THEN
                    IF TakesBack(k.kind) THEN Sync(k, "refunded")
                    ELSE NoMembership(k)
               ELSE IF Reversed(k, m) = m THEN AfterReverse(k)
               ELSE [k EXCEPT !.pc = "rev_cas", !.m = m])
    /\ UNCHANGED <<orders, lease, members, numbers, badge, deleted, stripe>>

RevCas(w) ==
    LET k == wk[w] IN
    /\ At(w, "rev_cas")
    /\ Cas(w, Reversed(k, k.m), AfterReverse(k), Go(k, "rev_read"))
    /\ UNCHANGED <<orders, lease, numbers, badge, deleted, stripe>>

RevDone(w) ==
    /\ At(w, "rev_done")
    /\ Step(w, Done(wk[w]))
    /\ UNCHANGED <<orders, lease, members, numbers, badge, deleted, stripe>>

Refunded(w) ==
    /\ At(w, "refunded")
    /\ Write(w, AsRefunded(wk[w].c), Done(wk[w]))
    /\ UNCHANGED <<lease, members, numbers, badge, deleted, stripe>>

\* Mutant: a won dispute is not seen as closed
KindOfUnclosed(status) ==
    IF status = "lost" THEN "DisputeLost" ELSE "DisputeOpened"

\* reverse_dispute: Stripe is asked under the lease where the dispute is now
KindOf(status) == CASE status = "won" -> "DisputeWon"
                    [] status = "lost" -> "DisputeLost"
                    [] OTHER -> "DisputeOpened"

DisputeRead(w) ==
    LET k == wk[w] IN
    /\ At(w, "dispute_read")
    /\ \E d \in k.todo :
         Step(w, ReverseStart([k EXCEPT !.todo = {}],
                              KindOf(stripe[k.o].dispute[d]), {d}, FALSE))
    /\ UNCHANGED <<orders, lease, members, numbers, badge, deleted, stripe>>

ReverseNext(w) ==
    \/ DisputeRead(w) \/ RecWrite(w) \/ LarRead(w) \/ LarCas(w)
    \/ RevRecord(w) \/ LostFence(w) \/ LostCancel(w) \/ RelCheck(w) \/ Clear(w)
    \/ RefundPlan(w) \/ PlanFence(w) \/ PlanMark(w) \/ DownCas(w)
    \/ RevRead(w) \/ RevCas(w) \/ RevDone(w) \/ Refunded(w)

=============================================================================
