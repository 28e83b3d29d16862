---------------------------- MODULE CipherRelease ----------------------------
(***************************************************************************)
(* finish_number_release_locked: the number of a purchase refunded within  *)
(* the window goes back to the pool. The decision is a mark on the number  *)
(* row; every step after it is taken again by the next run until the mark  *)
(* is gone. Entered at "rel_check" with the purchase's lease held.         *)
(*                                                                         *)
(* The Prot ledger is external here (ProtFounding models it): the clawback *)
(* may find that Prot of the membership was spent already (a shortfall).   *)
(***************************************************************************)
EXTENDS CipherState

\* mark_refunded
AsRefunded(c) == [c EXCEPT !.state = "Refunded", !.pending = "None"]

\* Once the row is gone: the order, then the number
RelOrder(k) ==
    Go([k EXCEPT !.m = NoMember],
       IF k.c.state = "Fulfilled" THEN "rel_mark" ELSE "rel_free")

\* The row is marked: an order without a buyer goes straight to the last steps
RelEnter(k) ==
    LET n == [k EXCEPT !.number = CHOOSE n \in NumberOf(k.o) : TRUE] IN
    IF k.c.linked THEN Go(n, "rel_read") ELSE RelOrder(n)

\* Revoked by staff or for a lost dispute, Prot spent, a dispute on record
KeepsNumber(k, m, spent) ==
    \/ spent
    \/ m.revoked # "Refund"
    \/ m.disputed # {}
    \/ Disputed(k.c)

RelRead(w) ==
    LET k == wk[w]  m == Read(k) IN
    /\ At(w, "rel_read")
    /\ \E spent \in {FALSE, course.spent} :
         Step(w, IF ~Holds(m, k.o) THEN Sync(k, RelOrder(k).pc)
                 ELSE IF IsActive(m) THEN [k EXCEPT !.pc = "rel_revoke", !.m = m]
                 ELSE IF KeepsNumber(k, m, spent)
                   THEN Go(k, IF k.c.state = "Fulfilled" THEN "keep_mark"
                              ELSE "keep_cancel")
                 ELSE [k EXCEPT !.pc = "rel_fence", !.m = m])
    /\ UNCHANGED <<orders, lease, members, numbers, badge, deleted, stripe>>

\* 1. Revoke; the badge goes at once
RelRevoke(w) ==
    LET k == wk[w] IN
    /\ At(w, "rel_revoke")
    /\ Cas(w, [k.m EXCEPT !.revoked = "Refund"],
           Sync(k, "rel_read"), Go(k, "rel_read"))
    /\ UNCHANGED <<orders, lease, numbers, badge, deleted, stripe>>

\* keep_number_retired: the order first, then the mark
KeepMark(w) ==
    /\ At(w, "keep_mark")
    /\ Write(w, AsRefunded(wk[w].c), Go(wk[w], "keep_cancel"))
    /\ UNCHANGED <<lease, members, numbers, badge, deleted, stripe>>

\* cancel_cipher_number_release
CancelRelease(o) ==
    numbers' = [n \in Numbers |-> IF numbers[n].order = o
                                    THEN [numbers[n] EXCEPT !.mark = FALSE]
                                    ELSE numbers[n]]

KeepCancel(w) ==
    /\ At(w, "keep_cancel")
    /\ CancelRelease(wk[w].o)
    /\ Step(w, Done(wk[w]))
    /\ UNCHANGED <<orders, lease, members, badge, deleted, stripe>>

\* 2. Every other order of the row is refunded first, while still ours
RelFence(w) ==
    LET k == wk[w] IN
    /\ At(w, "rel_fence")
    /\ Fence(w, [k EXCEPT !.pc = "rel_up", !.waiting = FALSE,
                          !.ups = k.m.orders \ {k.o}])
    /\ UNCHANGED <<lease, members, numbers, badge, deleted, stripe>>

\* Mutant: an upgrade that must wait is passed over
RelUpImpatient(w) ==
    LET k == wk[w] IN
    /\ At(w, "rel_up")
    /\ \/ \E u \in k.ups :
            LET s == orders[u]
                rest == [k EXCEPT !.ups = @ \ {u}] IN
            Step(w, IF s.state \in {"Refunded", "Voided"} \/ ~s.intent
                       \/ Disputed(s) THEN rest
                    ELSE [rest EXCEPT !.pc = "rel_refund", !.up = u])
       \/ /\ k.ups = {}
          /\ Step(w, Go(k, "rel_fence2"))
    /\ UNCHANGED <<orders, lease, members, numbers, badge, deleted, stripe>>

\* The upgrade `u` is looked at without its lease
RelUp(w) ==
    LET k == wk[w] IN
    /\ At(w, "rel_up")
    /\ \/ \E u \in k.ups :
            LET s == orders[u]
                rest == [k EXCEPT !.ups = @ \ {u}] IN
            Step(w, IF s.state \in {"Refunded", "Voided"} THEN rest
                    ELSE IF ~s.intent \/ Disputed(s)
                      THEN [rest EXCEPT !.waiting = TRUE]
                    ELSE [rest EXCEPT !.pc = "rel_refund", !.up = u])
       \/ /\ k.ups = {}
          /\ Step(w, IF k.waiting THEN Done(k) ELSE Go(k, "rel_fence2"))
    /\ UNCHANGED <<orders, lease, members, numbers, badge, deleted, stripe>>

\* Our refund of the upgrade: recorded once the money is back. While it
\* settles, or when it is refused or fails, the next run asks again
RelRefund(w) ==
    LET k == wk[w]
        wait == [k EXCEPT !.pc = "rel_up", !.up = Free, !.waiting = TRUE] IN
    /\ At(w, "rel_refund")
    /\ \/ /\ RefundedInFull(k.up)
          /\ Step(w, Go(k, "rel_record"))
          /\ UNCHANGED stripe
       \/ /\ ~FullyRefunded(k.up)
          /\ \E s \in Taken(k.up) :
               /\ stripe' = [stripe EXCEPT ![k.up] =
                                [WithRefund(@, s) EXCEPT !.upgrade = TRUE]]
               /\ Step(w, IF s = "back" THEN Go(k, "rel_record") ELSE wait)
       \/ /\ Step(w, wait)
          /\ UNCHANGED stripe
    /\ UNCHANGED <<orders, lease, members, numbers, badge, deleted>>

\* record_upgrade_refunded: leased, written and given back (one step: no
\* worker can write the upgrade in between). A held lease is waited for.
RelRecord(w) ==
    LET k == wk[w]
        next == [k EXCEPT !.pc = "rel_up", !.up = Free] IN
    /\ At(w, "rel_record")
    /\ IF lease[k.up] # Free
         THEN /\ Step(w, [next EXCEPT !.waiting = TRUE])
              /\ UNCHANGED orders
         ELSE /\ orders' = IF orders[k.up].state \in {"Refunded", "Voided"}
                             THEN orders
                             ELSE [orders EXCEPT ![k.up] = AsRefunded(@)]
              /\ wk' = [v \in Workers |-> IF v = w THEN next
                                          ELSE Outdated(wk[v], k.up)]
    /\ UNCHANGED <<lease, members, numbers, badge, deleted, stripe>>

RelFence2(w) ==
    /\ At(w, "rel_fence2")
    /\ Fence(w, Go(wk[w], "rel_delete"))
    /\ UNCHANGED <<lease, members, numbers, badge, deleted, stripe>>

\* 3. delete_cipher_membership_if_version
RelDelete(w) ==
    LET k == wk[w] IN
    /\ At(w, "rel_delete")
    /\ IF Unmoved(k)
         THEN /\ members' = [members EXCEPT ![User(k)] = NoMember]
              /\ Step(w, Sync(k, RelOrder(k).pc))
         ELSE /\ Step(w, [k EXCEPT !.pc = "rel_read", !.m = NoMember])
              /\ UNCHANGED members
    /\ UNCHANGED <<orders, lease, numbers, badge, deleted, stripe>>

\* 4. The order
RelMark(w) ==
    /\ At(w, "rel_mark")
    /\ Write(w, AsRefunded(wk[w].c), Go(wk[w], "rel_free"))
    /\ UNCHANGED <<lease, members, numbers, badge, deleted, stripe>>

\* 5. No row, whoever's, may hold the number: an error until then
RelFree(w) ==
    LET k == wk[w]
        held == \E u \in Users : members[u].number = k.number IN
    /\ At(w, "rel_free")
    /\ Step(w, IF held THEN Abort(k) ELSE Go(k, "rel_put"))
    /\ UNCHANGED <<orders, lease, members, numbers, badge, deleted, stripe>>

\* release_cipher_number
RelPut(w) ==
    LET k == wk[w] IN
    /\ At(w, "rel_put")
    /\ numbers' = [n \in Numbers |-> IF numbers[n].order = k.o
                                       THEN [order |-> Free, mark |-> FALSE]
                                       ELSE numbers[n]]
    /\ Step(w, Done(k))
    /\ UNCHANGED <<orders, lease, members, badge, deleted, stripe>>

ReleaseNext(w) ==
    \/ RelRead(w) \/ RelRevoke(w) \/ KeepMark(w) \/ KeepCancel(w)
    \/ RelFence(w) \/ RelUp(w) \/ RelRefund(w) \/ RelRecord(w)
    \/ RelFence2(w) \/ RelDelete(w) \/ RelMark(w) \/ RelFree(w) \/ RelPut(w)

=============================================================================
