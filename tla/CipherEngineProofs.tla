------------------------- MODULE CipherEngineProofs -------------------------
\* Proofs about CipherEngine for any workers, users, orders, numbers,
\* disputes and courses.
\*
\* What a worker may do next depends on its copy of the order; Fine says,
\* of a worker record alone, which copies it can have at each call and at
\* the calls it will return to.  So the operators that carry a handler
\* from one call to the next are proved once, as lemmas about records, and
\* an action's proof is about the tables it changes.
\*
\* Inv is about orders and payments; Held, further down, about the
\* membership rows and the numbers, in steps of which Inv is known.
EXTENDS CipherEngine, FiniteSetTheorems, FunctionTheorems, TLAPS

-----------------------------------------------------------------------------
\* The worker record

Fields == {"pc", "task", "o", "c", "mine", "m", "kind", "d", "full", "planned", "reason", "prev",
           "number", "list", "found", "missing", "show", "ret", "then", "todo", "ups", "up", "waiting"}

\* Calls made without an order
Bare == {"idle", "account", "create", "del_row", "del_user"}
Deleting == {"account", "del_row", "del_user"}
SyncCalls == {"sync_read", "sync_user", "sync_write"}
ListCalls == {"list_read", "list_cas"}

Selling == {"judge", "decide", "number", "claim", "insert", "insert_read", "replace",
            "upgrade_read", "upgrade_cas", "publish", "publish_lost", "fulfilled"}
Reversing == {"rev_record", "lost_fence", "lost_cancel", "plan", "plan_fence", "plan_mark", "down_cas",
              "rev_read", "rev_cas", "refunded", "clear", "rel_mark", "keep_mark"}

\* Calls that need the row they read, or a number
CasCalls == {"list_cas", "rel_revoke", "lar_cas", "down_cas", "rev_cas", "upgrade_cas"}
Inserts == {"insert", "insert_read", "replace"}

\* Calls that void_paid starts with, once the former reason of the void is kept
VoidCalls == {"void_mark", "void_refund"}

\* Calls with a condition on more than the worker's own record
Special == {"void_unmark", "rel_refund", "rel_record"}

\* The copy c a worker has at a call; reason: of its void; back: the orders
\* of whose whole payment Stripe took a refund
Fits(o, c, task, reason, pc, back) ==
    /\ pc = "session" => c.state = "Creating"
    /\ pc \in {"expire", "void_unpaid"} => c.state \in Unpaid
    /\ pc = "paid" => c.state \in Unpaid \cup {"Expired"}
    /\ pc \in Selling => c.state = "Paid" /\ c.reason = "None"
    /\ pc \in {"del_read", "del_member", "void_unmark"} => c.state = "Paid"
    /\ pc \in {"void_mark", "void_refund"} => c.state = "Paid" /\ reason # "None" /\ ~Disputed(c)
    /\ pc = "void_refund" => c.reason = reason
    /\ pc = "void_write" => /\ c.state = "Paid" /\ reason # "None"
                            /\ c.pending = "DisputeLost" \/ (c.open = {} /\ o \in back)
    /\ pc \in {"late_refund", "late_write"} => c.state = "Voided" /\ ~c.intent /\ ~Disputed(c)
    /\ pc = "late_write" => o \in back
    /\ pc = "late_paid" => c.state = "Voided" /\ ~c.intent /\ Disputed(c)
    /\ pc = "rec_write" => c.state \in BeforeFulfilment
    /\ pc \in Reversing => c.state = "Fulfilled"
    /\ pc = "rel_check" => c.state = "Fulfilled" \/ task = "release"
    /\ pc = "clear" => c.pending # "None"
    /\ pc \in {"recheck", "dispute_read", "late_paid"} => task # "delete"
    /\ pc \in {"upgrade_read", "upgrade_cas"} => ~IsNew(o)

\* Types
Row(k) ==
    /\ DOMAIN k = Fields
    /\ k.o \in Orders \cup {Free} /\ k.c \in StoredOrder /\ k.m \in Membership
    /\ k.mine \in BOOLEAN
    /\ k.kind \in Kinds \cup {"none"} /\ k.d \subseteq Disputes
    /\ k.reason \in VoidReasons /\ k.prev \in VoidReasons
    /\ k.number \in 0 .. Cap /\ k.show \in Badge
    /\ k.then \in {"release", "recheck"} /\ (k.then = "recheck" => k.task # "delete")
    /\ k.todo \subseteq (IF k.task = "delete" THEN Orders ELSE Disputes)
    /\ k.ups \subseteq Orders \ {k.o}
    /\ k.up \in (Orders \ {k.o}) \cup {Free}
    /\ k.pc \in {"rel_refund", "rel_record"} => k.up \in Orders

\* A worker with an order; lost: the orders with a lost dispute
Ready(k, lost) ==
    /\ Row(k) /\ k.o \in Orders /\ k.c.state # "Absent"
    /\ k.kind = "DisputeLost" \/ k.c.pending = "DisputeLost" => k.o \in lost

\* A call that a badge sync, a listing or another part of a handler may go on with
Onward(k, pc, back) ==
    /\ Fits(k.o, k.c, k.task, k.reason, pc, back)
    /\ pc \notin Bare \cup SyncCalls \cup ListCalls \cup Special
Returns(k, pc, back) == Onward(k, pc, back) /\ pc \notin CasCalls \cup Inserts \cup VoidCalls

Placed(k, back) ==
    /\ k.pc \notin Bare
    /\ k.pc \in CasCalls => k.m \in CipherMembership
    /\ k.pc \in Inserts => k.number \in Numbers
    /\ k.pc = "void_mark" => k.prev = k.c.reason
    /\ Fits(k.o, k.c, k.task, k.reason, k.pc, back)
    /\ k.pc \in SyncCalls => Returns(k, k.ret, back)
    /\ k.pc \in ListCalls => /\ Returns(k, IF k.found = "sync_read" THEN k.ret ELSE k.found, back)
                             /\ Returns(k, IF k.missing = "sync_read" THEN k.ret ELSE k.missing, back)

\* A worker that put the void on record itself, and takes it off if Stripe refuses the refund
Opens(k) == k.pc \in {"void_refund", "void_unmark"} /\ k.prev = "None"

Fine(k, back, lost) ==
    /\ Row(k)
    /\ k.pc \in Bare => /\ k.c = AbsentOrder /\ ~k.mine /\ (k.pc # "idle" => k.o \in Orders)
                        /\ k.kind = "none" /\ (k.pc \in Deleting => k.task = "delete")
    /\ k.pc \notin Bare => Ready(k, lost) /\ Placed(k, back)

-----------------------------------------------------------------------------
\* The tables, and the inductive invariant

Lost(o) == \E d \in Disputes : stripe[o].dispute[d] = "lost"
AllBack == {o \in Orders : RefundTaken(o)}
AllLost == {o \in Orders : Lost(o)}

\* Our refund of the void of o was taken, or may yet be asked for by a worker that lost its fence
Marked(o) ==
    stripe[o].void \/ \E v \in Workers : wk[v].o = o /\ ~wk[v].mine /\ Voiding(wk[v].c)

\* What is true of the order o stored as s
Sound(o, s) ==
    /\ s.intent => s.state \in {"Paid", "Fulfilled", "Refunded", "Voided"}
    /\ s.state = "Voided" => s.reason # "None"
    /\ s.pending = "DisputeLost" => Lost(o)
    /\ s.state = "Voided" /\ s.intent => RefundTaken(o) \/ Lost(o)
    /\ Marked(o) => Voiding(s)
OrderInv(o) == Sound(o, orders[o])

\* A worker's fence, and what keeping within the lease gives: the copy is the row, but that it
\* may have been unlinked since
Tied(w) ==
    LET k == wk[w] IN
    ~course.stalls /\ k.pc \notin Bare =>
        /\ lease[k.o] = w
        /\ orders[k.o] = [k.c EXCEPT !.linked = orders[k.o].linked]
MineInv(w) ==
    wk[w].mine => /\ orders[wk[w].o] = wk[w].c
                  /\ \A v \in Workers \ {w} : wk[v].mine => wk[v].o # wk[w].o
OpenInv(w) == wk[w].mine /\ Opens(wk[w]) => ~Marked(wk[w].o)
UpInv(w) == wk[w].pc \in {"rel_refund", "rel_record"} => orders[wk[w].up].intent
CreateInv(w) ==
    wk[w].pc = "create" => /\ orders[wk[w].o].state = "Absent"
                           /\ \A v \in Workers \ {w} : wk[v].pc = "create" => wk[v].o # wk[w].o

WorkInv(w) ==
    /\ Fine(wk[w], AllBack, AllLost)
    /\ Tied(w) /\ MineInv(w) /\ OpenInv(w) /\ UpInv(w) /\ CreateInv(w)

Tables ==
    /\ course \in Courses
    /\ orders \in [Orders -> StoredOrder]
    /\ lease \in [Orders -> Workers \cup {Free}]
    /\ members \in [Users -> Membership]
    /\ numbers \in [Numbers -> NumberRow]
    /\ badge \in [Users -> Badge]
    /\ deleted \subseteq Users
    /\ stripe \in [Orders -> StripeOrder]
    /\ DOMAIN wk = Workers

Inv == Tables /\ (\A o \in Orders : OrderInv(o)) /\ \A w \in Workers : WorkInv(w)
-----------------------------------------------------------------------------
\* From call to call

\* A handler goes on with the same order, copy and fence
Goes(k, n) == n.o = k.o /\ n.c = k.c /\ n.mine = k.mine /\ n.task = k.task
Carries(k, n, back, lost) ==
    Ready(n, lost) /\ Placed(n, back) /\ n.pc \notin Special /\ ~Opens(n) /\ Goes(k, n)

LEMMA NoMemberType == NoMember \in Membership
BY DEF Membership

LEMMA CarriesOn ==
    ASSUME NEW k, NEW n, NEW back, NEW lost, Ready(k, lost), Row(n), Goes(k, n),
           n.kind = "DisputeLost" => k.o \in lost, Onward(n, n.pc, back),
           n.pc \in CasCalls => n.m \in CipherMembership, n.pc \in Inserts => n.number \in Numbers,
           n.pc \in VoidCalls => n.prev = n.c.reason
    PROVE  Carries(k, n, back, lost)
<1>1. Ready(n, lost)
  BY DEF Ready, Goes
<1>2. Placed(n, back) /\ n.pc \notin Special
  BY DEF Placed, Onward, VoidCalls
<1>3. ~Opens(n)
  BY <1>2 DEF Opens, Placed, Fits, Special, VoidCalls
<1> QED
  BY <1>1, <1>2, <1>3 DEF Carries

LEMMA CarriesTwice ==
    ASSUME NEW k, NEW n, NEW p, NEW back, NEW lost, Goes(k, n), Carries(n, p, back, lost)
    PROVE  Carries(k, p, back, lost)
BY DEF Carries, Goes

LEMMA GoCarries ==
    ASSUME NEW k, NEW back, NEW lost, NEW pc, Ready(k, lost), Returns(k, pc, back)
    PROVE  Carries(k, Go(k, pc), back, lost)
<1> PICK n : n = Go(k, pc)
  OBVIOUS
<1>1. n.pc = pc /\ DOMAIN n = Fields
  BY DEF Go, Ready, Row, Fields
<1>2. \A f \in Fields \ {"pc"} : n[f] = k[f]
  BY DEF Go, Ready, Row, Fields
<1>3. Row(n)
  BY <1>1, <1>2 DEF Row, Ready, Fields, Returns, Onward, Special
<1>4. Goes(k, n) /\ n.kind = k.kind /\ n.reason = k.reason
  BY <1>2 DEF Goes, Fields
<1>5. Returns(n, n.pc, back)
  BY <1>1, <1>4 DEF Returns, Onward, CasCalls, Inserts, VoidCalls, Goes
<1> QED
  BY <1>3, <1>4, <1>5, CarriesOn DEF VoidCalls, Returns, Ready

LEMMA GoVoidCarries ==
    ASSUME NEW k, NEW back, NEW lost, NEW pc \in VoidCalls, Ready(k, lost), Onward(k, pc, back), k.prev = k.c.reason
    PROVE  Carries(k, Go(k, pc), back, lost)
<1> PICK n : n = Go(k, pc)
  OBVIOUS
<1>1. n.pc = pc /\ DOMAIN n = Fields /\ \A f \in Fields \ {"pc"} : n[f] = k[f]
  BY DEF Go, Ready, Row, Fields
<1>2. Row(n)
  BY <1>1 DEF Row, Ready, Fields, Onward, Special
<1>3. Goes(k, n) /\ n.kind = k.kind /\ n.reason = k.reason /\ n.prev = k.prev
  BY <1>1 DEF Goes, Fields
<1>4. Onward(n, n.pc, back) /\ n.pc \notin CasCalls \cup Inserts
  BY <1>1, <1>3 DEF Onward, Goes, VoidCalls, CasCalls, Inserts
<1> QED
  BY <1>2, <1>3, <1>4, CarriesOn DEF Ready, Goes

LEMMA StopCarries ==
    ASSUME NEW k, NEW back, NEW lost, Ready(k, lost)
    PROVE  Carries(k, Stop(k), back, lost)
<1>1. Returns(k, "release", back)
  BY DEF Returns, Onward, CasCalls, Inserts, VoidCalls, Fits, Selling, Reversing, Bare, SyncCalls, ListCalls, Special
<1> QED
  BY <1>1, GoCarries DEF Stop

LEMMA DoneCarries ==
    ASSUME NEW k, NEW back, NEW lost, Ready(k, lost)
    PROVE  Carries(k, Done(k), back, lost)
<1> PICK n : n = Done(k)
  OBVIOUS
<1>1. /\ n.pc = k.then /\ n.kind = "none" /\ n.d = {}
      /\ n.m = NoMember /\ n.number = 0 /\ n.ups = {} /\ n.up = Free /\ DOMAIN n = Fields
  BY DEF Done, Ready, Row, Fields
<1>2. \A f \in Fields \ {"pc", "kind", "d", "full", "planned", "m", "number", "ups", "up", "waiting"} : n[f] = k[f]
  BY DEF Done, Ready, Row, Fields
<1>3. Row(n)
  BY <1>1, <1>2, NoMemberType, CipherAssumption DEF Row, Ready, Fields
<1>4. Goes(k, n) /\ n.reason = k.reason
  BY <1>2 DEF Goes, Fields
<1>5. Returns(n, n.pc, back)
  BY <1>1, <1>2, <1>3, <1>4 DEF Returns, Onward, CasCalls, Inserts, VoidCalls, Fits, Row, Fields, Selling, Reversing, Bare, SyncCalls, ListCalls, Special
<1> QED
  BY <1>1, <1>3, <1>4, <1>5, CarriesOn DEF VoidCalls, Returns

LEMMA AbortCarries ==
    ASSUME NEW k, NEW back, NEW lost, Ready(k, lost)
    PROVE  Carries(k, Abort(k), back, lost)
<1> PICK n : n = Done(k)
  OBVIOUS
<1> PICK p : p = Abort(k)
  OBVIOUS
<1>1. Carries(k, n, back, lost)
  BY DoneCarries
<1>2. Row(n)
  BY <1>1 DEF Carries, Ready
<1>3. p.todo \in {{}, n.todo} /\ DOMAIN p = Fields
  BY <1>2 DEF Abort, Row, Fields
<1>4. \A f \in Fields \ {"todo"} : p[f] = n[f]
  BY <1>2 DEF Abort, Row, Fields
<1>5. Row(p)
  BY <1>2, <1>3, <1>4 DEF Row, Fields
<1>6. Goes(n, p) /\ p.pc = n.pc /\ p.kind = n.kind /\ p.reason = n.reason
  BY <1>4 DEF Goes, Fields
<1>7. Returns(p, p.pc, back)
  <2>1. n.pc \in {"release", "recheck"}
    BY DEF Done, Ready, Row, Fields
  <2> QED
    BY <1>1, <1>6, <2>1 DEF Returns, Onward, CasCalls, Inserts, VoidCalls, Carries, Placed, Goes, Bare, SyncCalls, ListCalls, Special
<1> QED
  BY <1>1, <1>5, <1>6, <1>7, CarriesOn, CarriesTwice DEF Returns, Carries, Ready

LEMMA ReadyStill ==
    ASSUME NEW k, NEW n, NEW lost, Ready(k, lost), Row(n), Goes(k, n), n.kind = "DisputeLost" => k.o \in lost
    PROVE  Ready(n, lost)
BY DEF Ready, Goes

LEMMA SyncCarries ==
    ASSUME NEW k, NEW back, NEW lost, NEW ret, Ready(k, lost), Returns(k, ret, back)
    PROVE  Carries(k, Sync(k, ret), back, lost)
<1> PICK n : n = Sync(k, ret)
  OBVIOUS
<1>1. n.pc = "sync_read" /\ n.ret = ret /\ n.m = NoMember /\ DOMAIN n = Fields
  BY DEF Sync, Ready, Row, Fields
<1>2. \A f \in Fields \ {"pc", "ret", "m"} : n[f] = k[f]
  BY DEF Sync, Ready, Row, Fields
<1>3. Row(n)
  BY <1>1, <1>2, NoMemberType DEF Row, Ready, Fields
<1>4. Goes(k, n) /\ n.kind = k.kind /\ n.reason = k.reason
  BY <1>2 DEF Goes, Fields
<1>5. Returns(n, n.ret, back)
  BY <1>1, <1>4 DEF Returns, Onward, CasCalls, Inserts, VoidCalls, Goes
<1>6. Fits(n.o, n.c, n.task, n.reason, "sync_read", back)
  BY DEF Fits, Selling, Reversing
<1>7. Ready(n, lost)
  BY <1>3, <1>4, ReadyStill DEF Ready
<1> QED
  BY <1>1, <1>4, <1>5, <1>6, <1>7 DEF Carries, Placed, Bare, SyncCalls, ListCalls, Special, CasCalls, Inserts, Opens

\* Where a listing returns to, a badge sync looked through
Beyond(k, pc) == IF pc = "sync_read" THEN k.ret ELSE pc

LEMMA ListingCarries ==
    ASSUME NEW k, NEW back, NEW lost, NEW open, NEW found, NEW missing, Ready(k, lost),
           Returns(k, Beyond(k, found), back), Returns(k, Beyond(k, missing), back)
    PROVE  Carries(k, Listing(k, open, found, missing), back, lost)
<1> PICK n : n = Listing(k, open, found, missing)
  OBVIOUS
<1>1. n.pc = "list_read" /\ n.found = found /\ n.missing = missing /\ DOMAIN n = Fields
  BY DEF Listing, Ready, Row, Fields
<1>2. \A f \in Fields \ {"pc", "list", "found", "missing"} : n[f] = k[f]
  BY DEF Listing, Ready, Row, Fields
<1>3. Row(n)
  BY <1>1, <1>2 DEF Row, Ready, Fields
<1>4. Goes(k, n) /\ n.kind = k.kind /\ n.reason = k.reason /\ n.ret = k.ret
  BY <1>2 DEF Goes, Fields
<1>5. Returns(n, Beyond(n, n.found), back) /\ Returns(n, Beyond(n, n.missing), back)
  BY <1>1, <1>4 DEF Returns, Onward, CasCalls, Inserts, VoidCalls, Goes, Beyond
<1>6. Fits(n.o, n.c, n.task, n.reason, "list_read", back)
  BY DEF Fits, Selling, Reversing
<1>7. Ready(n, lost)
  BY <1>3, <1>4, ReadyStill DEF Ready
<1> QED
  BY <1>1, <1>4, <1>5, <1>6, <1>7 DEF Carries, Placed, Beyond, Bare, SyncCalls, ListCalls, Special, CasCalls, Inserts, Opens

LEMMA ListEndCarries ==
    ASSUME NEW k, NEW back, NEW lost, NEW pc, Ready(k, lost), Returns(k, Beyond(k, pc), back)
    PROVE  Carries(k, ListEnd(k, pc), back, lost)
<1> PICK n : n = ListEnd(k, pc)
  OBVIOUS
<1>0. pc \notin {"rel_refund", "rel_record"}
  BY DEF Beyond, Returns, Onward, CasCalls, Inserts, VoidCalls, Special
<1>1. n.pc = pc /\ DOMAIN n = Fields
  BY DEF ListEnd, Ready, Row, Fields
<1>2. \A f \in Fields \ {"pc", "list", "found", "missing"} : n[f] = k[f]
  BY DEF ListEnd, Ready, Row, Fields
<1>3. Row(n)
  BY <1>0, <1>1, <1>2 DEF Row, Ready, Fields
<1>4. Goes(k, n) /\ n.kind = k.kind /\ n.reason = k.reason /\ n.ret = k.ret
  BY <1>2 DEF Goes, Fields
<1>5. Returns(n, Beyond(n, pc), back)
  BY <1>1, <1>4 DEF Returns, Onward, CasCalls, Inserts, VoidCalls, Goes, Beyond
<1>6. Ready(n, lost)
  BY <1>3, <1>4, ReadyStill DEF Ready
<1>7. CASE pc = "sync_read"
  <2>1. Fits(n.o, n.c, n.task, n.reason, "sync_read", back)
    BY DEF Fits, Selling, Reversing
  <2> QED
    BY <1>1, <1>4, <1>5, <1>6, <1>7, <2>1 DEF Carries, Placed, Beyond, Bare, SyncCalls, ListCalls, Special, CasCalls, Inserts, Opens
<1>8. CASE pc # "sync_read"
  BY <1>1, <1>3, <1>4, <1>5, <1>8, CarriesOn DEF VoidCalls, Returns, Beyond, Ready
<1> QED
  BY <1>7, <1>8

LEMMA AfterRecordCarries ==
    ASSUME NEW k, NEW back, NEW lost, Ready(k, lost), k.c.state = "Fulfilled"
    PROVE  Carries(k, AfterRecord(k), back, lost)
<1>1. Returns(k, "lost_fence", back) /\ Returns(k, "rel_check", back)
  BY DEF Returns, Onward, CasCalls, Inserts, VoidCalls, Fits, Selling, Reversing, Bare, SyncCalls, ListCalls, Special
<1> QED
  BY <1>1, GoCarries DEF AfterRecord

LEMMA NoMembershipCarries ==
    ASSUME NEW k, NEW back, NEW lost, Ready(k, lost), k.c.state = "Fulfilled"
    PROVE  Carries(k, NoMembership(k), back, lost)
<1>1. k.c.pending # "None" => Returns(k, "clear", back)
  BY DEF Returns, Onward, CasCalls, Inserts, VoidCalls, Fits, Selling, Reversing, Bare, SyncCalls, ListCalls, Special
<1> QED
  BY <1>1, GoCarries, DoneCarries DEF NoMembership

LEMMA AfterReverseCarries ==
    ASSUME NEW k, NEW back, NEW lost, Ready(k, lost), k.c.state = "Fulfilled"
    PROVE  Carries(k, AfterReverse(k), back, lost)
<1>1. Returns(k, "refunded", back) /\ Returns(k, "rev_done", back)
  BY DEF Returns, Onward, CasCalls, Inserts, VoidCalls, Fits, Selling, Reversing, Bare, SyncCalls, ListCalls, Special
<1> QED
  BY <1>1, SyncCarries DEF AfterReverse

LEMMA RelOrderCarries ==
    ASSUME NEW k, NEW back, NEW lost, Ready(k, lost)
    PROVE  /\ Carries(k, RelOrder(k), back, lost)
           /\ Returns(k, RelOrder(k).pc, back)
<1> PICK n : n = [k EXCEPT !.m = NoMember]
  OBVIOUS
<1>1. n.m = NoMember /\ DOMAIN n = Fields
  BY DEF Ready, Row, Fields
<1>2. \A f \in Fields \ {"m"} : n[f] = k[f]
  BY DEF Ready, Row, Fields
<1>3. Row(n)
  BY <1>1, <1>2, NoMemberType DEF Row, Ready, Fields
<1>4. Goes(k, n) /\ n.kind = k.kind /\ n.reason = k.reason
  BY <1>2 DEF Goes, Fields
<1>5. Ready(n, lost)
  BY <1>3, <1>4, ReadyStill DEF Ready
<1> PICK pc : pc = IF k.c.state = "Fulfilled" THEN "rel_mark" ELSE "rel_free"
  OBVIOUS
<1>6. Returns(n, pc, back)
  BY <1>4 DEF Goes, Returns, Onward, CasCalls, Inserts, VoidCalls, Fits, Selling, Reversing, Bare, SyncCalls, ListCalls, Special
<1>7. RelOrder(k) = Go(n, pc)
  BY DEF RelOrder
<1>8. Carries(k, Go(n, pc), back, lost)
  BY <1>4, <1>5, <1>6, GoCarries, CarriesTwice
<1>9. Go(n, pc).pc = pc
  BY <1>1 DEF Go, Fields
<1>10. Returns(k, pc, back)
  BY <1>4, <1>6 DEF Returns, Onward, CasCalls, Inserts, VoidCalls, Goes
<1> QED
  BY <1>7, <1>8, <1>9, <1>10

LEMMA RelEnterCarries ==
    ASSUME NEW k, NEW back, NEW lost, Ready(k, lost), NumberOf(k.o) # {}
    PROVE  Carries(k, RelEnter(k), back, lost)
<1> PICK x : x = (CHOOSE y \in NumberOf(k.o) : TRUE)
  OBVIOUS
<1> PICK n : n = [k EXCEPT !.number = x]
  OBVIOUS
<1>0. x \in 0 .. Cap
  BY CipherAssumption DEF NumberOf, Numbers
<1>1. n.number = x /\ DOMAIN n = Fields
  BY DEF Ready, Row, Fields
<1>2. \A f \in Fields \ {"number"} : n[f] = k[f]
  BY DEF Ready, Row, Fields
<1>3. Row(n)
  BY <1>0, <1>1, <1>2 DEF Row, Ready, Fields
<1>4. Goes(k, n) /\ n.kind = k.kind
  BY <1>2 DEF Goes, Fields
<1>5. Ready(n, lost)
  BY <1>3, <1>4, ReadyStill DEF Ready
<1>6. Returns(n, "rel_read", back)
  BY DEF Returns, Onward, CasCalls, Inserts, VoidCalls, Fits, Selling, Reversing, Bare, SyncCalls, ListCalls, Special
<1>7. Carries(n, Go(n, "rel_read"), back, lost) /\ Carries(n, RelOrder(n), back, lost)
  BY <1>5, <1>6, GoCarries, RelOrderCarries
<1>8. RelEnter(k) \in {Go(n, "rel_read"), RelOrder(n)}
  BY DEF RelEnter
<1> QED
  BY <1>4, <1>7, <1>8, CarriesTwice

\* Where a reversal ends
LEMMA ThenReturns ==
    ASSUME NEW k, NEW back, Row(k)
    PROVE  Returns(k, k.then, back)
BY DEF Row, Returns, Onward, CasCalls, Inserts, VoidCalls, Fits, Selling, Reversing, Bare, SyncCalls, ListCalls, Special

LEMMA MirrorCarries ==
    ASSUME NEW k, NEW back, NEW lost, Ready(k, lost)
    PROVE  Carries(k, Mirror(k), back, lost)
<1> PICK n : n = Done(k)
  OBVIOUS
<1> PICK p : p = [n EXCEPT !.ret = k.then]
  OBVIOUS
<1>1. Carries(k, n, back, lost)
  BY DoneCarries
<1>2. Row(n) /\ n.then = k.then
  BY <1>1 DEF Carries, Ready, Row, Done, Fields
<1>3. p.ret = k.then /\ DOMAIN p = Fields
  BY <1>2 DEF Row, Fields
<1>4. \A f \in Fields \ {"ret"} : p[f] = n[f]
  BY <1>2 DEF Row, Fields
<1>5. Row(p)
  BY <1>2, <1>3, <1>4 DEF Row, Fields
<1>6. Goes(n, p) /\ p.kind = n.kind /\ p.then = k.then
  BY <1>2, <1>4 DEF Goes, Fields
<1>7. Ready(p, lost) /\ Goes(k, p)
  BY <1>1, <1>5, <1>6, ReadyStill DEF Carries, Ready, Goes
<1>8. Returns(p, k.then, back)
  BY <1>5, <1>6, ThenReturns
<1>9. k.then # "sync_read"
  BY DEF Ready, Row
<1>10. Carries(p, Listing(p, Disputed(k.c), "sync_read", k.then), back, lost)
  BY <1>3, <1>7, <1>8, <1>9, ListingCarries DEF Beyond
<1>11. Mirror(k) \in {n, Listing(p, Disputed(k.c), "sync_read", k.then)}
  BY DEF Mirror
<1> QED
  BY <1>1, <1>7, <1>10, <1>11, CarriesTwice

\* reverse_locked
LEMMA ReverseStartCarries ==
    ASSUME NEW k, NEW back, NEW lost, NEW kind \in Kinds, NEW d, d \subseteq Disputes, NEW full,
           Ready(k, lost), kind = "DisputeLost" => k.o \in lost
    PROVE  Carries(k, ReverseStart(k, kind, d, full), back, lost)
<1> PICK n : n = [k EXCEPT !.kind = kind, !.d = d, !.full = full]
  OBVIOUS
<1>1. n.kind = kind /\ n.d = d /\ DOMAIN n = Fields
  BY DEF Ready, Row, Fields
<1>2. \A f \in Fields \ {"kind", "d", "full"} : n[f] = k[f]
  BY DEF Ready, Row, Fields
<1>3. Row(n)
  BY <1>1, <1>2 DEF Row, Ready, Fields
<1>4. Goes(k, n)
  BY <1>2 DEF Goes, Fields
<1>5. Ready(n, lost)
  BY <1>1, <1>3, <1>4, ReadyStill
<1>6. Returns(n, "lar_read", back)
  BY DEF Returns, Onward, CasCalls, Inserts, VoidCalls, Fits, Selling, Reversing, Bare, SyncCalls, ListCalls, Special
<1>7. k.c.state = "Fulfilled" => Returns(n, "rev_record", back)
  BY <1>4 DEF Goes, Returns, Onward, CasCalls, Inserts, VoidCalls, Fits, Selling, Reversing, Bare, SyncCalls, ListCalls, Special
<1>8. k.c.state \in BeforeFulfilment => Returns(n, "rec_write", back)
  BY <1>4 DEF Goes, Returns, Onward, CasCalls, Inserts, VoidCalls, Fits, Selling, Reversing, Bare, SyncCalls, ListCalls, Special
<1>9. k.c.state \in OrderState
  BY DEF Ready, Row, StoredOrder
<1>10. k.c.state \notin {"Voided", "Refunded", "Fulfilled"} => k.c.state \in BeforeFulfilment
  BY <1>9 DEF OrderState, BeforeFulfilment, Unpaid
<1>11. k.c.state = "Fulfilled" =>
          Carries(n, Go(n, "rev_record"), back, lost) /\ Carries(n, AfterRecord(n), back, lost)
  BY <1>4, <1>5, <1>7, GoCarries, AfterRecordCarries DEF Goes
<1>12. k.c.state \in BeforeFulfilment => Carries(n, Go(n, "rec_write"), back, lost)
  BY <1>5, <1>8, GoCarries
<1>13. /\ Carries(n, Go(n, "lar_read"), back, lost) /\ Carries(n, Done(n), back, lost)
       /\ Carries(n, Mirror(n), back, lost)
  BY <1>5, <1>6, GoCarries, DoneCarries, MirrorCarries
<1> PICK r : r = ReverseStart(k, kind, d, full)
  OBVIOUS
<1>14. \/ r \in {Go(n, "lar_read"), Done(n), Mirror(n)}
       \/ k.c.state = "Fulfilled" /\ r \in {Go(n, "rev_record"), AfterRecord(n)}
       \/ k.c.state \in BeforeFulfilment /\ r = Go(n, "rec_write")
  BY <1>10 DEF ReverseStart
<1>15. Carries(n, r, back, lost)
  BY <1>11, <1>12, <1>13, <1>14
<1> QED
  BY <1>4, <1>15, CarriesTwice

-----------------------------------------------------------------------------
\* Fulfilment

\* void_paid
LEMMA VoidStartCarries ==
    ASSUME NEW k, NEW back, NEW lost, NEW reason \in VoidReasons \ {"None"}, Ready(k, lost),
           k.c.state = "Paid"
    PROVE  Carries(k, VoidStart(k, reason), back, lost)
<1> PICK n : n = [k EXCEPT !.reason = reason, !.prev = k.c.reason, !.m = NoMember, !.number = 0]
  OBVIOUS
<1>1. n.reason = reason /\ n.prev = k.c.reason /\ n.m = NoMember /\ n.number = 0 /\ DOMAIN n = Fields
  BY DEF Ready, Row, Fields
<1>2. \A f \in Fields \ {"reason", "prev", "m", "number"} : n[f] = k[f]
  BY DEF Ready, Row, Fields
<1>3. Row(n)
  BY <1>1, <1>2, NoMemberType, CipherAssumption DEF Row, Ready, Fields, StoredOrder
<1>4. Goes(k, n) /\ n.kind = k.kind
  BY <1>2 DEF Goes, Fields
<1>5. Ready(n, lost)
  BY <1>3, <1>4, ReadyStill DEF Ready
<1>6. k.c.pending = "DisputeLost" => Returns(n, "void_write", back)
  BY <1>1, <1>4 DEF Goes, Returns, Onward, CasCalls, Inserts, VoidCalls, Fits, Selling, Reversing, Bare, SyncCalls, ListCalls, Special
<1>7. k.c.pending # "DisputeLost" /\ k.c.open = {} =>
        Onward(n, "void_mark", back) /\ (k.c.reason = reason => Onward(n, "void_refund", back))
  BY <1>1, <1>4 DEF Goes, Onward, Fits, Selling, Reversing, Bare, SyncCalls, ListCalls, Special,
                    Disputed, IsDisputed, View
<1>8. Carries(n, Stop(n), back, lost)
  BY <1>5, StopCarries
<1>9. n.prev = n.c.reason
  BY <1>1, <1>4 DEF Goes
<1>10. Carries(n, VoidStart(k, reason), back, lost)
  BY <1>5, <1>6, <1>7, <1>8, <1>9, GoCarries, GoVoidCarries DEF VoidStart, VoidCalls
<1> QED
  BY <1>4, <1>10, CarriesTwice

LEMMA VoidDeletedCarries ==
    ASSUME NEW k, NEW back, NEW lost, Ready(k, lost), k.c.state = "Paid"
    PROVE  Carries(k, VoidDeleted(k), back, lost)
<1>1. Returns(k, "del_read", back)
  BY DEF Returns, Onward, CasCalls, Inserts, VoidCalls, Fits, Selling, Reversing, Bare, SyncCalls, ListCalls, Special
<1> QED
  BY <1>1, GoCarries DEF VoidDeleted

LEMMA FulfilPaidCarries ==
    ASSUME NEW k, NEW back, NEW lost, Ready(k, lost), k.c.state = "Paid"
    PROVE  Carries(k, FulfilPaid(k), back, lost)
<1>1. k.c.reason = "None" => Returns(k, "judge", back)
  BY DEF Returns, Onward, CasCalls, Inserts, VoidCalls, Fits, Selling, Reversing, Bare, SyncCalls, ListCalls, Special
<1>2. k.c.reason \in VoidReasons
  BY DEF Ready, Row, StoredOrder
<1> QED
  BY <1>1, <1>2, GoCarries, VoidStartCarries, VoidDeletedCarries DEF FulfilPaid

LEMMA ReversePendingCarries ==
    ASSUME NEW k, NEW back, NEW lost, Ready(k, lost)
    PROVE  Carries(k, ReversePending(k), back, lost)
<1>1. k.c.pending \in Reversal
  BY DEF Ready, Row, StoredOrder
<1>2. CASE k.c.pending = "None"
  BY <1>2, StopCarries DEF ReversePending
<1>3. CASE k.c.pending # "None"
  <2>1. k.c.pending \in Kinds
    BY <1>1, <1>3 DEF Reversal, Kinds
  <2>2. k.c.pending = "DisputeLost" => k.o \in lost
    BY DEF Ready
  <2>3. Carries(k, ReverseStart(k, k.c.pending, {}, FALSE), back, lost)
    BY <2>1, <2>2, ReverseStartCarries
  <2> QED
    BY <1>3, <2>3 DEF ReversePending
<1> QED
  BY <1>2, <1>3

LEMMA FinishFulfilledCarries ==
    ASSUME NEW k, NEW back, NEW lost, Ready(k, lost)
    PROVE  Carries(k, FinishFulfilled(k), back, lost)
<1> PICK n : n = [k EXCEPT !.ret = "finish"]
  OBVIOUS
<1>1. n.ret = "finish" /\ DOMAIN n = Fields
  BY DEF Ready, Row, Fields
<1>2. \A f \in Fields \ {"ret"} : n[f] = k[f]
  BY DEF Ready, Row, Fields
<1>3. Row(n)
  BY <1>1, <1>2 DEF Row, Ready, Fields
<1>4. Goes(k, n) /\ n.kind = k.kind
  BY <1>2 DEF Goes, Fields
<1>5. Ready(n, lost)
  BY <1>3, <1>4, ReadyStill DEF Ready
<1>6. Returns(n, "finish", back) /\ Returns(k, "finish", back)
  BY DEF Returns, Onward, CasCalls, Inserts, VoidCalls, Fits, Selling, Reversing, Bare, SyncCalls, ListCalls, Special
<1>7. Carries(n, Listing(n, TRUE, "sync_read", "sync_read"), back, lost)
  BY <1>1, <1>5, <1>6, ListingCarries DEF Beyond
<1>8. Carries(k, Listing(n, TRUE, "sync_read", "sync_read"), back, lost)
  BY <1>4, <1>7, CarriesTwice
<1> QED
  BY <1>6, <1>8, SyncCarries, ReversePendingCarries DEF FinishFulfilled

LEMMA LatePaymentCarries ==
    ASSUME NEW k, NEW back, NEW lost, Ready(k, lost), k.c.state = "Voided", k.task # "delete"
    PROVE  Carries(k, LatePayment(k), back, lost)
<1>1. ~k.c.intent /\ Disputed(k.c) => Returns(k, "late_paid", back)
  BY DEF Returns, Onward, CasCalls, Inserts, VoidCalls, Fits, Selling, Reversing, Bare, SyncCalls, ListCalls, Special
<1>2. ~k.c.intent /\ ~Disputed(k.c) => Returns(k, "late_refund", back)
  BY DEF Returns, Onward, CasCalls, Inserts, VoidCalls, Fits, Selling, Reversing, Bare, SyncCalls, ListCalls, Special
<1> QED
  BY <1>1, <1>2, GoCarries, StopCarries DEF LatePayment

\* fulfil_locked
LEMMA FulfilStartCarries ==
    ASSUME NEW k, NEW back, NEW lost, Ready(k, lost), k.task # "delete"
    PROVE  Carries(k, FulfilStart(k), back, lost)
<1>1. k.c.state \in OrderState
  BY DEF Ready, Row, StoredOrder
<1>2. k.c.state \notin {"Fulfilled", "Refunded", "Voided", "Paid"} => Returns(k, "paid", back)
  BY <1>1 DEF Returns, Onward, CasCalls, Inserts, VoidCalls, Fits, Selling, Reversing, Bare, SyncCalls, ListCalls, Special, OrderState, Unpaid
<1> QED
  BY <1>2, GoCarries, StopCarries, FinishFulfilledCarries, LatePaymentCarries, FulfilPaidCarries
     DEF FulfilStart

LEMMA RecheckStartCarries ==
    ASSUME NEW k, NEW back, NEW lost, Ready(k, lost), k.task # "delete"
    PROVE  Carries(k, RecheckStart(k), back, lost)
<1> PICK n : n = RecheckStart(k)
  OBVIOUS
<1>1. n.pc = "recheck" /\ n.then = "recheck" /\ n.todo = k.c.open /\ DOMAIN n = Fields
  BY DEF Ready, Row, Fields, RecheckStart
<1>2. \A f \in Fields \ {"pc", "then", "todo"} : n[f] = k[f]
  BY DEF Ready, Row, Fields, RecheckStart
<1>3. Row(n)
  BY <1>1, <1>2 DEF Row, Ready, Fields, StoredOrder
<1>4. Goes(k, n) /\ n.kind = k.kind
  BY <1>2 DEF Goes, Fields
<1>5. Returns(n, n.pc, back)
  BY <1>1, <1>4 DEF Goes, Returns, Onward, CasCalls, Inserts, VoidCalls, Fits, Selling, Reversing, Bare, SyncCalls, ListCalls, Special
<1> QED
  BY <1>3, <1>4, <1>5, CarriesOn DEF VoidCalls, Returns, Ready

LEMMA ResumeStartCarries ==
    ASSUME NEW k, NEW back, NEW lost, Ready(k, lost), k.task # "delete"
    PROVE  Carries(k, ResumeStart(k), back, lost)
BY RecheckStartCarries, FulfilStartCarries DEF ResumeStart

LEMMA PublishingCarries ==
    ASSUME NEW k, NEW back, NEW lost, Ready(k, lost), k.c.state = "Paid", k.c.reason = "None"
    PROVE  Carries(k, Publishing(k), back, lost)
<1> PICK n : n = Publishing(k)
  OBVIOUS
<1>1. n.pc = "publish" /\ n.number = 0 /\ n.m = NoMember /\ DOMAIN n = Fields
  BY DEF Ready, Row, Fields, Publishing
<1>2. \A f \in Fields \ {"pc", "number", "m"} : n[f] = k[f]
  BY DEF Ready, Row, Fields, Publishing
<1>3. Row(n)
  BY <1>1, <1>2, NoMemberType, CipherAssumption DEF Row, Ready, Fields
<1>4. Goes(k, n) /\ n.kind = k.kind
  BY <1>2 DEF Goes, Fields
<1>5. Returns(n, n.pc, back)
  BY <1>1, <1>4 DEF Goes, Returns, Onward, CasCalls, Inserts, VoidCalls, Fits, Selling, Reversing, Bare, SyncCalls, ListCalls, Special
<1> QED
  BY <1>3, <1>4, <1>5, CarriesOn DEF VoidCalls, Returns, Ready

\* A membership is read on the way
LEMMA ReadingCarries ==
    ASSUME NEW k, NEW back, NEW lost, NEW pc, NEW m \in Membership, Ready(k, lost), Returns(k, pc, back)
    PROVE  Carries(k, [k EXCEPT !.pc = pc, !.m = m], back, lost)
<1> PICK n : n = [k EXCEPT !.pc = pc, !.m = m]
  OBVIOUS
<1>1. n.pc = pc /\ n.m = m /\ DOMAIN n = Fields
  BY DEF Ready, Row, Fields
<1>2. \A f \in Fields \ {"pc", "m"} : n[f] = k[f]
  BY DEF Ready, Row, Fields
<1>3. Row(n)
  BY <1>1, <1>2 DEF Row, Ready, Fields, Returns, Onward, Special
<1>4. Goes(k, n) /\ n.kind = k.kind /\ n.reason = k.reason
  BY <1>2 DEF Goes, Fields
<1>5. Returns(n, n.pc, back)
  BY <1>1, <1>4 DEF Returns, Onward, CasCalls, Inserts, VoidCalls, Goes
<1> QED
  BY <1>3, <1>4, <1>5, CarriesOn DEF VoidCalls, Returns, Ready

\* Only the fence goes: another worker took the lease, or the order was unlinked
LEMMA UnfencedFine ==
    ASSUME NEW k, NEW back, NEW lost, Fine(k, back, lost)
    PROVE  LET n == [k EXCEPT !.mine = FALSE] IN
           /\ Fine(n, back, lost) /\ ~n.mine
           /\ n.pc = k.pc /\ n.o = k.o /\ n.c = k.c /\ n.up = k.up
<1> PICK n : n = [k EXCEPT !.mine = FALSE]
  OBVIOUS
<1>1. n.mine = FALSE /\ DOMAIN n = Fields
  BY DEF Fine, Row, Fields
<1>2. \A f \in Fields \ {"mine"} : n[f] = k[f]
  BY DEF Fine, Row, Fields
<1>3. Row(n)
  BY <1>1, <1>2 DEF Row, Fine, Fields
<1>4. /\ n.pc = k.pc /\ n.o = k.o /\ n.c = k.c /\ n.up = k.up /\ n.kind = k.kind /\ n.reason = k.reason
      /\ n.task = k.task /\ n.ret = k.ret /\ n.found = k.found /\ n.missing = k.missing
  BY <1>2 DEF Fields
<1>5. Ready(k, lost) => Ready(n, lost)
  BY <1>3, <1>4 DEF Ready
<1>6. Placed(k, back) => Placed(n, back)
  BY <1>4 DEF Placed, Returns, Onward, CasCalls, Inserts, VoidCalls
<1>7. Fine(n, back, lost)
  BY <1>1, <1>3, <1>4, <1>5, <1>6 DEF Fine
<1> QED
  BY <1>1, <1>4, <1>7

\* More money back, another dispute lost: what a worker relies on stays
LEMMA FineGrows ==
    ASSUME NEW k, NEW back, NEW more, NEW lost, NEW worse, back \subseteq more, lost \subseteq worse,
           Fine(k, back, lost)
    PROVE  Fine(k, more, worse)
<1>1. \A pc : Fits(k.o, k.c, k.task, k.reason, pc, back) => Fits(k.o, k.c, k.task, k.reason, pc, more)
  BY DEF Fits
<1>2. \A pc : Returns(k, pc, back) => Returns(k, pc, more)
  BY <1>1 DEF Returns, Onward, CasCalls, Inserts, VoidCalls
<1>3. Placed(k, back) => Placed(k, more)
  BY <1>1, <1>2 DEF Placed
<1>4. Ready(k, lost) => Ready(k, worse)
  BY DEF Ready
<1> QED
  BY <1>3, <1>4 DEF Fine

\* The next record of a worker k that has stored x
Stores(k, x, n, back, lost) ==
    /\ Ready(n, lost) /\ Placed(n, back) /\ n.pc \notin Special
    /\ n.o = k.o /\ n.c = x /\ n.mine = k.mine
    /\ Opens(n) => ~Voiding(k.c)

\* What comes next was planned with x already
LEMMA StoresPlanned ==
    ASSUME NEW k, NEW h, NEW x, NEW next, NEW back, NEW lost, h.o = k.o, h.mine = k.mine, h.c = x,
           Carries(h, next, back, lost)
    PROVE  Stores(k, x, [next EXCEPT !.c = x], back, lost)
<1> PICK n : n = [next EXCEPT !.c = x]
  OBVIOUS
<1>1. next.c = x /\ Row(next) /\ next.o = k.o /\ next.mine = k.mine
  BY DEF Carries, Goes, Ready
<1>2. DOMAIN n = Fields /\ n.c = x
  BY <1>1 DEF Row, Fields
<1>3. \A f \in Fields : n[f] = next[f]
  BY <1>1 DEF Row, Fields
<1>4. Row(n)
  BY <1>1, <1>2, <1>3 DEF Row, Fields
<1>5. /\ n.pc = next.pc /\ n.o = next.o /\ n.c = next.c /\ n.kind = next.kind /\ n.reason = next.reason
      /\ n.task = next.task /\ n.ret = next.ret /\ n.found = next.found /\ n.missing = next.missing
      /\ n.mine = next.mine /\ n.prev = next.prev
  BY <1>3 DEF Fields
<1>6. Ready(n, lost) /\ ~Opens(n)
  BY <1>4, <1>5 DEF Ready, Carries, Opens
<1>7. Placed(n, back) /\ n.pc \notin Special
  BY <1>5 DEF Placed, Returns, Onward, CasCalls, Inserts, VoidCalls, Carries
<1> QED
  BY <1>1, <1>5, <1>6, <1>7 DEF Stores

\* What comes next was planned with the copy as it was, and fits x too
LEMMA StoresNew ==
    ASSUME NEW k, NEW x \in StoredOrder, NEW next, NEW back, NEW lost, Carries(k, next, back, lost),
           x.state # "Absent", x.pending = "DisputeLost" => k.o \in lost,
           Fits(k.o, x, k.task, next.reason, next.pc, back),
           next.pc \notin SyncCalls \cup ListCalls \cup VoidCalls
    PROVE  Stores(k, x, [next EXCEPT !.c = x], back, lost)
<1> PICK n : n = [next EXCEPT !.c = x]
  OBVIOUS
<1>1. Row(next) /\ next.o = k.o /\ next.mine = k.mine /\ next.task = k.task /\ next.pc \notin Bare \cup Special
  BY DEF Carries, Goes, Ready, Placed
<1>2. DOMAIN n = Fields /\ n.c = x
  BY <1>1 DEF Row, Fields
<1>3. \A f \in Fields \ {"c"} : n[f] = next[f]
  BY <1>1 DEF Row, Fields
<1>4. Row(n)
  BY <1>1, <1>2, <1>3 DEF Row, Fields
<1>5. /\ n.pc = next.pc /\ n.o = next.o /\ n.kind = next.kind /\ n.reason = next.reason
      /\ n.task = next.task /\ n.mine = next.mine /\ n.m = next.m /\ n.number = next.number
  BY <1>3 DEF Fields
<1>6. Ready(n, lost) /\ ~Opens(n)
  BY <1>1, <1>2, <1>4, <1>5 DEF Ready, Carries, Opens, Special, VoidCalls
<1>7. Placed(n, back)
  BY <1>1, <1>2, <1>5 DEF Placed, Carries, VoidCalls
<1> QED
  BY <1>1, <1>2, <1>5, <1>6, <1>7 DEF Stores

-----------------------------------------------------------------------------
\* Steps

\* What a step is to show: the invariant, the order's life cycle, and that no void is paid
\* back during a dispute
Life ==
    \A o \in Orders : orders'[o] # orders[o] =>
         \/ orders[o].state = "Absent" /\ View(orders'[o]) = NewOrder
         \/ orders[o].state # "Absent"
            /\ \/ Change(View(orders[o]), View(orders'[o]))
               \/ Unlink(View(orders[o]), View(orders'[o]))
Unpaired == ~course.stalls => \A o \in Orders : ~stripe[o].void /\ stripe'[o].void => ~Disputed(orders[o])
Keeps == Inv' /\ Life /\ Unpaired

Others == members \in [Users -> Membership] /\ numbers \in [Numbers -> NumberRow]
          /\ badge \in [Users -> Badge] /\ deleted \subseteq Users

\* A fence is on an order
LEMMA FencedOrder ==
    ASSUME NEW w, WorkInv(w), wk[w].mine
    PROVE  wk[w].o \in Orders
BY DEF WorkInv, Fine, Ready

\* A worker goes on, its order as it was
LEMMA StepKeeps ==
    ASSUME Inv, NEW w \in Workers, NEW n, wk[w].pc \notin Bare, Step(w, n),
           UNCHANGED <<orders, lease, stripe, course>>, Others',
           Carries(wk[w], n, AllBack, AllLost)
    PROVE  Keeps
<1> PICK k : k = wk[w]
  OBVIOUS
<1>1. wk' = [wk EXCEPT ![w] = n] /\ DOMAIN wk = Workers
  BY DEF Step, Inv, Tables
<1>2. wk'[w] = n /\ \A v \in Workers \ {w} : wk'[v] = wk[v]
  BY <1>1
<1>3. Goes(k, n) /\ n.pc \notin Bare \cup Special /\ Ready(n, AllLost) /\ Placed(n, AllBack) /\ ~Opens(n)
  BY DEF Carries, Placed
<1>4. AllBack' = AllBack /\ AllLost' = AllLost
  BY DEF RefundTaken, Lost, AllBack, AllLost
<1>5. Tables'
  BY <1>1 DEF Tables, Inv, Others
<1>10. \A o \in Orders : Marked(o)' => Marked(o)
  BY <1>2, <1>3 DEF Marked, Goes
<1>6. \A o \in Orders : OrderInv(o)'
  BY <1>10 DEF OrderInv, Sound, Inv, Lost, RefundTaken
<1>7. WorkInv(w)'
  <2>1. WorkInv(w)
    BY DEF Inv
  <2>2. Fine(n, AllBack', AllLost')
    BY <1>3, <1>4 DEF Fine, Ready
  <2>3. Tied(w)'
    BY <1>2, <1>3, <2>1 DEF WorkInv, Tied, Goes, Special
  <2>4. MineInv(w)' /\ OpenInv(w)'
    BY <1>2, <1>3, <2>1 DEF WorkInv, MineInv, OpenInv, Goes
  <2>5. UpInv(w)' /\ CreateInv(w)'
    BY <1>2, <1>3 DEF UpInv, CreateInv, Special, Bare
  <2> QED
    BY <1>2, <2>2, <2>3, <2>4, <2>5 DEF WorkInv
<1>8. ASSUME NEW v \in Workers \ {w} PROVE WorkInv(v)'
  <2>1. WorkInv(v) /\ wk'[v] = wk[v]
    BY <1>2 DEF Inv
  <2>2. Fine(wk'[v], AllBack', AllLost')
    BY <1>4, <2>1 DEF WorkInv
  <2>3. Tied(v)' /\ UpInv(v)'
    BY <2>1 DEF WorkInv, Tied, UpInv
  <2>4. MineInv(v)' /\ OpenInv(v)'
    BY <1>2, <1>3, <1>10, <2>1, FencedOrder DEF WorkInv, MineInv, OpenInv, Goes
  <2>5. CreateInv(v)'
    BY <1>2, <1>3, <2>1 DEF WorkInv, CreateInv, Bare
  <2> QED
    BY <2>2, <2>3, <2>4, <2>5 DEF WorkInv
<1>9. Life /\ Unpaired
  BY DEF Life, Unpaired
<1> QED
  BY <1>5, <1>6, <1>7, <1>8, <1>9 DEF Keeps, Inv

\* Sessions apart, Stripe is as it was
SameMoney ==
    /\ stripe' \in [Orders -> StripeOrder]
    /\ AllBack' = AllBack /\ AllLost' = AllLost
    /\ \A o \in Orders : stripe'[o].void = stripe[o].void

LEMMA NoMoney == Inv /\ UNCHANGED stripe => SameMoney
BY DEF SameMoney, AllBack, AllLost, RefundTaken, Lost, Inv, Tables

LEMMA SoundStill ==
    ASSUME SameMoney, NEW o \in Orders, Marked(o)' => Marked(o) \/ Voiding(orders'[o]), Sound(o, orders'[o])
    PROVE  OrderInv(o)'
<1>1. (RefundTaken(o)' <=> RefundTaken(o)) /\ (Lost(o)' <=> Lost(o))
  BY DEF SameMoney, AllBack, AllLost
<1> QED
  BY <1>1 DEF Sound, OrderInv

\* Workers lose their fences, and keep their copies
LEMMA FencesLost ==
    ASSUME Inv, NEW p \in Orders, stripe'[p].void = stripe[p].void,
           \A v \in Workers : Voiding(wk'[v].c) => wk'[v].o = wk[v].o /\ wk'[v].c = wk[v].c
    PROVE  /\ Marked(p)' => Marked(p) \/ Voiding(orders[p])
           /\ \A v \in Workers : wk[v].mine /\ wk'[v].mine /\ wk[v].o = p /\ Marked(p)' => Marked(p)
<1> SUFFICES ASSUME Marked(p)', ~Marked(p)
             PROVE  Voiding(orders[p]) /\ \A v \in Workers : ~(wk[v].mine /\ wk'[v].mine /\ wk[v].o = p)
  OBVIOUS
<1>1. PICK z \in Workers : wk'[z].o = p /\ ~wk'[z].mine /\ Voiding(wk'[z].c)
  BY DEF Marked
<1>2. wk[z].o = p /\ wk[z].c = wk'[z].c /\ wk[z].mine
  BY <1>1 DEF Marked
<1>3. MineInv(z)
  BY DEF Inv, WorkInv
<1> QED
  BY <1>1, <1>2, <1>3 DEF MineInv

\* A fenced write that is accepted
LEMMA StoreKeeps ==
    ASSUME Inv, NEW w \in Workers, NEW x \in StoredOrder, NEW n, wk[w].pc \notin Bare, wk[w].mine,
           orders' = [orders EXCEPT ![wk[w].o] = x], Step(w, n), SameMoney,
           UNCHANGED <<lease, members, numbers, badge, deleted, course>>,
           Stores(wk[w], x, n, AllBack, AllLost), Sound(wk[w].o, x),
           wk[w].c.intent => x.intent, Change(View(wk[w].c), View(x))
    PROVE  Keeps
<1> PICK k : k = wk[w]
  OBVIOUS
<1> PICK o : o = k.o
  OBVIOUS
<1>0. WorkInv(w) /\ o \in Orders /\ orders[o] = k.c /\ k.c.state # "Absent"
  BY DEF Inv, WorkInv, MineInv, Fine, Ready
<1>1. wk' = [wk EXCEPT ![w] = n] /\ DOMAIN wk = Workers /\ orders \in [Orders -> StoredOrder]
  BY DEF Step, Inv, Tables
<1>2. wk'[w] = n /\ \A v \in Workers \ {w} : wk'[v] = wk[v]
  BY <1>1
<1>3. orders'[o] = x /\ \A p \in Orders \ {o} : orders'[p] = orders[p]
  BY <1>0, <1>1
<1>4. /\ n.pc \notin Bare \cup Special /\ Ready(n, AllLost) /\ Placed(n, AllBack) /\ n.o = o /\ n.c = x /\ n.mine
      /\ Opens(n) => ~Voiding(k.c)
  BY DEF Stores, Placed
<1>5. Tables'
  BY <1>0, <1>1 DEF Tables, Inv, SameMoney
<1>10. \A p \in Orders : Marked(p)' => Marked(p)
  BY <1>2, <1>4 DEF Marked, SameMoney
<1>6. ASSUME NEW p \in Orders PROVE OrderInv(p)'
  <2>1. Sound(p, orders'[p])
    BY <1>3 DEF Inv, OrderInv
  <2> QED
    BY <1>10, <2>1, SoundStill
<1>7. WorkInv(w)'
  <2>1. Fine(n, AllBack', AllLost')
    BY <1>4 DEF Fine, Ready, SameMoney
  <2>2. Tied(w)'
    <3>1. lease[o] = w \/ course.stalls
      BY <1>0 DEF WorkInv, Tied
    <3>2. x = [x EXCEPT !.linked = x.linked]
      BY DEF StoredOrder
    <3> QED
      BY <1>2, <1>3, <1>4, <3>1, <3>2 DEF Tied, Special
  <2>3. MineInv(w)'
    BY <1>0, <1>2, <1>3, <1>4 DEF WorkInv, MineInv
  <2>4. UpInv(w)' /\ CreateInv(w)'
    BY <1>2, <1>4 DEF UpInv, CreateInv, Special, Bare
  <2>5. OpenInv(w)'
    <3>1. Marked(o) => Voiding(k.c)
      BY <1>0 DEF Inv, OrderInv, Sound
    <3> QED
      BY <1>0, <1>2, <1>4, <1>10, <3>1 DEF OpenInv
  <2> QED
    BY <1>2, <2>1, <2>2, <2>3, <2>4, <2>5 DEF WorkInv
<1>8. ASSUME NEW v \in Workers \ {w} PROVE WorkInv(v)'
  <2>1. WorkInv(v) /\ wk'[v] = wk[v]
    BY <1>2 DEF Inv
  <2>2. Fine(wk'[v], AllBack', AllLost')
    BY <2>1 DEF WorkInv, SameMoney
  <2>3. Row(wk[v]) /\ (wk[v].pc \notin Bare => wk[v].o \in Orders) /\ (wk[v].pc = "create" => wk[v].o \in Orders)
    BY <2>1 DEF WorkInv, Fine, Ready
  <2>4. Tied(v)'
    <3>1. ~course.stalls /\ wk[v].pc \notin Bare => wk[v].o # o
      BY <1>0, <2>1 DEF WorkInv, Tied
    <3> QED
      BY <1>3, <2>1, <2>3, <3>1 DEF WorkInv, Tied, SameMoney
  <2>5. UpInv(v)'
    BY <1>0, <1>3, <2>1, <2>3 DEF WorkInv, UpInv, Row
  <2>6. MineInv(v)'
    <3>1. wk[v].mine => wk[v].o # o /\ wk[v].o \in Orders
      BY <1>0, <2>1, <2>3 DEF WorkInv, MineInv, Fine
    <3> QED
      BY <1>2, <1>3, <1>4, <2>1, <3>1 DEF WorkInv, MineInv
  <2>7. CreateInv(v)'
    <3>1. wk[v].pc = "create" => wk[v].o # o
      BY <1>0, <2>1 DEF WorkInv, CreateInv
    <3> QED
      BY <1>2, <1>3, <1>4, <2>1, <2>3, <3>1 DEF WorkInv, CreateInv, Bare
  <2>8. OpenInv(v)'
    BY <1>10, <2>1, FencedOrder DEF WorkInv, OpenInv
  <2> QED
    BY <2>2, <2>4, <2>5, <2>6, <2>7, <2>8 DEF WorkInv
<1>9. Life /\ Unpaired
  BY <1>0, <1>3 DEF Life, Unpaired, SameMoney
<1> QED
  BY <1>5, <1>6, <1>7, <1>8, <1>9 DEF Keeps, Inv


\* A lease is taken: whoever else has the order loses its fence
LEMMA StartKeeps ==
    ASSUME Inv, NEW w \in Workers, NEW o \in Orders, NEW h, NEW k, wk[w].pc \in Bare, TakeLease(w, o, k),
           UNCHANGED <<orders, members, numbers, badge, deleted, stripe, course>>,
           h.o = o, h.c = orders[o], h.mine = TRUE, Carries(h, k, AllBack, AllLost)
    PROVE  Keeps
<1>1. /\ lease[o] = Free /\ lease' = [lease EXCEPT ![o] = w] /\ lease \in [Orders -> Workers \cup {Free}]
      /\ wk' = [v \in Workers |-> IF v = w THEN k ELSE Outdated(wk[v], o)]
  BY DEF TakeLease, Inv, Tables
<1>2. /\ k.pc \notin Bare \cup Special /\ Ready(k, AllLost) /\ Placed(k, AllBack) /\ k.o = o /\ k.c = orders[o] /\ k.mine
      /\ ~Opens(k)
  BY DEF Carries, Placed, Goes
<1>3. wk'[w] = k /\ lease'[o] = w /\ \A p \in Orders \ {o} : lease'[p] = lease[p]
  BY <1>1
<1>4. ASSUME NEW v \in Workers \ {w}
      PROVE  /\ Fine(wk[v], AllBack, AllLost) => Fine(wk'[v], AllBack, AllLost)
             /\ wk[v].o # o => wk'[v] = wk[v]
             /\ Fine(wk[v], AllBack, AllLost) =>
                  /\ wk'[v].pc = wk[v].pc /\ wk'[v].o = wk[v].o /\ wk'[v].c = wk[v].c /\ wk'[v].up = wk[v].up
                  /\ wk[v].o = o => ~wk'[v].mine
                  /\ Opens(wk'[v]) = Opens(wk[v])
  <2>1. wk'[v] = IF wk[v].o = o THEN [wk[v] EXCEPT !.mine = FALSE] ELSE wk[v]
    BY <1>1 DEF Outdated
  <2> QED
    BY <2>1, UnfencedFine DEF Opens
<1>5. AllBack' = AllBack /\ AllLost' = AllLost
  BY DEF RefundTaken, Lost, AllBack, AllLost
<1>6. Tables'
  BY <1>1 DEF Tables, Inv
<1>11. \A p \in Orders : Marked(p)' => Marked(p) \/ (p = o /\ Voiding(orders[o]))
  <2> SUFFICES ASSUME NEW p \in Orders, Marked(p)', ~Marked(p) PROVE p = o /\ Voiding(orders[o])
    OBVIOUS
  <2>1. PICK v \in Workers : wk'[v].o = p /\ ~wk'[v].mine /\ Voiding(wk'[v].c)
    BY DEF Marked
  <2>2. v # w /\ WorkInv(v) /\ Fine(wk[v], AllBack, AllLost)
    BY <1>2, <1>3, <2>1 DEF Inv, WorkInv
  <2>3. wk'[v].o = wk[v].o /\ wk'[v].c = wk[v].c /\ (wk[v].o # o => wk'[v] = wk[v])
    BY <1>4, <2>2
  <2>4. wk[v].mine /\ wk[v].o = o
    BY <2>1, <2>3 DEF Marked
  <2>5. orders[o] = wk[v].c
    BY <2>2, <2>4 DEF WorkInv, MineInv
  <2> QED
    BY <2>1, <2>3, <2>4, <2>5
<1>7. \A p \in Orders : OrderInv(p)'
  BY <1>11 DEF OrderInv, Sound, Inv, Lost, RefundTaken
<1>8. WorkInv(w)'
  <2>1. Fine(k, AllBack', AllLost')
    BY <1>2, <1>5 DEF Fine, Ready
  <2>2. Tied(w)'
    <3>1. orders[o] = [k.c EXCEPT !.linked = orders[o].linked]
      BY <1>2 DEF Inv, Tables, StoredOrder
    <3> QED
      BY <1>2, <1>3, <3>1 DEF Tied, Special
  <2>3. MineInv(w)' /\ OpenInv(w)'
    BY <1>2, <1>3, <1>4 DEF MineInv, OpenInv, Inv, WorkInv
  <2>4. UpInv(w)' /\ CreateInv(w)'
    BY <1>2, <1>3 DEF UpInv, CreateInv, Special, Bare
  <2> QED
    BY <1>3, <2>1, <2>2, <2>3, <2>4 DEF WorkInv
<1>9. ASSUME NEW v \in Workers \ {w} PROVE WorkInv(v)'
  <2>1. WorkInv(v) /\ Fine(wk[v], AllBack, AllLost)
    BY DEF Inv, WorkInv
  <2>2. Fine(wk'[v], AllBack', AllLost')
    BY <1>4, <1>5, <2>1
  <2>3. /\ wk'[v].pc = wk[v].pc /\ wk'[v].o = wk[v].o /\ wk'[v].c = wk[v].c /\ wk'[v].up = wk[v].up
        /\ wk[v].pc \notin Bare => wk[v].o \in Orders
    BY <1>4, <2>1 DEF Fine, Ready
  <2>4. Tied(v)'
    <3>1. ~course.stalls /\ wk[v].pc \notin Bare => wk[v].o # o
      BY <1>1, <2>1, CipherAssumption DEF WorkInv, Tied
    <3> QED
      BY <1>3, <1>4, <2>1, <2>3, <3>1 DEF WorkInv, Tied
  <2>5. UpInv(v)'
    BY <2>1, <2>3 DEF WorkInv, UpInv
  <2>6. MineInv(v)'
    BY <1>2, <1>3, <1>4, <2>1, <2>3 DEF WorkInv, MineInv, Inv
  <2>7. CreateInv(v)'
    BY <1>2, <1>3, <1>4, <2>1, <2>3 DEF WorkInv, CreateInv, Inv, Bare
  <2>8. OpenInv(v)'
    BY <1>4, <1>11, <2>1, <2>3, FencedOrder DEF WorkInv, OpenInv
  <2> QED
    BY <2>2, <2>4, <2>5, <2>6, <2>7, <2>8 DEF WorkInv
<1>10. Life /\ Unpaired
  BY DEF Life, Unpaired
<1> QED
  BY <1>6, <1>7, <1>8, <1>9, <1>10 DEF Keeps, Inv

\* A worker has no order, or none any more
LEMMA BareKeeps ==
    ASSUME Inv, NEW w \in Workers, NEW n, Step(w, n), UNCHANGED <<orders, stripe, course>>, Others',
           lease' \in [Orders -> Workers \cup {Free}],
           \A p \in Orders : lease'[p] = lease[p] \/ lease[p] = w,
           Row(n), n.pc \in Bare, n.c = AbsentOrder, ~n.mine, n.pc # "idle" => n.o \in Orders,
           n.kind = "none", n.pc \in Deleting => n.task = "delete",
           n.pc = "create" => orders[n.o].state = "Absent" /\ \A v \in Workers : wk[v].o # n.o
    PROVE  Keeps
<1>1. wk' = [wk EXCEPT ![w] = n] /\ DOMAIN wk = Workers
  BY DEF Step, Inv, Tables
<1>2. wk'[w] = n /\ \A v \in Workers \ {w} : wk'[v] = wk[v]
  BY <1>1
<1>4. AllBack' = AllBack /\ AllLost' = AllLost
  BY DEF RefundTaken, Lost, AllBack, AllLost
<1>5. Tables'
  BY <1>1 DEF Tables, Inv, Others
<1>10. \A o \in Orders : Marked(o)' => Marked(o)
  BY <1>2 DEF Marked, Voiding, AbsentOrder
<1>6. \A o \in Orders : OrderInv(o)'
  BY <1>10 DEF OrderInv, Sound, Inv, Lost, RefundTaken
<1>7. WorkInv(w)'
  <2>2. Fine(n, AllBack', AllLost')
    BY DEF Fine
  <2>3. Tied(w)' /\ MineInv(w)' /\ OpenInv(w)' /\ UpInv(w)'
    BY <1>2 DEF Tied, MineInv, OpenInv, UpInv, Bare
  <2>5. CreateInv(w)'
    BY <1>2 DEF CreateInv
  <2> QED
    BY <1>2, <2>2, <2>3, <2>5 DEF WorkInv
<1>8. ASSUME NEW v \in Workers \ {w} PROVE WorkInv(v)'
  <2>1. WorkInv(v) /\ wk'[v] = wk[v]
    BY <1>2 DEF Inv
  <2>2. Fine(wk'[v], AllBack', AllLost')
    BY <1>4, <2>1 DEF WorkInv
  <2>3. Tied(v)' /\ UpInv(v)'
    BY <2>1 DEF WorkInv, Tied, UpInv, Fine, Ready
  <2>4. MineInv(v)' /\ OpenInv(v)'
    BY <1>2, <1>10, <2>1, FencedOrder DEF WorkInv, MineInv, OpenInv
  <2>5. CreateInv(v)'
    BY <1>2, <2>1 DEF WorkInv, CreateInv
  <2> QED
    BY <2>2, <2>3, <2>4, <2>5 DEF WorkInv
<1>9. Life /\ Unpaired
  BY DEF Life, Unpaired
<1> QED
  BY <1>5, <1>6, <1>7, <1>8, <1>9 DEF Keeps, Inv


\* Money moves at Stripe, nothing else
LEMMA MoneyKeeps ==
    ASSUME Inv, UNCHANGED <<orders, lease, members, numbers, badge, deleted, wk, course>>,
           stripe' \in [Orders -> StripeOrder], AllBack \subseteq AllBack', AllLost \subseteq AllLost',
           \A o \in Orders : stripe'[o].void = stripe[o].void
    PROVE  Keeps
<1>1. Tables'
  BY DEF Tables, Inv
<1>2. ASSUME NEW o \in Orders PROVE OrderInv(o)'
  <2>1. (RefundTaken(o) => RefundTaken(o)') /\ (Lost(o) => Lost(o)')
    BY DEF AllBack, AllLost
  <2>2. Marked(o)' => Marked(o)
    BY DEF Marked
  <2> QED
    BY <2>1, <2>2 DEF OrderInv, Sound, Inv
<1>3. ASSUME NEW v \in Workers PROVE WorkInv(v)'
  <2>1. WorkInv(v) /\ Fine(wk[v], AllBack, AllLost)
    BY DEF Inv, WorkInv
  <2>2. Fine(wk'[v], AllBack', AllLost')
    BY <2>1, FineGrows
  <2>3. Tied(v)' /\ MineInv(v)' /\ UpInv(v)' /\ CreateInv(v)'
    BY <2>1 DEF WorkInv, Tied, UpInv, MineInv, CreateInv, Fine, Ready
  <2>4. OpenInv(v)'
    BY <2>1, FencedOrder DEF WorkInv, OpenInv, Marked
  <2> QED
    BY <2>2, <2>3, <2>4 DEF WorkInv
<1>4. Life /\ Unpaired
  BY DEF Life, Unpaired
<1> QED
  BY <1>1, <1>2, <1>3, <1>4 DEF Keeps, Inv

\* A refund of the worker's, or a call with a condition on the tables
LEMMA PayKeeps ==
    ASSUME Inv, NEW w \in Workers, NEW n, wk[w].pc \notin Bare, Step(w, n),
           UNCHANGED <<orders, lease, members, numbers, badge, deleted, course>>,
           stripe' \in [Orders -> StripeOrder], AllBack \subseteq AllBack', AllLost \subseteq AllLost',
           Ready(n, AllLost'), Placed(n, AllBack'), Goes(wk[w], n),
           Opens(n) => Opens(wk[w]) /\ stripe'[n.o].void = stripe[n.o].void,
           n.pc \in {"rel_refund", "rel_record"} => orders[n.up].intent,
           \A o \in Orders : stripe'[o].void # stripe[o].void =>
             /\ o = wk[w].o
             /\ Voiding(wk[w].c) /\ ~Disputed(wk[w].c)
    PROVE  Keeps
<1> PICK k : k = wk[w]
  OBVIOUS
<1>1. wk' = [wk EXCEPT ![w] = n] /\ DOMAIN wk = Workers
  BY DEF Step, Inv, Tables
<1>2. wk'[w] = n /\ \A v \in Workers \ {w} : wk'[v] = wk[v]
  BY <1>1
<1>3. Goes(k, n) /\ n.pc \notin Bare /\ k.pc \notin Bare /\ WorkInv(w)
  BY DEF Placed, Inv
<1>4. ~course.stalls => /\ orders[k.o].state = k.c.state /\ orders[k.o].reason = k.c.reason
                        /\ Disputed(orders[k.o]) = Disputed(k.c)
  <2>1. k.c \in StoredOrder /\ orders[k.o] \in StoredOrder
    BY <1>3 DEF WorkInv, Fine, Ready, Row, Inv, Tables
  <2>2. ~course.stalls => orders[k.o] = [k.c EXCEPT !.linked = orders[k.o].linked]
    BY <1>3 DEF WorkInv, Tied
  <2>3. ~course.stalls => /\ orders[k.o].state = k.c.state /\ orders[k.o].reason = k.c.reason
                          /\ orders[k.o].pending = k.c.pending /\ orders[k.o].open = k.c.open
    BY <2>1, <2>2 DEF StoredOrder
  <2> QED
    BY <2>3 DEF Disputed, View, IsDisputed
<1>5. Tables'
  BY <1>1 DEF Tables, Inv
<1>10. \A o \in Orders : Marked(o)' => Marked(o) \/ (o = k.o /\ k.mine /\ Voiding(k.c) /\ stripe'[o].void # stripe[o].void)
  BY <1>2, <1>3 DEF Marked, Goes
<1>6. ASSUME NEW o \in Orders PROVE OrderInv(o)'
  <2>1. (RefundTaken(o) => RefundTaken(o)') /\ (Lost(o) => Lost(o)')
    BY DEF AllBack, AllLost
  <2>2. Sound(o, orders[o])
    BY DEF Inv, OrderInv
  <2>3. k.mine => orders[k.o] = k.c
    BY <1>3 DEF WorkInv, MineInv
  <2> QED
    BY <1>10, <2>1, <2>2, <2>3 DEF OrderInv, Sound
<1>7. WorkInv(w)'
  <2>1. OpenInv(w)'
    BY <1>2, <1>3, <1>10, FencedOrder DEF WorkInv, OpenInv, Goes
  <2>2. Fine(n, AllBack', AllLost')
    BY <1>3 DEF Fine, Ready
  <2>3. Tied(w)'
    BY <1>2, <1>3 DEF WorkInv, Tied, Goes
  <2>4. MineInv(w)'
    BY <1>2, <1>3 DEF WorkInv, MineInv, Goes
  <2>5. UpInv(w)' /\ CreateInv(w)'
    BY <1>2, <1>3 DEF UpInv, CreateInv, Bare
  <2> QED
    BY <1>2, <2>1, <2>2, <2>3, <2>4, <2>5 DEF WorkInv
<1>8. ASSUME NEW v \in Workers \ {w} PROVE WorkInv(v)'
  <2>1. WorkInv(v) /\ wk'[v] = wk[v] /\ Fine(wk[v], AllBack, AllLost)
    BY <1>2 DEF Inv, WorkInv
  <2>2. Fine(wk'[v], AllBack', AllLost')
    BY <2>1, FineGrows
  <2>3. Tied(v)'
    <3>1. ~course.stalls /\ wk[v].pc \notin Bare => wk[v].o # k.o /\ wk[v].o \in Orders
      BY <1>3, <2>1 DEF WorkInv, Tied, Fine, Ready
    <3> QED
      BY <2>1, <3>1 DEF WorkInv, Tied
  <2>4. MineInv(v)'
    BY <1>2, <1>3, <2>1 DEF WorkInv, MineInv, Goes
  <2>5. UpInv(v)' /\ CreateInv(v)'
    BY <1>2, <1>3, <2>1 DEF WorkInv, CreateInv, UpInv, Bare
  <2>6. OpenInv(v)'
    BY <1>3, <1>10, <2>1, FencedOrder DEF WorkInv, MineInv, OpenInv
  <2> QED
    BY <2>2, <2>3, <2>4, <2>5, <2>6 DEF WorkInv
<1>9. Life /\ Unpaired
  BY <1>4 DEF Life, Unpaired
<1> QED
  BY <1>5, <1>6, <1>7, <1>8, <1>9 DEF Keeps, Inv

LEMMA LeaseRunsOutKeeps ==
    ASSUME Inv, NEW o \in Orders, LeaseRunsOut(o, course.stalls), UNCHANGED course
    PROVE  Keeps
<1>1. /\ lease' = [lease EXCEPT ![o] = Free] /\ lease \in [Orders -> Workers \cup {Free}]
      /\ UNCHANGED <<orders, members, numbers, badge, deleted, stripe, wk, course>>
      /\ ~course.stalls => wk[lease[o]].o # o
  BY DEF LeaseRunsOut, Inv, Tables
<1>2. AllBack' = AllBack /\ AllLost' = AllLost
  BY <1>1 DEF RefundTaken, Lost, AllBack, AllLost
<1>3. Tables'
  BY <1>1 DEF Tables, Inv
<1>4. \A p \in Orders : OrderInv(p)'
  BY <1>1 DEF OrderInv, Sound, Inv, Lost, RefundTaken, Marked
<1>5. ASSUME NEW v \in Workers PROVE WorkInv(v)'
  <2>1. WorkInv(v) /\ Fine(wk[v], AllBack, AllLost)
    BY DEF Inv, WorkInv
  <2>2. Fine(wk'[v], AllBack', AllLost')
    BY <1>1, <1>2, <2>1
  <2>3. Tied(v)'
    <3>1. ~course.stalls /\ wk[v].pc \notin Bare => wk[v].o # o /\ wk[v].o \in Orders
      BY <1>1, <2>1 DEF WorkInv, Tied, Fine, Ready
    <3> QED
      BY <1>1, <2>1, <3>1 DEF WorkInv, Tied
  <2>4. MineInv(v)' /\ OpenInv(v)' /\ UpInv(v)' /\ CreateInv(v)'
    BY <1>1, <2>1 DEF WorkInv, UpInv, MineInv, CreateInv, OpenInv, Marked
  <2> QED
    BY <2>2, <2>3, <2>4 DEF WorkInv
<1>6. Life /\ Unpaired
  BY <1>1 DEF Life, Unpaired
<1> QED
  BY <1>3, <1>4, <1>5, <1>6 DEF Keeps, Inv


\* A worker with an order
LEMMA AtWork ==
    ASSUME Inv, NEW w \in Workers, wk[w].pc \notin Bare
    PROVE  /\ Ready(wk[w], AllLost) /\ Placed(wk[w], AllBack) /\ Row(wk[w])
           /\ wk[w].o \in Orders /\ wk[w].c \in StoredOrder /\ wk[w].c.state # "Absent"
           /\ Fits(wk[w].o, wk[w].c, wk[w].task, wk[w].reason, wk[w].pc, AllBack)
           /\ wk[w].mine => Sound(wk[w].o, wk[w].c)
           /\ wk[w].o \in AllBack <=> RefundTaken(wk[w].o)
           /\ wk[w].o \in AllLost <=> Lost(wk[w].o)
<1>1. WorkInv(w)
  BY DEF Inv
<1>2. Ready(wk[w], AllLost) /\ Placed(wk[w], AllBack)
  BY <1>1 DEF WorkInv, Fine
<1>3. wk[w].o \in Orders /\ wk[w].c \in StoredOrder /\ wk[w].c.state # "Absent" /\ Row(wk[w])
  BY <1>2 DEF Ready, Row
<1>4. wk[w].mine => Sound(wk[w].o, wk[w].c)
  BY <1>1, <1>3 DEF WorkInv, MineInv, Inv, OrderInv
<1> QED
  BY <1>2, <1>3, <1>4 DEF Placed, AllBack, AllLost

\* A fenced write
LEMMA WriteKeeps ==
    ASSUME Inv, NEW w \in Workers, NEW x, NEW next, NEW refused, wk[w].pc \notin Bare,
           WriteOr(w, x, next, refused), Carries(wk[w], refused, AllBack, AllLost),
           UNCHANGED <<lease, members, numbers, badge, deleted, stripe, course>>,
           wk[w].mine => /\ x \in StoredOrder
                         /\ Stores(wk[w], x, [next EXCEPT !.c = x], AllBack, AllLost)
                         /\ Sound(wk[w].o, x) /\ (wk[w].c.intent => x.intent)
                         /\ Change(View(wk[w].c), View(x))
    PROVE  Keeps
<1>1. CASE wk[w].mine
  <2>1. orders' = [orders EXCEPT ![wk[w].o] = x] /\ Step(w, [next EXCEPT !.c = x])
    BY <1>1 DEF WriteOr
  <2>2. SameMoney
    BY NoMoney
  <2> QED
    BY <1>1, <2>1, <2>2, StoreKeeps
<1>2. CASE ~wk[w].mine
  <2>1. UNCHANGED orders /\ Step(w, refused)
    BY <1>2 DEF WriteOr
  <2>2. Others'
    BY DEF Others, Inv, Tables
  <2> QED
    BY <2>1, <2>2, StepKeeps
<1> QED
  BY <1>1, <1>2

\* The copy is stored as it is
LEMMA FenceKeeps ==
    ASSUME Inv, NEW w \in Workers, NEW next, NEW refused, wk[w].pc \notin Bare,
           WriteOr(w, wk[w].c, next, refused), Carries(wk[w], refused, AllBack, AllLost),
           Carries(wk[w], next, AllBack, AllLost),
           UNCHANGED <<lease, members, numbers, badge, deleted, stripe, course>>
    PROVE  Keeps
<1>1. Stores(wk[w], wk[w].c, [next EXCEPT !.c = wk[w].c], AllBack, AllLost)
  BY StoresPlanned
<1>2. Change(View(wk[w].c), View(wk[w].c))
  BY DEF Change, Touch
<1> QED
  BY <1>1, <1>2, WriteKeeps, AtWork

-----------------------------------------------------------------------------
\* The writes, as changes of PaymentOrder

ViewFields == {"state", "intent", "pending", "open", "buyer"}

\* h is a record with the fields of an Order
Rec(h) == DOMAIN h = ViewFields /\ h = [f \in ViewFields |-> h[f]]

LEMMA IsView ==
    ASSUME NEW x, NEW h, Rec(h), h.state = x.state, h.intent = x.intent, h.pending = x.pending,
           h.open = (x.open # {}), h.buyer = x.linked
    PROVE  h = View(x)
<1> PICK op : op = (x.open # {})
  OBVIOUS
<1>1. View(x) = [state |-> x.state, intent |-> x.intent, pending |-> x.pending, open |-> op, buyer |-> x.linked]
  BY DEF View
<1>2. h.open = op
  OBVIOUS
<1>3. h = [state |-> x.state, intent |-> x.intent, pending |-> x.pending, open |-> op, buyer |-> x.linked]
  BY <1>2 DEF Rec, ViewFields
<1> QED
  BY <1>1, <1>3

LEMMA ViewRec ==
    ASSUME NEW c, NEW v, v = View(c)
    PROVE  /\ Rec(v) /\ v.state = c.state /\ v.intent = c.intent /\ v.pending = c.pending
           /\ v.open = (c.open # {}) /\ v.buyer = c.linked
<1> PICK op : op = (c.open # {})
  OBVIOUS
<1>1. v = [state |-> c.state, intent |-> c.intent, pending |-> c.pending, open |-> op, buyer |-> c.linked]
  BY DEF View
<1>2. Rec(v) /\ v.state = c.state /\ v.intent = c.intent /\ v.pending = c.pending /\ v.open = op /\ v.buyer = c.linked
  BY <1>1 DEF Rec, ViewFields
<1> QED
  BY <1>2

\* The view of x is that of c, with these fields changed
LEMMA ViewState ==
    ASSUME NEW c, NEW x, x.intent = c.intent, x.pending = c.pending, x.open = c.open, x.linked = c.linked
    PROVE  View(x) = [View(c) EXCEPT !.state = x.state]
<1> PICK v : v = View(c)
  OBVIOUS
<1> PICK h : h = [v EXCEPT !.state = x.state]
  OBVIOUS
<1>1. h.state = x.state /\ h.intent = v.intent /\ h.pending = v.pending /\ h.open = v.open /\ h.buyer = v.buyer /\ Rec(h)
  BY ViewRec DEF Rec, ViewFields
<1>2. h.state = x.state /\ h.intent = x.intent /\ h.pending = x.pending /\ h.open = (x.open # {}) /\ h.buyer = x.linked
  BY <1>1, ViewRec
<1>3. h = View(x)
  BY <1>1, <1>2, IsView
<1> QED
  BY <1>3

LEMMA ViewSettled ==
    ASSUME NEW c, NEW x, x.intent = c.intent, x.open = c.open, x.linked = c.linked
    PROVE  View(x) = [View(c) EXCEPT !.state = x.state, !.pending = x.pending]
<1> PICK v : v = View(c)
  OBVIOUS
<1> PICK h : h = [v EXCEPT !.state = x.state, !.pending = x.pending]
  OBVIOUS
<1>1. h.state = x.state /\ h.intent = v.intent /\ h.pending = x.pending /\ h.open = v.open /\ h.buyer = v.buyer /\ Rec(h)
  BY ViewRec DEF Rec, ViewFields
<1>2. h.state = x.state /\ h.intent = x.intent /\ h.pending = x.pending /\ h.open = (x.open # {}) /\ h.buyer = x.linked
  BY <1>1, ViewRec
<1>3. h = View(x)
  BY <1>1, <1>2, IsView
<1> QED
  BY <1>3

LEMMA ViewPaid ==
    ASSUME NEW c, NEW x, x.pending = c.pending, x.open = c.open, x.linked = c.linked
    PROVE  View(x) = [View(c) EXCEPT !.state = x.state, !.intent = x.intent]
<1> PICK v : v = View(c)
  OBVIOUS
<1> PICK h : h = [v EXCEPT !.state = x.state, !.intent = x.intent]
  OBVIOUS
<1>1. h.state = x.state /\ h.intent = x.intent /\ h.pending = v.pending /\ h.open = v.open /\ h.buyer = v.buyer /\ Rec(h)
  BY ViewRec DEF Rec, ViewFields
<1>2. h.state = x.state /\ h.intent = x.intent /\ h.pending = x.pending /\ h.open = (x.open # {}) /\ h.buyer = x.linked
  BY <1>1, ViewRec
<1>3. h = View(x)
  BY <1>1, <1>2, IsView
<1> QED
  BY <1>3

LEMMA ViewLatePaid ==
    ASSUME NEW c, NEW x, x.pending = c.pending, x.open = c.open, x.linked = c.linked
    PROVE  View(x) = [View(c) EXCEPT !.intent = x.intent, !.state = x.state]
<1> PICK v : v = View(c)
  OBVIOUS
<1> PICK h : h = [v EXCEPT !.intent = x.intent, !.state = x.state]
  OBVIOUS
<1>1. h.state = x.state /\ h.intent = x.intent /\ h.pending = v.pending /\ h.open = v.open /\ h.buyer = v.buyer /\ Rec(h)
  BY ViewRec DEF Rec, ViewFields
<1>2. h.state = x.state /\ h.intent = x.intent /\ h.pending = x.pending /\ h.open = (x.open # {}) /\ h.buyer = x.linked
  BY <1>1, ViewRec
<1>3. h = View(x)
  BY <1>1, <1>2, IsView
<1> QED
  BY <1>3

LEMMA ViewPending ==
    ASSUME NEW c, NEW x, x.state = c.state, x.intent = c.intent, x.open = c.open, x.linked = c.linked
    PROVE  View(x) = [View(c) EXCEPT !.pending = x.pending]
<1> PICK v : v = View(c)
  OBVIOUS
<1> PICK h : h = [v EXCEPT !.pending = x.pending]
  OBVIOUS
<1>1. h.state = v.state /\ h.intent = v.intent /\ h.pending = x.pending /\ h.open = v.open /\ h.buyer = v.buyer /\ Rec(h)
  BY ViewRec DEF Rec, ViewFields
<1>2. h.state = x.state /\ h.intent = x.intent /\ h.pending = x.pending /\ h.open = (x.open # {}) /\ h.buyer = x.linked
  BY <1>1, ViewRec
<1>3. h = View(x)
  BY <1>1, <1>2, IsView
<1> QED
  BY <1>3

LEMMA ViewOpen ==
    ASSUME NEW c, NEW x, x.state = c.state, x.intent = c.intent, x.pending = c.pending, x.linked = c.linked
    PROVE  View(x) = [View(c) EXCEPT !.open = (x.open # {})]
<1> PICK v : v = View(c)
  OBVIOUS
<1> PICK h : h = [v EXCEPT !.open = (x.open # {})]
  OBVIOUS
<1>1. h.state = v.state /\ h.intent = v.intent /\ h.pending = v.pending /\ h.open = (x.open # {}) /\ h.buyer = v.buyer /\ Rec(h)
  BY ViewRec DEF Rec, ViewFields
<1>2. h.state = x.state /\ h.intent = x.intent /\ h.pending = x.pending /\ h.open = (x.open # {}) /\ h.buyer = x.linked
  BY <1>1, ViewRec
<1>3. h = View(x)
  BY <1>1, <1>2, IsView
<1> QED
  BY <1>3

LEMMA ViewLost ==
    ASSUME NEW c, NEW x, x.state = c.state, x.intent = c.intent, x.linked = c.linked
    PROVE  View(x) = [View(c) EXCEPT !.open = (x.open # {}), !.pending = x.pending]
<1> PICK v : v = View(c)
  OBVIOUS
<1> PICK h : h = [v EXCEPT !.open = (x.open # {}), !.pending = x.pending]
  OBVIOUS
<1>1. h.state = v.state /\ h.intent = v.intent /\ h.pending = x.pending /\ h.open = (x.open # {}) /\ h.buyer = v.buyer /\ Rec(h)
  BY ViewRec DEF Rec, ViewFields
<1>2. h.state = x.state /\ h.intent = x.intent /\ h.pending = x.pending /\ h.open = (x.open # {}) /\ h.buyer = x.linked
  BY <1>1, ViewRec
<1>3. h = View(x)
  BY <1>1, <1>2, IsView
<1> QED
  BY <1>3

LEMMA ViewSame ==
    ASSUME NEW c, NEW x, x.state = c.state, x.intent = c.intent, x.pending = c.pending, x.open = c.open, x.linked = c.linked
    PROVE  View(x) = View(c)
BY DEF View

LEMMA RefundedChange ==
    ASSUME NEW c, NEW x, c.state \in {"Paid", "Fulfilled"}, x.state = "Refunded", x.pending = "None",
           x.intent = c.intent, x.open = c.open, x.linked = c.linked
    PROVE  Change(View(c), View(x))
<1>1. View(x) = [View(c) EXCEPT !.state = x.state, !.pending = x.pending]
  BY ViewSettled
<1>2. View(c).state = c.state
  BY ViewRec
<1> QED
  BY <1>1, <1>2 DEF Change, MarkRefunded

LEMMA SessionChange ==
    ASSUME NEW c, NEW x, c.state = "Creating", x.state \in {"Pending", "SessionFailed"},
           x.intent = c.intent, x.pending = c.pending, x.open = c.open, x.linked = c.linked
    PROVE  Change(View(c), View(x))
<1>1. View(x) = [View(c) EXCEPT !.state = x.state]
  BY ViewState
<1>2. /\ View(c).state = c.state /\ View(c).intent = c.intent /\ View(c).pending = c.pending
      /\ View(c).open = (c.open # {})
  BY ViewRec
<1> QED
  BY <1>1, <1>2 DEF Change, StartSession

LEMMA ExpireChange ==
    ASSUME NEW c, NEW x, c.state \in Unpaid, x.state = "Expired",
           x.intent = c.intent, x.pending = c.pending, x.open = c.open, x.linked = c.linked
    PROVE  Change(View(c), View(x))
<1>1. View(x) = [View(c) EXCEPT !.state = x.state]
  BY ViewState
<1>2. /\ View(c).state = c.state /\ View(c).intent = c.intent /\ View(c).pending = c.pending
      /\ View(c).open = (c.open # {})
  BY ViewRec
<1> QED
  BY <1>1, <1>2 DEF Change, Expire

LEMMA VoidUnpaidChange ==
    ASSUME NEW c, NEW x, c.state \in Unpaid, x.state = "Voided",
           x.intent = c.intent, x.pending = c.pending, x.open = c.open, x.linked = c.linked
    PROVE  Change(View(c), View(x))
<1>1. View(x) = [View(c) EXCEPT !.state = x.state]
  BY ViewState
<1>2. /\ View(c).state = c.state /\ View(c).intent = c.intent /\ View(c).pending = c.pending
      /\ View(c).open = (c.open # {})
  BY ViewRec
<1> QED
  BY <1>1, <1>2 DEF Change, VoidUnpaid

LEMMA FulfilChange ==
    ASSUME NEW c, NEW x, c.state = "Paid", x.state = "Fulfilled",
           x.intent = c.intent, x.pending = c.pending, x.open = c.open, x.linked = c.linked
    PROVE  Change(View(c), View(x))
<1>1. View(x) = [View(c) EXCEPT !.state = x.state]
  BY ViewState
<1>2. /\ View(c).state = c.state /\ View(c).intent = c.intent /\ View(c).pending = c.pending
      /\ View(c).open = (c.open # {})
  BY ViewRec
<1> QED
  BY <1>1, <1>2 DEF Change, Fulfil

LEMMA PaidChange ==
    ASSUME NEW c, NEW x, c.state \in Unpaid \cup {"Expired"}, x.state = "Paid", x.intent = TRUE,
           x.pending = c.pending, x.open = c.open, x.linked = c.linked
    PROVE  Change(View(c), View(x))
<1>1. View(x) = [View(c) EXCEPT !.state = x.state, !.intent = x.intent]
  BY ViewPaid
<1>2. /\ View(c).state = c.state /\ View(c).intent = c.intent /\ View(c).pending = c.pending
      /\ View(c).open = (c.open # {})
  BY ViewRec
<1> QED
  BY <1>1, <1>2 DEF Change, MarkPaid

LEMMA VoidChange ==
    ASSUME NEW c, NEW x, c.state = "Paid", c.open # {} => c.pending = "DisputeLost", x.state = "Voided", x.pending = "None",
           x.intent = c.intent, x.open = c.open, x.linked = c.linked
    PROVE  Change(View(c), View(x))
<1>1. View(x) = [View(c) EXCEPT !.state = x.state, !.pending = x.pending]
  BY ViewSettled
<1>2. /\ View(c).state = c.state /\ View(c).intent = c.intent /\ View(c).pending = c.pending
      /\ View(c).open = (c.open # {})
  BY ViewRec
<1> QED
  BY <1>1, <1>2 DEF Change, Void

LEMMA LateChange ==
    ASSUME NEW c, NEW x, c.state = "Voided", ~c.intent, x.intent = TRUE, x.state = IF Disputed(c) THEN "Paid" ELSE "Voided",
           x.pending = c.pending, x.open = c.open, x.linked = c.linked
    PROVE  Change(View(c), View(x))
<1>1. View(x) = [View(c) EXCEPT !.intent = x.intent, !.state = x.state]
  BY ViewLatePaid
<1>2. /\ View(c).state = c.state /\ View(c).intent = c.intent /\ View(c).pending = c.pending
      /\ View(c).open = (c.open # {})
  BY ViewRec
<1> QED
  BY <1>1, <1>2 DEF Change, PayVoided, Disputed

LEMMA DropChange ==
    ASSUME NEW c, NEW x, c.state = "Fulfilled", c.pending # "None", x.pending = "None",
           x.state = c.state, x.intent = c.intent, x.open = c.open, x.linked = c.linked
    PROVE  Change(View(c), View(x))
<1>1. View(x) = [View(c) EXCEPT !.pending = x.pending]
  BY ViewPending
<1>2. /\ View(c).state = c.state /\ View(c).intent = c.intent /\ View(c).pending = c.pending
      /\ View(c).open = (c.open # {})
  BY ViewRec
<1> QED
  BY <1>1, <1>2 DEF Change, DropReversal

LEMMA DisputeChange ==
    ASSUME NEW c, NEW x, c.state = "Fulfilled",
           x.state = c.state, x.intent = c.intent, x.pending = c.pending, x.linked = c.linked
    PROVE  Change(View(c), View(x))
<1>1. View(x) = [View(c) EXCEPT !.open = (x.open # {})]
  BY ViewOpen
<1>2. /\ View(c).state = c.state /\ View(c).intent = c.intent /\ View(c).pending = c.pending
      /\ View(c).open = (c.open # {})
  BY ViewRec
<1> QED
  BY <1>1, <1>2 DEF Change, RecordDispute

LEMMA RefundKnownChange ==
    ASSUME NEW c, NEW x, c.state \in BeforeFulfilment, x.pending = IF c.pending = "None" THEN "Refund" ELSE c.pending,
           x.state = c.state, x.intent = c.intent, x.open = c.open, x.linked = c.linked
    PROVE  Change(View(c), View(x))
<1>1. View(x) = [View(c) EXCEPT !.pending = x.pending]
  BY ViewPending
<1>2. /\ View(c).state = c.state /\ View(c).intent = c.intent /\ View(c).pending = c.pending
      /\ View(c).open = (c.open # {})
  BY ViewRec
<1> QED
  BY <1>1, <1>2 DEF Change, RecordReversal

LEMMA DisputeKnownChange ==
    ASSUME NEW c, NEW x, c.state \in BeforeFulfilment,
           x.state = c.state, x.intent = c.intent, x.pending = c.pending, x.linked = c.linked
    PROVE  Change(View(c), View(x))
<1>1. View(x) = [View(c) EXCEPT !.open = (x.open # {})]
  BY ViewOpen
<1>2. /\ View(c).state = c.state /\ View(c).intent = c.intent /\ View(c).pending = c.pending
      /\ View(c).open = (c.open # {})
  BY ViewRec
<1> QED
  BY <1>1, <1>2 DEF Change, RecordReversal

LEMMA LostKnownChange ==
    ASSUME NEW c, NEW x, c.state \in BeforeFulfilment, x.pending = "DisputeLost",
           x.state = c.state, x.intent = c.intent, x.linked = c.linked
    PROVE  Change(View(c), View(x))
<1>1. View(x) = [View(c) EXCEPT !.open = (x.open # {}), !.pending = x.pending]
  BY ViewLost
<1>2. /\ View(c).state = c.state /\ View(c).intent = c.intent /\ View(c).pending = c.pending
      /\ View(c).open = (c.open # {})
  BY ViewRec
<1> QED
  BY <1>1, <1>2 DEF Change, RecordReversal

\* mark_refunded
LEMMA AsRefundedSound ==
    ASSUME NEW o, NEW c \in StoredOrder, Sound(o, c), c.state \in {"Paid", "Fulfilled"}
    PROVE  /\ AsRefunded(c) \in StoredOrder /\ AsRefunded(c).state = "Refunded" /\ AsRefunded(c).pending = "None"
           /\ Sound(o, AsRefunded(c)) /\ (c.intent => AsRefunded(c).intent)
           /\ Change(View(c), View(AsRefunded(c)))
<1> PICK x : x = AsRefunded(c)
  OBVIOUS
<1>1. /\ x \in StoredOrder /\ x.state = "Refunded" /\ x.pending = "None"
      /\ x.intent = c.intent /\ x.reason = c.reason /\ x.open = c.open /\ x.linked = c.linked
  BY DEF AsRefunded, StoredOrder, OrderState, Reversal
<1>2. Sound(o, x)
  BY <1>1 DEF Sound, Voiding
<1>3. Change(View(c), View(x))
  BY <1>1, RefundedChange
<1> QED
  BY <1>1, <1>2, <1>3

LEMMA AsRefundedKeeps ==
    ASSUME Inv, NEW w \in Workers, NEW next, wk[w].pc \notin Bare, wk[w].c.state = "Fulfilled",
           Write(w, AsRefunded(wk[w].c), next), Carries(wk[w], next, AllBack, AllLost),
           next.pc \in {"keep_cancel", "rel_free", "release", "recheck"},
           UNCHANGED <<lease, members, numbers, badge, deleted, stripe, course>>
    PROVE  Keeps
<1> DEFINE k == wk[w]
           x == AsRefunded(k.c)
<1>1. Carries(k, Abort(k), AllBack, AllLost)
  BY AtWork, AbortCarries
<1>2. k.mine => /\ x \in StoredOrder /\ x.state = "Refunded" /\ x.pending = "None"
                /\ Sound(k.o, x) /\ (k.c.intent => x.intent) /\ Change(View(k.c), View(x))
  BY AtWork, AsRefundedSound
<1>3. x.state = "Refunded" => Fits(k.o, x, k.task, next.reason, next.pc, AllBack)
  <2>1. next.pc = "recheck" => k.task # "delete"
    BY DEF Carries, Placed, Fits, Goes
  <2> QED
    BY <2>1 DEF Fits, Selling, Reversing
<1>4. next.pc \notin SyncCalls \cup ListCalls \cup VoidCalls
  BY DEF SyncCalls, ListCalls, VoidCalls
<1>5. k.mine => Stores(k, x, [next EXCEPT !.c = x], AllBack, AllLost)
  BY <1>2, <1>3, <1>4, StoresNew
<1>6. WriteOr(w, x, next, Abort(k))
  BY DEF Write
<1> HIDE DEF k, x
<1> QED
  BY <1>1, <1>2, <1>5, <1>6, WriteKeeps DEF k


-----------------------------------------------------------------------------
\* Steps of every handler

\* Calls any copy fits
Easy == {"release", "finish", "rel_read", "keep_cancel", "rel_fence", "rel_up", "rel_fence2",
         "rel_delete", "rel_free", "rel_put", "lar_read", "rev_done"}

LEMMA EasyReturns ==
    ASSUME NEW k, NEW back
    PROVE  /\ \A pc \in Easy : Returns(k, pc, back)
           /\ k.c.state = "Fulfilled" => \A pc \in (Reversing \ ({"clear"} \cup CasCalls)) \cup {"rel_check"} : Returns(k, pc, back)
           /\ k.c.state = "Paid" /\ k.c.reason = "None" => \A pc \in Selling \ ({"upgrade_read"} \cup CasCalls \cup Inserts) : Returns(k, pc, back)
<1>1. ASSUME NEW pc \in Easy PROVE Returns(k, pc, back)
  BY DEF Easy, Returns, Onward, CasCalls, Inserts, VoidCalls, Fits, Selling, Reversing, Bare, SyncCalls, ListCalls, Special
<1>2. ASSUME NEW pc \in (Reversing \ ({"clear"} \cup CasCalls)) \cup {"rel_check"}, k.c.state = "Fulfilled"
      PROVE  Returns(k, pc, back)
  BY <1>2 DEF Returns, Onward, CasCalls, Inserts, VoidCalls, Fits, Selling, Reversing, Bare, SyncCalls, ListCalls, Special
<1>3. ASSUME NEW pc \in Selling \ ({"upgrade_read"} \cup CasCalls \cup Inserts), k.c.state = "Paid", k.c.reason = "None"
      PROVE  Returns(k, pc, back)
  BY <1>3 DEF Returns, Onward, CasCalls, Inserts, VoidCalls, Fits, Selling, Reversing, Bare, SyncCalls, ListCalls, Special
<1> QED
  BY <1>1, <1>2, <1>3

\* What its place says of a worker's copy
LEMMA PlaceSays ==
    ASSUME Inv, NEW w \in Workers, wk[w].pc \notin Bare
    PROVE  /\ wk[w].pc \in Reversing => wk[w].c.state = "Fulfilled"
           /\ wk[w].pc \in Selling => wk[w].c.state = "Paid" /\ wk[w].c.reason = "None"
BY AtWork DEF Fits

\* The membership read is dropped
LEMMA ClearedCarries ==
    ASSUME NEW k, NEW r, NEW back, NEW lost, Carries(k, r, back, lost), r.pc \notin CasCalls
    PROVE  Carries(k, [r EXCEPT !.m = NoMember], back, lost)
<1> PICK n : n = [r EXCEPT !.m = NoMember]
  OBVIOUS
<1>0. Row(r) /\ Ready(r, lost) /\ Placed(r, back) /\ r.pc \notin Special /\ ~Opens(r) /\ Goes(k, r)
  BY DEF Carries, Ready
<1>1. n.m = NoMember /\ DOMAIN n = Fields
  BY <1>0 DEF Row, Fields
<1>2. \A f \in Fields \ {"m"} : n[f] = r[f]
  BY <1>0 DEF Row, Fields
<1>3. Row(n)
  BY <1>0, <1>1, <1>2, NoMemberType DEF Row, Fields
<1>4. /\ n.pc = r.pc /\ n.o = r.o /\ n.c = r.c /\ n.kind = r.kind /\ n.reason = r.reason
      /\ n.task = r.task /\ n.ret = r.ret /\ n.found = r.found /\ n.missing = r.missing /\ n.mine = r.mine
      /\ n.prev = r.prev
  BY <1>2 DEF Fields
<1>5. Ready(n, lost)
  BY <1>0, <1>3, <1>4 DEF Ready
<1>6. Placed(n, back) /\ n.pc \notin Special
  BY <1>0, <1>4 DEF Placed, Returns, Onward, CasCalls, Inserts, VoidCalls
<1> QED
  BY <1>0, <1>4, <1>5, <1>6 DEF Carries, Goes, Opens

LEMMA UserType ==
    ASSUME Inv, NEW w \in Workers, wk[w].pc \notin Bare
    PROVE  User(wk[w]) \in Users /\ Read(wk[w]) \in Membership
<1>1. wk[w].o \in Orders
  BY AtWork
<1> QED
  BY <1>1, CipherAssumption DEF User, Read, Inv, Tables

\* A step that leaves the tables alone
LEMMA PlainKeeps ==
    ASSUME Inv, NEW w \in Workers, NEW n, wk[w].pc \notin Bare, Step(w, n),
           UNCHANGED <<orders, lease, members, numbers, badge, deleted, stripe, course>>,
           Carries(wk[w], n, AllBack, AllLost)
    PROVE  Keeps
<1>1. Others'
  BY DEF Others, Inv, Tables
<1> QED
  BY <1>1, StepKeeps

LEMMA MembersKeep ==
    ASSUME Inv, NEW w \in Workers, NEW n, wk[w].pc \notin Bare, Step(w, n),
           NEW row \in Membership, members' = [members EXCEPT ![User(wk[w])] = row],
           UNCHANGED <<orders, lease, numbers, badge, deleted, stripe, course>>,
           Carries(wk[w], n, AllBack, AllLost)
    PROVE  Keeps
<1>1. Others'
  BY UserType DEF Others, Inv, Tables
<1> QED
  BY <1>1, StepKeeps

\* update_cipher_membership_if_version
LEMMA CasKeeps ==
    ASSUME Inv, NEW w \in Workers, NEW row \in CipherMembership, NEW next, NEW again, wk[w].pc \notin Bare,
           next.pc \notin CasCalls, again.pc \notin CasCalls,
           Cas(w, row, next, again), UNCHANGED <<orders, lease, numbers, badge, deleted, stripe, course>>,
           Carries(wk[w], next, AllBack, AllLost), Carries(wk[w], again, AllBack, AllLost)
    PROVE  Keeps
<1> DEFINE k == wk[w]
<1>1. /\ Carries(k, [next EXCEPT !.m = NoMember], AllBack, AllLost)
      /\ Carries(k, [again EXCEPT !.m = NoMember], AllBack, AllLost)
  BY ClearedCarries
<1>2. Carries(k, Abort(k), AllBack, AllLost)
  BY AtWork, AbortCarries
<1>3. CASE Step(w, [again EXCEPT !.m = NoMember]) /\ UNCHANGED members
  BY <1>1, <1>3, PlainKeeps
<1>4. CASE Step(w, Abort(k)) /\ UNCHANGED members
  BY <1>2, <1>4, PlainKeeps
<1>5. CASE /\ members' = [members EXCEPT ![User(k)] = [row EXCEPT !.version = k.m.version + 1]]
           /\ Step(w, [next EXCEPT !.m = NoMember])
  <2>1. [row EXCEPT !.version = k.m.version + 1] \in Membership
    <3>1. k.m.version \in Nat
      BY AtWork DEF Row, Membership, CipherMembership, NoMember
    <3> QED
      BY <3>1 DEF Membership, CipherMembership
  <2> QED
    BY <1>1, <1>5, <2>1, MembersKeep
<1> QED
  BY <1>3, <1>4, <1>5 DEF Cas


\* sync_user_badge: n is k at another of its calls, or back where it came from
LEMMA SyncOnCarries ==
    ASSUME NEW k, NEW n, NEW back, NEW lost, Ready(k, lost), Placed(k, back), k.pc \in SyncCalls,
           DOMAIN n = Fields, \A f \in Fields \ {"pc", "show"} : n[f] = k[f], n.show \in Badge, n.pc \in SyncCalls
    PROVE  Carries(k, n, back, lost)
<1>1. Row(n)
  BY DEF Ready, Row, Fields, SyncCalls
<1>2. Goes(k, n) /\ n.kind = k.kind /\ n.reason = k.reason /\ n.ret = k.ret
  BY DEF Goes, Fields
<1>3. Ready(n, lost)
  BY <1>1, <1>2, ReadyStill DEF Ready
<1>4. Returns(n, n.ret, back)
  BY <1>2 DEF Placed, Returns, Onward, Goes
<1>5. Fits(n.o, n.c, n.task, n.reason, n.pc, back)
  BY DEF Fits, Selling, Reversing, SyncCalls
<1> QED
  BY <1>2, <1>3, <1>4, <1>5 DEF Carries, Placed, Bare, SyncCalls, ListCalls, Special, CasCalls, Inserts, Opens

LEMMA SyncEndCarries ==
    ASSUME NEW k, NEW back, NEW lost, Ready(k, lost), Placed(k, back), k.pc \in SyncCalls
    PROVE  Carries(k, [k EXCEPT !.pc = k.ret, !.show = <<>>, !.ret = "none"], back, lost)
<1> PICK n : n = [k EXCEPT !.pc = k.ret, !.show = <<>>, !.ret = "none"]
  OBVIOUS
<1>1. n.pc = k.ret /\ n.show = <<>> /\ DOMAIN n = Fields
  BY DEF Ready, Row, Fields
<1>2. \A f \in Fields \ {"pc", "show", "ret"} : n[f] = k[f]
  BY DEF Ready, Row, Fields
<1>3. Returns(k, k.ret, back)
  BY DEF Placed
<1>4. n.pc \notin {"rel_refund", "rel_record"} /\ n.show \in Badge
  BY <1>1, <1>3 DEF Returns, Onward, Special, Badge
<1>5. Row(n)
  BY <1>1, <1>2, <1>4 DEF Row, Ready, Fields
<1>6. Goes(k, n) /\ n.kind = k.kind /\ n.reason = k.reason
  BY <1>2 DEF Goes, Fields
<1>7. Returns(n, n.pc, back)
  BY <1>1, <1>3, <1>6 DEF Returns, Onward, Goes
<1> QED
  BY <1>5, <1>6, <1>7, CarriesOn DEF Ready, Returns

LEMMA PublicBadgeType == \A m \in Membership : PublicBadge(m) \in Badge
BY DEF PublicBadge, Badge, Membership, CipherMembership, IsActive

LEMMA SyncReadKeeps ==
    ASSUME Inv, NEW w \in Workers, SyncRead(w), UNCHANGED course
    PROVE  Keeps
<1> PICK k : k = wk[w]
  OBVIOUS
<1> PICK n : n = [k EXCEPT !.pc = "sync_user", !.show = PublicBadge(Read(k))]
  OBVIOUS
<1>1. k.pc = "sync_read" /\ k.pc \notin Bare /\ k.pc \in SyncCalls
  BY DEF SyncRead, At, Bare, SyncCalls
<1>2. Ready(k, AllLost) /\ Placed(k, AllBack) /\ Read(k) \in Membership
  BY <1>1, AtWork, UserType
<1>3. n.pc = "sync_user" /\ n.show = PublicBadge(Read(k)) /\ DOMAIN n = Fields
  BY <1>2 DEF Ready, Row, Fields
<1>4. \A f \in Fields \ {"pc", "show"} : n[f] = k[f]
  BY <1>2 DEF Ready, Row, Fields
<1>5. n.show \in Badge /\ n.pc \in SyncCalls
  BY <1>2, <1>3, PublicBadgeType DEF SyncCalls
<1>6. Carries(k, n, AllBack, AllLost)
  BY <1>1, <1>2, <1>3, <1>4, <1>5, SyncOnCarries
<1>7. Step(w, n) /\ UNCHANGED <<orders, lease, members, numbers, badge, deleted, stripe>>
  BY DEF SyncRead
<1> QED
  BY <1>1, <1>6, <1>7, PlainKeeps

LEMMA SyncUserKeeps ==
    ASSUME Inv, NEW w \in Workers, SyncUser(w), UNCHANGED course
    PROVE  Keeps
<1> PICK k : k = wk[w]
  OBVIOUS
<1> PICK want : want = IF User(k) \in deleted THEN <<>> ELSE k.show
  OBVIOUS
<1> PICK n : n = [k EXCEPT !.pc = "sync_write", !.show = want]
  OBVIOUS
<1>1. k.pc = "sync_user" /\ k.pc \notin Bare /\ k.pc \in SyncCalls
  BY DEF SyncUser, At, Bare, SyncCalls
<1>2. Ready(k, AllLost) /\ Placed(k, AllBack) /\ want \in Badge
  BY <1>1, AtWork DEF Ready, Row, Badge
<1>3. n.pc = "sync_write" /\ n.show = want /\ DOMAIN n = Fields
  BY <1>2 DEF Ready, Row, Fields
<1>4. \A f \in Fields \ {"pc", "show"} : n[f] = k[f]
  BY <1>2 DEF Ready, Row, Fields
<1>5. Carries(k, n, AllBack, AllLost)
  <2>1. n.pc \in SyncCalls
    BY <1>3 DEF SyncCalls
  <2> QED
    BY <1>1, <1>2, <1>3, <1>4, <2>1, SyncOnCarries
<1>6. Carries(k, [k EXCEPT !.pc = k.ret, !.show = <<>>, !.ret = "none"], AllBack, AllLost)
  BY <1>1, <1>2, SyncEndCarries
<1>7. /\ Step(w, n) \/ Step(w, [k EXCEPT !.pc = k.ret, !.show = <<>>, !.ret = "none"])
      /\ UNCHANGED <<orders, lease, members, numbers, badge, deleted, stripe>>
  BY DEF SyncUser
<1> QED
  BY <1>1, <1>5, <1>6, <1>7, PlainKeeps

LEMMA SyncWriteKeeps ==
    ASSUME Inv, NEW w \in Workers, SyncWrite(w), UNCHANGED course
    PROVE  Keeps
<1> PICK k : k = wk[w]
  OBVIOUS
<1> PICK n : n = [k EXCEPT !.pc = "sync_read", !.show = <<>>]
  OBVIOUS
<1>1. k.pc = "sync_write" /\ k.pc \notin Bare /\ k.pc \in SyncCalls
  BY DEF SyncWrite, At, Bare, SyncCalls
<1>2. Ready(k, AllLost) /\ Placed(k, AllBack) /\ k.show \in Badge /\ User(k) \in Users
  BY <1>1, AtWork, UserType DEF Ready, Row
<1>3. n.pc = "sync_read" /\ n.show = <<>> /\ DOMAIN n = Fields
  BY <1>2 DEF Ready, Row, Fields
<1>4. \A f \in Fields \ {"pc", "show"} : n[f] = k[f]
  BY <1>2 DEF Ready, Row, Fields
<1>5. Carries(k, n, AllBack, AllLost)
  <2>1. n.pc \in SyncCalls /\ n.show \in Badge
    BY <1>3 DEF SyncCalls, Badge
  <2> QED
    BY <1>1, <1>2, <1>3, <1>4, <2>1, SyncOnCarries
<1>6. /\ Step(w, n) /\ badge' = [badge EXCEPT ![User(k)] = k.show]
      /\ UNCHANGED <<orders, lease, members, numbers, deleted, stripe>>
  BY DEF SyncWrite
<1>7. Others'
  BY <1>2, <1>6 DEF Others, Inv, Tables
<1> QED
  BY <1>1, <1>5, <1>6, <1>7, StepKeeps


\* set_dispute_listing: n is k at another of its calls
LEMMA ListOnCarries ==
    ASSUME NEW k, NEW n, NEW back, NEW lost, Ready(k, lost), Placed(k, back), k.pc \in ListCalls,
           DOMAIN n = Fields, \A f \in Fields \ {"pc", "m"} : n[f] = k[f], n.m \in Membership, n.pc \in ListCalls,
           n.pc = "list_cas" => n.m \in CipherMembership
    PROVE  Carries(k, n, back, lost)
<1>1. Row(n)
  BY DEF Ready, Row, Fields, ListCalls
<1>2. Goes(k, n) /\ n.kind = k.kind /\ n.reason = k.reason /\ n.ret = k.ret /\ n.found = k.found /\ n.missing = k.missing
  BY DEF Goes, Fields
<1>3. Ready(n, lost)
  BY <1>1, <1>2, ReadyStill DEF Ready
<1>4. /\ Returns(n, IF n.found = "sync_read" THEN n.ret ELSE n.found, back)
      /\ Returns(n, IF n.missing = "sync_read" THEN n.ret ELSE n.missing, back)
  BY <1>2 DEF Placed, Returns, Onward, Goes
<1>5. Fits(n.o, n.c, n.task, n.reason, n.pc, back)
  BY DEF Fits, Selling, Reversing, ListCalls
<1> QED
  BY <1>2, <1>3, <1>4, <1>5 DEF Carries, Placed, Bare, SyncCalls, ListCalls, Special, CasCalls, Inserts, Opens

LEMMA ListBackCarries ==
    ASSUME NEW k, NEW back, NEW lost, Ready(k, lost), Placed(k, back), k.pc \in ListCalls, NEW pc \in {k.found, k.missing}
    PROVE  Carries(k, ListEnd(k, pc), back, lost) /\ ListEnd(k, pc).pc \notin CasCalls
<1>1. Returns(k, Beyond(k, pc), back)
  BY DEF Placed, Beyond
<1>2. ListEnd(k, pc).pc = pc
  BY DEF ListEnd, Ready, Row, Fields
<1>3. pc \notin CasCalls
  BY <1>1 DEF Beyond, Returns, CasCalls
<1> QED
  BY <1>1, <1>2, <1>3, ListEndCarries

LEMMA ListReadKeeps ==
    ASSUME Inv, NEW w \in Workers, ListRead(w), UNCHANGED course
    PROVE  Keeps
<1> PICK k : k = wk[w]
  OBVIOUS
<1> PICK m : m = Read(k)
  OBVIOUS
<1> PICK n : n = [k EXCEPT !.pc = "list_cas", !.m = m]
  OBVIOUS
<1>1. k.pc = "list_read" /\ k.pc \notin Bare /\ k.pc \in ListCalls
  BY DEF ListRead, At, Bare, ListCalls
<1>2. Ready(k, AllLost) /\ Placed(k, AllBack) /\ m \in Membership
  BY <1>1, AtWork, UserType
<1>3. n.pc = "list_cas" /\ n.m = m /\ DOMAIN n = Fields
  BY <1>2 DEF Ready, Row, Fields
<1>4. \A f \in Fields \ {"pc", "m"} : n[f] = k[f]
  BY <1>2 DEF Ready, Row, Fields
<1>5. Holds(m, k.o) => Carries(k, n, AllBack, AllLost)
  <2>1. Holds(m, k.o) => n.m \in CipherMembership
    BY <1>2, <1>3 DEF Holds, Membership
  <2>2. n.pc \in ListCalls
    BY <1>3 DEF ListCalls
  <2> QED
    BY <1>1, <1>2, <1>3, <1>4, <2>1, <2>2, ListOnCarries
<1>6. Carries(k, ListEnd(k, k.found), AllBack, AllLost) /\ Carries(k, ListEnd(k, k.missing), AllBack, AllLost)
  BY <1>1, <1>2, ListBackCarries
<1>7. /\ \/ Step(w, ListEnd(k, k.missing))
         \/ Step(w, ListEnd(k, k.found))
         \/ Holds(m, k.o) /\ Step(w, n)
      /\ UNCHANGED <<orders, lease, members, numbers, badge, deleted, stripe>>
  BY DEF ListRead
<1> QED
  BY <1>1, <1>5, <1>6, <1>7, PlainKeeps

LEMMA ListedType ==
    ASSUME NEW m \in CipherMembership, NEW o \in Orders, NEW open
    PROVE  Listed(m, o, open) \in CipherMembership
<1>1. m.disputed \cup {o} \in SUBSET Orders /\ m.disputed \ {o} \in SUBSET Orders
  BY DEF CipherMembership
<1> QED
  BY <1>1 DEF Listed, CipherMembership

LEMMA ListCasKeeps ==
    ASSUME Inv, NEW w \in Workers, ListCas(w), UNCHANGED course
    PROVE  Keeps
<1> PICK k : k = wk[w]
  OBVIOUS
<1> PICK n : n = Go(k, "list_read")
  OBVIOUS
<1>1. k.pc = "list_cas" /\ k.pc \notin Bare /\ k.pc \in ListCalls /\ k.pc \in CasCalls
  BY DEF ListCas, At, Bare, ListCalls, CasCalls
<1>2. Ready(k, AllLost) /\ Placed(k, AllBack) /\ k.o \in Orders
  BY <1>1, AtWork
<1>3. k.m \in CipherMembership
  BY <1>1, <1>2 DEF Placed
<1>4. n.pc = "list_read" /\ DOMAIN n = Fields /\ \A f \in Fields \ {"pc", "m"} : n[f] = k[f]
  BY <1>2 DEF Ready, Row, Fields, Go
<1>5. n.m = k.m
  BY <1>2 DEF Ready, Row, Fields, Go
<1>6. Carries(k, n, AllBack, AllLost) /\ n.pc \notin CasCalls
  <2>1. n.m \in Membership /\ n.pc \in ListCalls /\ n.pc \notin CasCalls
    BY <1>3, <1>4, <1>5 DEF Membership, ListCalls, CasCalls
  <2> QED
    BY <1>1, <1>2, <1>4, <2>1, ListOnCarries
<1>7. Carries(k, ListEnd(k, k.found), AllBack, AllLost) /\ ListEnd(k, k.found).pc \notin CasCalls
  BY <1>1, <1>2, ListBackCarries
<1>8. Listed(k.m, k.o, k.list) \in CipherMembership
  BY <1>2, <1>3, ListedType
<1>9. /\ Cas(w, Listed(k.m, k.o, k.list), ListEnd(k, k.found), n)
      /\ UNCHANGED <<orders, lease, numbers, badge, deleted, stripe>>
  BY DEF ListCas
<1> QED
  BY <1>1, <1>6, <1>7, <1>8, <1>9, CasKeeps

-----------------------------------------------------------------------------
\* Leases given back, failed calls, dead processes

LEMMA IdleBare ==
    /\ Row(Idle) /\ Idle.pc = "idle" /\ Idle.pc \in Bare /\ Idle.c = AbsentOrder /\ ~Idle.mine
    /\ Idle.o = Free /\ Idle.kind = "none" /\ DOMAIN Idle = Fields
    /\ Idle.pc \notin Deleting
<1>1. /\ Idle.pc = "idle" /\ Idle.c = AbsentOrder /\ Idle.mine = FALSE /\ Idle.o = Free /\ DOMAIN Idle = Fields
      /\ Idle.kind = "none"
  BY DEF Idle, Fields
<1>2. AbsentOrder \in StoredOrder
  BY DEF AbsentOrder, StoredOrder, Reversal, VoidReasons
<1>3. Row(Idle)
  BY <1>1, <1>2, NoMemberType, CipherAssumption DEF Idle, Row, VoidReasons, Badge
<1> QED
  BY <1>1, <1>3 DEF Bare, Deleting

LEMMA CrashKeeps ==
    ASSUME Inv, NEW w \in Workers, Crash(w), UNCHANGED course
    PROVE  Keeps
<1>1. Step(w, Idle) /\ UNCHANGED <<orders, lease, members, numbers, badge, deleted, stripe, course>>
  BY DEF Crash
<1>2. Others' /\ lease' \in [Orders -> Workers \cup {Free}]
  BY <1>1 DEF Others, Inv, Tables
<1> QED
  BY <1>1, <1>2, IdleBare, BareKeeps

LEMMA FailKeeps ==
    ASSUME Inv, NEW w \in Workers, Fail(w), UNCHANGED course
    PROVE  Keeps
<1>1. /\ Step(w, IF wk[w].c = AbsentOrder THEN Idle ELSE Abort(wk[w]))
      /\ UNCHANGED <<orders, lease, members, numbers, badge, deleted, stripe, course>>
  BY DEF Fail
<1>2. CASE wk[w].c = AbsentOrder
  <2>1. Others' /\ lease' \in [Orders -> Workers \cup {Free}] /\ Step(w, Idle)
    BY <1>1, <1>2 DEF Others, Inv, Tables
  <2> QED
    BY <1>1, <2>1, IdleBare, BareKeeps
<1>3. CASE wk[w].c # AbsentOrder
  <2>1. wk[w].pc \notin Bare
    BY <1>3 DEF Inv, WorkInv, Fine
  <2>2. Carries(wk[w], Abort(wk[w]), AllBack, AllLost)
    BY <2>1, AtWork, AbortCarries
  <2> QED
    BY <1>1, <1>3, <2>1, <2>2, PlainKeeps
<1> QED
  BY <1>2, <1>3

LEMMA ReleaseKeeps ==
    ASSUME Inv, NEW w \in Workers, Release(w), UNCHANGED course
    PROVE  Keeps
<1> PICK k : k = wk[w]
  OBVIOUS
<1> PICK n : n = [Idle EXCEPT !.pc = "account", !.task = "delete", !.o = k.o, !.todo = k.todo]
  OBVIOUS
<1>1. /\ k.pc \notin Bare /\ UNCHANGED <<orders, members, numbers, badge, deleted, stripe, course>>
      /\ lease' = IF lease[k.o] = w THEN [lease EXCEPT ![k.o] = Free] ELSE lease
      /\ Step(w, IF k.task = "delete" THEN n ELSE Idle)
  BY DEF Release, At, Bare
<1>2. Row(k) /\ k.o \in Orders
  BY <1>1, AtWork
<1>3. /\ Others' /\ lease' \in [Orders -> Workers \cup {Free}]
      /\ \A p \in Orders : lease'[p] = lease[p] \/ lease[p] = w
  BY <1>1, <1>2 DEF Others, Inv, Tables
<1>4. CASE k.task = "delete"
  <2>1. n.pc = "account" /\ n.task = "delete" /\ n.o = k.o /\ n.todo = k.todo /\ DOMAIN n = Fields
    BY IdleBare DEF Fields
  <2>2. \A f \in Fields \ {"pc", "task", "o", "todo"} : n[f] = Idle[f]
    BY IdleBare DEF Fields
  <2>3. Row(n)
    <3>1. Idle.ups = {} /\ Idle.up = Free /\ Idle.then = "release"
      BY DEF Idle
    <3> QED
      BY <1>2, <1>4, <2>1, <2>2, <3>1, IdleBare DEF Row, Fields
  <2>4. n.pc \in Bare /\ n.c = AbsentOrder /\ ~n.mine /\ n.kind = "none"
    BY <2>1, <2>2, IdleBare DEF Fields, Bare
  <2> QED
    BY <1>1, <1>2, <1>3, <1>4, <2>1, <2>3, <2>4, BareKeeps
<1>5. CASE k.task # "delete"
  BY <1>1, <1>3, <1>5, IdleBare, BareKeeps
<1> QED
  BY <1>4, <1>5


-----------------------------------------------------------------------------
\* finish_number_release_locked

\* A row is read, to be swapped
LEMMA CasReadCarries ==
    ASSUME NEW k, NEW back, NEW lost, NEW pc, NEW m \in CipherMembership, Ready(k, lost), Onward(k, pc, back),
           pc \in CasCalls
    PROVE  Carries(k, [k EXCEPT !.pc = pc, !.m = m], back, lost)
<1> PICK n : n = [k EXCEPT !.pc = pc, !.m = m]
  OBVIOUS
<1>1. n.pc = pc /\ n.m = m /\ DOMAIN n = Fields
  BY DEF Ready, Row, Fields
<1>2. \A f \in Fields \ {"pc", "m"} : n[f] = k[f]
  BY DEF Ready, Row, Fields
<1>3. Row(n)
  BY <1>1, <1>2 DEF Row, Ready, Fields, Onward, Special, Membership
<1>4. Goes(k, n) /\ n.kind = k.kind /\ n.reason = k.reason
  BY <1>2 DEF Goes, Fields
<1>5. Onward(n, n.pc, back)
  BY <1>1, <1>4 DEF Onward, Goes
<1> QED
  BY <1>1, <1>3, <1>4, <1>5, CarriesOn DEF Ready, CasCalls, Inserts, VoidCalls

\* Of the calls that need a row, where any copy fits
LEMMA CasOnward ==
    ASSUME NEW k, NEW back
    PROVE  /\ Onward(k, "rel_revoke", back) /\ Onward(k, "lar_cas", back)
           /\ k.c.state = "Fulfilled" => Onward(k, "down_cas", back) /\ Onward(k, "rev_cas", back)
           /\ k.c.state = "Paid" /\ k.c.reason = "None" =>
                /\ Onward(k, "replace", back) /\ Onward(k, "insert", back) /\ Onward(k, "insert_read", back)
                /\ ~IsNew(k.o) => Onward(k, "upgrade_cas", back) /\ Returns(k, "upgrade_read", back)
BY DEF Returns, CasCalls, Inserts, VoidCalls, Onward, Fits, Selling, Reversing, Bare, SyncCalls, ListCalls, Special

LEMMA RelReadKeeps ==
    ASSUME Inv, NEW w \in Workers, RelRead(w), UNCHANGED course
    PROVE  Keeps
<1> PICK k : k = wk[w]
  OBVIOUS
<1> PICK m : m = Read(k)
  OBVIOUS
<1>1. k.pc \notin Bare
  BY DEF RelRead, At, Bare
<1>2. Ready(k, AllLost) /\ m \in Membership
  BY <1>1, AtWork, UserType
<1>3. Carries(k, Sync(k, RelOrder(k).pc), AllBack, AllLost)
  BY <1>2, RelOrderCarries, SyncCarries
<1>4. IsActive(m) => Carries(k, [k EXCEPT !.pc = "rel_revoke", !.m = m], AllBack, AllLost)
  <2>1. IsActive(m) => m \in CipherMembership
    BY <1>2 DEF IsActive, Membership
  <2>2. Onward(k, "rel_revoke", AllBack) /\ "rel_revoke" \in CasCalls
    BY CasOnward DEF CasCalls
  <2> QED
    BY <1>2, <2>1, <2>2, CasReadCarries
<1>5. Carries(k, Go(k, IF k.c.state = "Fulfilled" THEN "keep_mark" ELSE "keep_cancel"), AllBack, AllLost)
  <2>1. Returns(k, IF k.c.state = "Fulfilled" THEN "keep_mark" ELSE "keep_cancel", AllBack)
    BY EasyReturns DEF Easy, Reversing, CasCalls
  <2> QED
    BY <1>2, <2>1, GoCarries
<1>6. Carries(k, [k EXCEPT !.pc = "rel_fence", !.m = m], AllBack, AllLost)
  <2>1. Returns(k, "rel_fence", AllBack)
    BY EasyReturns DEF Easy
  <2> QED
    BY <1>2, <2>1, ReadingCarries
<1>7. /\ \/ Step(w, Sync(k, RelOrder(k).pc))
         \/ IsActive(m) /\ Step(w, [k EXCEPT !.pc = "rel_revoke", !.m = m])
         \/ Step(w, Go(k, IF k.c.state = "Fulfilled" THEN "keep_mark" ELSE "keep_cancel"))
         \/ Step(w, [k EXCEPT !.pc = "rel_fence", !.m = m])
      /\ UNCHANGED <<orders, lease, members, numbers, badge, deleted, stripe>>
  BY DEF RelRead
<1> QED
  BY <1>1, <1>3, <1>4, <1>5, <1>6, <1>7, PlainKeeps

LEMMA SyncPlace == ASSUME NEW k, NEW ret, Row(k) PROVE Sync(k, ret).pc = "sync_read"
BY DEF Sync, Row, Fields

LEMMA GoPlace == ASSUME NEW k, NEW pc, Row(k) PROVE Go(k, pc).pc = pc
BY DEF Go, Row, Fields

LEMMA RelRevokeKeeps ==
    ASSUME Inv, NEW w \in Workers, RelRevoke(w), UNCHANGED course
    PROVE  Keeps
<1> PICK k : k = wk[w]
  OBVIOUS
<1>1. k.pc \notin Bare /\ k.pc \in CasCalls
  BY DEF RelRevoke, At, Bare, CasCalls
<1>2. Ready(k, AllLost) /\ Placed(k, AllBack) /\ Row(k)
  BY <1>1, AtWork
<1>3. [k.m EXCEPT !.revoked = "Refund"] \in CipherMembership
  BY <1>1, <1>2 DEF Placed, CipherMembership
<1>4. Returns(k, "rel_read", AllBack)
  BY EasyReturns DEF Easy
<1>5. Carries(k, Sync(k, "rel_read"), AllBack, AllLost) /\ Carries(k, Go(k, "rel_read"), AllBack, AllLost)
  BY <1>2, <1>4, SyncCarries, GoCarries
<1>6. Sync(k, "rel_read").pc \notin CasCalls /\ Go(k, "rel_read").pc \notin CasCalls
  BY <1>2, SyncPlace, GoPlace DEF CasCalls
<1>7. /\ Cas(w, [k.m EXCEPT !.revoked = "Refund"], Sync(k, "rel_read"), Go(k, "rel_read"))
      /\ UNCHANGED <<orders, lease, numbers, badge, deleted, stripe>>
  BY DEF RelRevoke
<1> QED
  BY <1>1, <1>3, <1>5, <1>6, <1>7, CasKeeps

LEMMA KeepMarkKeeps ==
    ASSUME Inv, NEW w \in Workers, KeepMark(w), UNCHANGED course
    PROVE  Keeps
<1> PICK k : k = wk[w]
  OBVIOUS
<1>1. k.pc \notin Bare /\ k.pc \in Reversing
  BY DEF KeepMark, At, Bare, Reversing
<1>2. Ready(k, AllLost) /\ Row(k) /\ k.c.state = "Fulfilled"
  BY <1>1, AtWork, PlaceSays
<1>3. Carries(k, Go(k, "keep_cancel"), AllBack, AllLost) /\ Go(k, "keep_cancel").pc = "keep_cancel"
  BY <1>2, EasyReturns, GoCarries, GoPlace DEF Easy
<1>4. /\ Write(w, AsRefunded(k.c), Go(k, "keep_cancel"))
      /\ UNCHANGED <<lease, members, numbers, badge, deleted, stripe>>
  BY DEF KeepMark
<1> QED
  BY <1>1, <1>2, <1>3, <1>4, AsRefundedKeeps

LEMMA RelMarkKeeps ==
    ASSUME Inv, NEW w \in Workers, RelMark(w), UNCHANGED course
    PROVE  Keeps
<1> PICK k : k = wk[w]
  OBVIOUS
<1>1. k.pc \notin Bare /\ k.pc \in Reversing
  BY DEF RelMark, At, Bare, Reversing
<1>2. Ready(k, AllLost) /\ Row(k) /\ k.c.state = "Fulfilled"
  BY <1>1, AtWork, PlaceSays
<1>3. Carries(k, Go(k, "rel_free"), AllBack, AllLost) /\ Go(k, "rel_free").pc = "rel_free"
  BY <1>2, EasyReturns, GoCarries, GoPlace DEF Easy
<1>4. /\ Write(w, AsRefunded(k.c), Go(k, "rel_free"))
      /\ UNCHANGED <<lease, members, numbers, badge, deleted, stripe>>
  BY DEF RelMark
<1> QED
  BY <1>1, <1>2, <1>3, <1>4, AsRefundedKeeps

\* The number rows change, and only their fields
LEMMA NumbersKeep ==
    ASSUME Inv, NEW w \in Workers, NEW n, wk[w].pc \notin Bare, Step(w, n), numbers' \in [Numbers -> NumberRow],
           UNCHANGED <<orders, lease, members, badge, deleted, stripe, course>>,
           Carries(wk[w], n, AllBack, AllLost)
    PROVE  Keeps
<1>1. Others'
  BY DEF Others, Inv, Tables
<1> QED
  BY <1>1, StepKeeps

LEMMA CancelReleaseType ==
    ASSUME Inv, NEW o, CancelRelease(o)
    PROVE  numbers' \in [Numbers -> NumberRow]
<1>1. \A n \in Numbers : [numbers[n] EXCEPT !.mark = FALSE] \in NumberRow
  BY DEF Inv, Tables, NumberRow
<1> QED
  BY <1>1 DEF CancelRelease, Inv, Tables

LEMMA KeepCancelKeeps ==
    ASSUME Inv, NEW w \in Workers, KeepCancel(w), UNCHANGED course
    PROVE  Keeps
<1>1. wk[w].pc \notin Bare
  BY DEF KeepCancel, At, Bare
<1>2. Carries(wk[w], Done(wk[w]), AllBack, AllLost)
  BY <1>1, AtWork, DoneCarries
<1> QED
  BY <1>1, <1>2, CancelReleaseType, NumbersKeep DEF KeepCancel

LEMMA RelFenceKeeps ==
    ASSUME Inv, NEW w \in Workers, RelFence(w), UNCHANGED course
    PROVE  Keeps
<1> PICK k : k = wk[w]
  OBVIOUS
<1> PICK n : n = [k EXCEPT !.pc = "rel_up", !.waiting = FALSE, !.ups = k.m.orders \ {k.o}]
  OBVIOUS
<1>1. k.pc \notin Bare
  BY DEF RelFence, At, Bare
<1>2. Ready(k, AllLost) /\ Row(k)
  BY <1>1, AtWork
<1>3. n.pc = "rel_up" /\ n.ups = k.m.orders \ {k.o} /\ DOMAIN n = Fields
  BY <1>2 DEF Row, Fields
<1>4. \A f \in Fields \ {"pc", "waiting", "ups"} : n[f] = k[f]
  BY <1>2 DEF Row, Fields
<1>5. k.m.orders \subseteq Orders
  BY <1>2 DEF Row, Membership, CipherMembership, NoMember
<1>6. Row(n)
  BY <1>2, <1>3, <1>4, <1>5 DEF Row, Fields
<1>7. Goes(k, n) /\ n.kind = k.kind
  BY <1>4 DEF Goes, Fields
<1>8. Returns(n, n.pc, AllBack)
  BY <1>3, EasyReturns DEF Easy
<1>9. Carries(k, n, AllBack, AllLost) /\ Carries(k, Abort(k), AllBack, AllLost)
  BY <1>2, <1>6, <1>7, <1>8, CarriesOn, AbortCarries DEF Returns, Ready
<1>10. /\ WriteOr(w, k.c, n, Abort(k))
       /\ UNCHANGED <<lease, members, numbers, badge, deleted, stripe>>
  BY DEF RelFence, Fence, Write
<1> QED
  BY <1>1, <1>9, <1>10, FenceKeeps

LEMMA RelFence2Keeps ==
    ASSUME Inv, NEW w \in Workers, RelFence2(w), UNCHANGED course
    PROVE  Keeps
<1>1. wk[w].pc \notin Bare
  BY DEF RelFence2, At, Bare
<1>2. /\ Carries(wk[w], Go(wk[w], "rel_delete"), AllBack, AllLost)
      /\ Carries(wk[w], Abort(wk[w]), AllBack, AllLost)
  BY <1>1, AtWork, EasyReturns, GoCarries, AbortCarries DEF Easy
<1> QED
  BY <1>1, <1>2, FenceKeeps DEF RelFence2, Fence, Write


\* The loop over the upgrades: only its own fields change
LEMMA LoopCarries ==
    ASSUME NEW k, NEW n, NEW back, NEW lost, Ready(k, lost), DOMAIN n = Fields, n.pc = "rel_up",
           \A f \in Fields \ {"pc", "waiting", "ups", "up"} : n[f] = k[f], n.ups \subseteq k.ups,
           n.up \in {k.up, Free}
    PROVE  Carries(k, n, back, lost)
<1>1. Row(n)
  BY DEF Ready, Row, Fields
<1>2. Goes(k, n) /\ n.kind = k.kind
  BY DEF Goes, Fields
<1>3. Returns(n, n.pc, back)
  BY EasyReturns DEF Easy
<1> QED
  BY <1>1, <1>2, <1>3, CarriesOn DEF VoidCalls, Returns, Ready

\* An upgrade to refund is found
LEMMA LoopPaysKeeps ==
    ASSUME Inv, NEW w \in Workers, NEW k, k = wk[w], k.pc \notin Bare, NEW u \in k.ups, orders[u].intent,
           NEW h, h = [k EXCEPT !.ups = @ \ {u}],
           Step(w, [h EXCEPT !.pc = "rel_refund", !.up = u]),
           UNCHANGED <<orders, lease, members, numbers, badge, deleted, stripe, course>>
    PROVE  Keeps
<1>1. Ready(k, AllLost) /\ Row(k)
  BY AtWork
<1>2. /\ h.ups = k.ups \ {u} /\ DOMAIN h = Fields
      /\ \A f \in Fields \ {"ups"} : h[f] = k[f]
  BY <1>1 DEF Row, Fields
<1> PICK r : r = [h EXCEPT !.pc = "rel_refund", !.up = u]
  OBVIOUS
<1>3. /\ r.ups \subseteq k.ups /\ DOMAIN r = Fields /\ r.pc = "rel_refund" /\ r.up = u
      /\ \A f \in Fields \ {"pc", "ups", "up"} : r[f] = k[f]
  BY <1>2 DEF Fields
<1>4. ASSUME NEW n, n = r PROVE Ready(n, AllLost) /\ Placed(n, AllBack) /\ Goes(k, n)
  <2>1. /\ n.ups \subseteq k.ups /\ DOMAIN n = Fields /\ n.pc = "rel_refund" /\ n.up \in k.ups
        /\ \A f \in Fields \ {"pc", "ups", "up"} : n[f] = k[f]
    BY <1>3, <1>4
  <2>2. Row(n)
    BY <1>1, <2>1 DEF Row, Fields
  <2>3. Goes(k, n) /\ n.kind = k.kind
    BY <2>1 DEF Goes, Fields
  <2>4. Ready(n, AllLost)
    BY <1>1, <2>2, <2>3, ReadyStill DEF Ready
  <2>5. Placed(n, AllBack)
    BY <2>1 DEF Placed, Fits, Selling, Reversing, Bare, SyncCalls, ListCalls, CasCalls, Inserts
  <2> QED
    BY <2>3, <2>4, <2>5
<1>5. AllBack' = AllBack /\ AllLost' = AllLost /\ stripe' \in [Orders -> StripeOrder]
  BY DEF AllBack, AllLost, RefundTaken, Lost, Inv, Tables
<1>6. ~Opens(r)
  BY <1>3 DEF Opens
<1> QED
  BY <1>3, <1>4, <1>5, <1>6, PayKeeps

LEMMA RelUpKeeps ==
    ASSUME Inv, NEW w \in Workers, RelUp(w), UNCHANGED course
    PROVE  Keeps
<1> PICK k : k = wk[w]
  OBVIOUS
<1>1. k.pc = "rel_up" /\ k.pc \notin Bare /\ UNCHANGED <<orders, lease, members, numbers, badge, deleted, stripe, course>>
  BY DEF RelUp, At, Bare
<1>2. Ready(k, AllLost) /\ Row(k)
  BY <1>1, AtWork
<1>3. ASSUME NEW u \in k.ups, NEW s, s = orders[u], NEW h, h = [k EXCEPT !.ups = @ \ {u}],
             Step(w, IF s.state \in {"Refunded", "Voided"} THEN h
                     ELSE IF ~s.intent \/ Disputed(s) THEN [h EXCEPT !.waiting = TRUE]
                     ELSE [h EXCEPT !.pc = "rel_refund", !.up = u])
      PROVE  Keeps
  <2>1. /\ h.ups = k.ups \ {u} /\ DOMAIN h = Fields /\ h.pc = "rel_up" /\ h.up = k.up
        /\ \A f \in Fields \ {"ups"} : h[f] = k[f]
    BY <1>1, <1>2, <1>3 DEF Row, Fields
  <2>2. ASSUME NEW n, n = [h EXCEPT !.waiting = TRUE] PROVE Carries(k, n, AllBack, AllLost)
    <3>1. /\ n.ups = k.ups \ {u} /\ DOMAIN n = Fields /\ n.pc = "rel_up" /\ n.up = k.up
          /\ \A f \in Fields \ {"ups", "waiting"} : n[f] = k[f]
      BY <2>1, <2>2 DEF Fields
    <3> QED
      BY <1>2, <3>1, LoopCarries
  <2>3. Carries(k, h, AllBack, AllLost)
    BY <1>2, <2>1, LoopCarries
  <2>4. CASE Step(w, h)
    BY <1>1, <2>3, <2>4, PlainKeeps
  <2>5. CASE Step(w, [h EXCEPT !.waiting = TRUE])
    BY <1>1, <2>2, <2>5, PlainKeeps
  <2>6. CASE s.intent /\ Step(w, [h EXCEPT !.pc = "rel_refund", !.up = u])
    BY <1>1, <1>3, <2>6, LoopPaysKeeps
  <2> QED
    BY <1>3, <2>4, <2>5, <2>6
<1>4. ASSUME Step(w, IF k.waiting THEN Done(k) ELSE Go(k, "rel_fence2"))
      PROVE  Keeps
  <2>1. Carries(k, Done(k), AllBack, AllLost) /\ Carries(k, Go(k, "rel_fence2"), AllBack, AllLost)
    BY <1>2, DoneCarries, GoCarries, EasyReturns DEF Easy
  <2> QED
    BY <1>1, <1>4, <2>1, PlainKeeps
<1> QED
  BY <1>3, <1>4 DEF RelUp

LEMMA TakenStands == \A o : Taken(o) \subseteq {"settling", "back"}
BY DEF Taken

LEMMA RefundShape ==
    ASSUME NEW q \in StripeOrder, NEW r \in {"settling", "back", "failed"}
    PROVE  /\ WithRefund(q, r) \in StripeOrder /\ WithRefund(q, r).refund = r
           /\ WithRefund(q, r).void = q.void /\ WithRefund(q, r).upgrade = q.upgrade
           /\ WithRefund(q, r).dispute = q.dispute
<1>1. (q.partial /\ r # "back") = IF r = "back" THEN FALSE ELSE q.partial
  <2>1. q.partial \in BOOLEAN
    BY DEF StripeOrder
  <2> QED
    BY <2>1, Zenon
<1>2. PICK b \in BOOLEAN : b = IF r = "back" THEN FALSE ELSE q.partial
  BY DEF StripeOrder
<1>3. WithRefund(q, r) = [q EXCEPT !.refund = r, !.partial = b]
  BY <1>1, <1>2, Zenon DEF WithRefund
<1> QED
  BY <1>2, <1>3 DEF StripeOrder

LEMMA RelRefundKeeps ==
    ASSUME Inv, NEW w \in Workers, RelRefund(w), UNCHANGED course
    PROVE  Keeps
<1> PICK k : k = wk[w]
  OBVIOUS
<1>1. k.pc = "rel_refund" /\ k.pc \notin Bare /\ UNCHANGED <<orders, lease, members, numbers, badge, deleted, course>>
  BY DEF RelRefund, At, Bare
<1>2. Ready(k, AllLost) /\ Row(k)
  BY <1>1, AtWork
<1>3. k.up \in Orders /\ orders[k.up].intent
  BY <1>1, <1>2 DEF Row, Inv, WorkInv, UpInv
<1> PICK y : y = [k EXCEPT !.pc = "rel_up", !.up = Free, !.waiting = TRUE]
  OBVIOUS
<1>4. ASSUME NEW n \in {Go(k, "rel_record"), y}, Step(w, n), stripe' \in [Orders -> StripeOrder],
             AllBack \subseteq AllBack', AllLost \subseteq AllLost',
             \A o \in Orders : stripe'[o].void = stripe[o].void
      PROVE  Keeps
  <2>1. DOMAIN n = Fields /\ (\A f \in Fields \ {"pc", "up", "waiting"} : n[f] = k[f])
        /\ ((n.pc = "rel_record" /\ n.up = k.up) \/ (n.pc = "rel_up" /\ n.up = Free))
    BY <1>2, <1>4 DEF Go, Row, Fields
  <2>2. Row(n)
    BY <1>2, <1>3, <2>1 DEF Row, Fields
  <2>3. Goes(k, n) /\ n.kind = k.kind
    BY <2>1 DEF Goes, Fields
  <2>4. Placed(n, AllBack')
    BY <2>1 DEF Placed, Fits, Selling, Reversing, Bare, SyncCalls, ListCalls, CasCalls, Inserts
  <2>5. Ready(n, AllLost')
    BY <1>2, <1>4, <2>2, <2>3 DEF Ready, Goes
  <2>6. ~Opens(n)
    BY <2>1 DEF Opens
  <2> QED
    BY <1>1, <1>3, <1>4, <2>1, <2>3, <2>4, <2>5, <2>6, PayKeeps
<1>5. ASSUME UNCHANGED stripe
      PROVE  stripe' \in [Orders -> StripeOrder] /\ AllBack \subseteq AllBack' /\ AllLost \subseteq AllLost'
  BY <1>5 DEF Inv, Tables, AllBack, AllLost, RefundTaken, Lost
<1>6. ASSUME NEW r \in Taken(k.up), stripe' = [stripe EXCEPT ![k.up] = [WithRefund(@, r) EXCEPT !.upgrade = TRUE]]
      PROVE  /\ stripe' \in [Orders -> StripeOrder] /\ AllBack \subseteq AllBack' /\ AllLost \subseteq AllLost'
             /\ \A o \in Orders : stripe'[o].void = stripe[o].void
  <2>1. stripe \in [Orders -> StripeOrder] /\ stripe[k.up] \in StripeOrder
    BY <1>3 DEF Inv, Tables
  <2> PICK t : t = WithRefund(stripe[k.up], r)
    OBVIOUS
  <2>2. t \in StripeOrder /\ t.refund # "none" /\ t.void = stripe[k.up].void /\ t.dispute = stripe[k.up].dispute
    BY <2>1, TakenStands, RefundShape
  <2> PICK s : s = [t EXCEPT !.upgrade = TRUE]
    OBVIOUS
  <2>3. s \in StripeOrder /\ s.refund # "none" /\ s.void = stripe[k.up].void /\ s.dispute = stripe[k.up].dispute
    BY <2>2 DEF StripeOrder
  <2>4. stripe' = [stripe EXCEPT ![k.up] = s]
    BY <1>3, <1>6, <2>1
  <2>5. stripe' \in [Orders -> StripeOrder] /\ stripe'[k.up] = s /\ \A o \in Orders \ {k.up} : stripe'[o] = stripe[o]
    BY <1>3, <2>1, <2>3, <2>4
  <2>6. ASSUME NEW o \in Orders
        PROVE  stripe'[o].void = stripe[o].void /\ (RefundTaken(o) => RefundTaken(o)') /\ (Lost(o) => Lost(o)')
    <3>1. CASE o = k.up
      <4>1. stripe'[o] = s /\ stripe[o] = stripe[k.up]
        BY <2>5, <3>1
      <4>2. stripe'[o].void = stripe[o].void
        BY <2>3, <4>1, Zenon
      <4>3. (RefundTaken(o) => RefundTaken(o)') /\ (Lost(o) => Lost(o)')
        BY <2>3, <4>1 DEF RefundTaken, Lost
      <4> QED
        BY <4>2, <4>3
    <3>2. CASE o # k.up
      BY <2>5, <3>2 DEF RefundTaken, Lost
    <3> QED
      BY <3>1, <3>2
  <2> QED
    BY <2>5, <2>6 DEF AllBack, AllLost
<1>7. PICK n \in {Go(k, "rel_record"), y} :
        /\ Step(w, n)
        /\ \/ UNCHANGED stripe
           \/ \E r \in Taken(k.up) : stripe' = [stripe EXCEPT ![k.up] = [WithRefund(@, r) EXCEPT !.upgrade = TRUE]]
  BY DEF RelRefund
<1>8. CASE UNCHANGED stripe
  BY <1>4, <1>5, <1>7, <1>8
<1>9. CASE \E r \in Taken(k.up) : stripe' = [stripe EXCEPT ![k.up] = [WithRefund(@, r) EXCEPT !.upgrade = TRUE]]
  BY <1>4, <1>6, <1>7, <1>9
<1> QED
  BY <1>7, <1>8, <1>9


\* record_upgrade_refunded writes another order than the worker's own
LEMMA AsRefundedState == ASSUME NEW c \in StoredOrder PROVE AsRefunded(c).state = "Refunded"
BY DEF AsRefunded, StoredOrder

LEMMA RelRecordKeeps ==
    ASSUME Inv, NEW w \in Workers, RelRecord(w), UNCHANGED course
    PROVE  Keeps
<1> PICK k : k = wk[w]
  OBVIOUS
<1> PICK u : u = k.up
  OBVIOUS
<1> PICK n : n = [k EXCEPT !.pc = "rel_up", !.up = Free]
  OBVIOUS
<1>1. k.pc = "rel_record" /\ k.pc \notin Bare /\ UNCHANGED <<lease, members, numbers, badge, deleted, stripe, course>>
  BY DEF RelRecord, At, Bare
<1>2. Ready(k, AllLost) /\ Row(k) /\ WorkInv(w) /\ k.o \in Orders
  BY <1>1, AtWork DEF Inv
<1>3. u \in Orders \ {k.o} /\ orders[u].intent
  BY <1>1, <1>2, CipherAssumption DEF Row, WorkInv, UpInv
<1>4. n.pc = "rel_up" /\ n.up = Free /\ DOMAIN n = Fields /\ \A f \in Fields \ {"pc", "up"} : n[f] = k[f]
  BY <1>2 DEF Row, Fields
<1>5. n.ups = k.ups
  BY <1>4 DEF Fields
<1>6. Carries(k, n, AllBack, AllLost)
  BY <1>2, <1>4, <1>5, LoopCarries
<1>7. CASE lease[u] # Free
  <2> PICK r : r = [n EXCEPT !.waiting = TRUE]
    OBVIOUS
  <2>1. r.pc = "rel_up" /\ r.up = Free /\ r.ups = k.ups /\ DOMAIN r = Fields
    BY <1>4, <1>5 DEF Fields
  <2>2. \A f \in Fields \ {"pc", "waiting", "ups", "up"} : r[f] = k[f]
    BY <1>4 DEF Fields
  <2>3. Carries(k, r, AllBack, AllLost)
    BY <1>2, <2>1, <2>2, LoopCarries
  <2>4. Step(w, r) /\ UNCHANGED orders
    BY <1>7 DEF RelRecord
  <2> QED
    BY <1>1, <2>3, <2>4, PlainKeeps
<1>8. CASE lease[u] = Free
  <2>1. /\ orders' = IF orders[u].state \in {"Refunded", "Voided"} THEN orders
                     ELSE [orders EXCEPT ![u] = AsRefunded(@)]
        /\ wk' = [v \in Workers |-> IF v = w THEN n ELSE Outdated(wk[v], u)]
        /\ DOMAIN wk = Workers /\ orders \in [Orders -> StoredOrder]
    BY <1>8 DEF RelRecord, Inv, Tables
  <2> PICK s : s = orders[u]
    OBVIOUS
  <2>2. s \in StoredOrder /\ Sound(u, s) /\ s.intent /\ s.state # "Absent"
        /\ s.state \in {"Paid", "Fulfilled", "Refunded", "Voided"}
    BY <1>3, <2>1 DEF Inv, OrderInv, Sound
  <2> PICK x : x = orders'[u]
    OBVIOUS
  <2>3. x = (IF s.state \in {"Refunded", "Voided"} THEN s ELSE AsRefunded(s))
        /\ \A p \in Orders \ {u} : orders'[p] = orders[p]
    BY <1>3, <2>1
  <2>4. /\ x \in StoredOrder /\ Sound(u, x) /\ x.intent
        /\ x # s => Change(View(s), View(x))
    BY <2>2, <2>3, AsRefundedSound
  <2>5. orders' \in [Orders -> StoredOrder]
    BY <1>3, <2>1, <2>3, <2>4
  <2>6. wk'[w] = n
    BY <2>1
  <2>7. ASSUME NEW v \in Workers \ {w}
        PROVE  /\ Fine(wk[v], AllBack, AllLost) /\ Fine(wk'[v], AllBack, AllLost)
               /\ wk[v].o # u => wk'[v] = wk[v]
               /\ wk'[v].pc = wk[v].pc /\ wk'[v].o = wk[v].o /\ wk'[v].c = wk[v].c /\ wk'[v].up = wk[v].up
               /\ wk[v].o = u => ~wk'[v].mine
               /\ Opens(wk'[v]) = Opens(wk[v])
    <3>1. wk'[v] = IF wk[v].o = u THEN [wk[v] EXCEPT !.mine = FALSE] ELSE wk[v]
      BY <2>1 DEF Outdated
    <3>2. Fine(wk[v], AllBack, AllLost)
      BY DEF Inv, WorkInv
    <3> QED
      BY <3>1, <3>2, UnfencedFine DEF Opens
  <2>8. AllBack' = AllBack /\ AllLost' = AllLost /\ SameMoney
    BY <1>1, NoMoney DEF RefundTaken, Lost, AllBack, AllLost
  <2>9. Tables'
    BY <1>1, <2>1, <2>5 DEF Tables, Inv
  <2>11. n.pc \notin Bare \cup Special /\ Ready(n, AllLost) /\ Placed(n, AllBack) /\ Goes(k, n) /\ ~Opens(n)
    BY <1>6 DEF Carries, Placed
  <2>16. ASSUME NEW p \in Orders
         PROVE  /\ Marked(p)' => Marked(p) \/ Voiding(orders[p])
                /\ \A v \in Workers : wk[v].mine /\ wk'[v].mine /\ wk[v].o = p /\ Marked(p)' => Marked(p)
    <3>1. \A v \in Workers : wk'[v].o = wk[v].o /\ wk'[v].c = wk[v].c
      BY <2>6, <2>7, <2>11 DEF Goes
    <3> QED
      BY <1>1, <3>1, FencesLost
  <2>10. ASSUME NEW p \in Orders PROVE OrderInv(p)'
    <3>1. Sound(p, orders'[p])
      BY <2>3, <2>4 DEF Inv, OrderInv
    <3>2. Voiding(orders[p]) => Voiding(orders'[p])
      BY <2>2, <2>3, AsRefundedState DEF Voiding
    <3> QED
      BY <2>8, <2>16, <3>1, <3>2, SoundStill
  <2>12. WorkInv(w)'
    <3>1. Fine(n, AllBack', AllLost')
      BY <2>8, <2>11 DEF Fine, Ready
    <3>2. orders'[k.o] = orders[k.o]
      BY <1>2, <1>3, <2>3
    <3>3. Tied(w)'
      BY <1>1, <1>2, <2>6, <2>11, <3>2 DEF WorkInv, Tied, Goes, Special
    <3>4. MineInv(w)' /\ OpenInv(w)'
      BY <1>2, <2>6, <2>7, <2>11, <3>2 DEF WorkInv, MineInv, OpenInv, Goes
    <3>5. UpInv(w)' /\ CreateInv(w)'
      BY <2>6, <2>11 DEF UpInv, CreateInv, Special, Bare
    <3> QED
      BY <2>6, <3>1, <3>3, <3>4, <3>5 DEF WorkInv
  <2>14. \A v \in Workers : wk'[v].o = wk[v].o /\ (wk'[v].mine => wk[v].mine) /\ (wk'[v].pc = "create" => wk[v].pc = "create")
    BY <2>6, <2>7, <2>11 DEF Goes, Bare
  <2>13. ASSUME NEW v \in Workers \ {w} PROVE WorkInv(v)'
    <3>1. WorkInv(v) /\ (wk[v].pc \notin Bare => wk[v].o \in Orders) /\ (wk[v].pc = "create" => wk[v].o \in Orders)
          /\ Row(wk[v])
      BY <2>7 DEF Inv, Fine, Ready
    <3>2. Fine(wk'[v], AllBack', AllLost')
      BY <2>7, <2>8
    <3>3. Tied(v)'
      <4>1. ~course.stalls /\ wk[v].pc \notin Bare => wk[v].o # u
        BY <1>8, <3>1, CipherAssumption DEF WorkInv, Tied
      <4> QED
        BY <1>1, <2>3, <2>7, <3>1, <4>1 DEF WorkInv, Tied
    <3>4. UpInv(v)'
      <4>1. wk[v].pc \in {"rel_refund", "rel_record"} => wk[v].up \in Orders /\ orders[wk[v].up].intent
        BY <3>1 DEF WorkInv, UpInv, Row
      <4>2. wk[v].up \in Orders /\ orders[wk[v].up].intent => orders'[wk[v].up].intent
        BY <2>3, <2>4
      <4> QED
        BY <2>7, <4>1, <4>2 DEF UpInv
    <3>5. MineInv(v)'
      <4>1. wk'[v].mine => wk[v].o # u /\ wk[v].o \in Orders /\ wk'[v] = wk[v]
        BY <2>7, <3>1 DEF Fine
      <4>2. wk'[v].mine => orders'[wk[v].o] = wk[v].c
        BY <2>3, <3>1, <4>1 DEF WorkInv, MineInv
      <4>3. ASSUME NEW z \in Workers \ {v}, wk'[v].mine, wk'[z].mine PROVE wk'[z].o # wk'[v].o
        <5>1. wk[v].mine /\ wk[z].mine /\ wk'[z].o = wk[z].o /\ wk'[v].o = wk[v].o
          BY <2>14, <4>3
        <5> QED
          BY <3>1, <5>1 DEF WorkInv, MineInv
      <4> QED
        BY <4>1, <4>2, <4>3 DEF MineInv
    <3>6. CreateInv(v)'
      <4>1. wk[v].pc = "create" => wk[v].o # u /\ orders[wk[v].o].state = "Absent"
        BY <2>2, <3>1 DEF WorkInv, CreateInv
      <4>2. wk[v].pc = "create" => orders'[wk[v].o].state = "Absent"
        BY <2>3, <3>1, <4>1
      <4>3. ASSUME NEW z \in Workers \ {v}, wk'[v].pc = "create", wk'[z].pc = "create" PROVE wk'[z].o # wk'[v].o
        <5>1. wk[v].pc = "create" /\ wk[z].pc = "create" /\ wk'[z].o = wk[z].o /\ wk'[v].o = wk[v].o
          BY <2>14, <4>3
        <5> QED
          BY <3>1, <5>1 DEF WorkInv, CreateInv
      <4> QED
        BY <2>7, <4>2, <4>3 DEF CreateInv
    <3>7. OpenInv(v)'
      BY <2>7, <2>14, <2>16, <3>1, FencedOrder DEF WorkInv, OpenInv
    <3> QED
      BY <3>2, <3>3, <3>4, <3>5, <3>6, <3>7 DEF WorkInv
  <2>15. Life /\ Unpaired
    BY <1>1, <2>2, <2>3, <2>4 DEF Life, Unpaired
  <2> QED
    BY <2>9, <2>10, <2>12, <2>13, <2>15 DEF Keeps, Inv
<1> QED
  BY <1>7, <1>8


LEMMA RelDeleteKeeps ==
    ASSUME Inv, NEW w \in Workers, RelDelete(w), UNCHANGED course
    PROVE  Keeps
<1> PICK k : k = wk[w]
  OBVIOUS
<1>1. k.pc \notin Bare /\ UNCHANGED <<orders, lease, numbers, badge, deleted, stripe, course>>
  BY DEF RelDelete, At, Bare
<1>2. Ready(k, AllLost)
  BY <1>1, AtWork
<1>3. Carries(k, Sync(k, RelOrder(k).pc), AllBack, AllLost)
  BY <1>2, RelOrderCarries, SyncCarries
<1>4. Carries(k, [k EXCEPT !.pc = "rel_read", !.m = NoMember], AllBack, AllLost)
  <2>1. Returns(k, "rel_read", AllBack)
    BY EasyReturns DEF Easy
  <2> QED
    BY <1>2, <2>1, NoMemberType, ReadingCarries
<1>5. CASE members' = [members EXCEPT ![User(k)] = NoMember] /\ Step(w, Sync(k, RelOrder(k).pc))
  BY <1>1, <1>3, <1>5, NoMemberType, MembersKeep
<1>6. CASE Step(w, [k EXCEPT !.pc = "rel_read", !.m = NoMember]) /\ UNCHANGED members
  BY <1>1, <1>4, <1>6, PlainKeeps
<1> QED
  BY <1>5, <1>6 DEF RelDelete

LEMMA RelFreeKeeps ==
    ASSUME Inv, NEW w \in Workers, RelFree(w), UNCHANGED course
    PROVE  Keeps
<1>1. wk[w].pc \notin Bare
  BY DEF RelFree, At, Bare
<1>2. Carries(wk[w], Abort(wk[w]), AllBack, AllLost) /\ Carries(wk[w], Go(wk[w], "rel_put"), AllBack, AllLost)
  BY <1>1, AtWork, AbortCarries, EasyReturns, GoCarries DEF Easy
<1>3. /\ Step(w, Abort(wk[w])) \/ Step(w, Go(wk[w], "rel_put"))
      /\ UNCHANGED <<orders, lease, members, numbers, badge, deleted, stripe>>
  BY DEF RelFree
<1> QED
  BY <1>1, <1>2, <1>3, PlainKeeps

LEMMA RelPutKeeps ==
    ASSUME Inv, NEW w \in Workers, RelPut(w), UNCHANGED course
    PROVE  Keeps
<1>1. wk[w].pc \notin Bare
  BY DEF RelPut, At, Bare
<1>2. Carries(wk[w], Done(wk[w]), AllBack, AllLost)
  BY <1>1, AtWork, DoneCarries
<1>3. numbers' \in [Numbers -> NumberRow]
  BY DEF RelPut, Inv, Tables, NumberRow
<1> QED
  BY <1>1, <1>2, <1>3, NumbersKeep DEF RelPut

LEMMA ReleaseNextKeeps ==
    ASSUME Inv, NEW w \in Workers, ReleaseNext(w), UNCHANGED course
    PROVE  Keeps
BY RelReadKeeps, RelRevokeKeeps, KeepMarkKeeps, KeepCancelKeeps, RelFenceKeeps, RelUpKeeps, RelRefundKeeps,
   RelRecordKeeps, RelFence2Keeps, RelDeleteKeeps, RelMarkKeeps, RelFreeKeeps, RelPutKeeps DEF ReleaseNext

-----------------------------------------------------------------------------
\* reverse_locked

LEMMA KindOfType ==
    ASSUME Inv, NEW o \in Orders, NEW d \in Disputes
    PROVE  /\ KindOf(stripe[o].dispute[d]) \in Kinds
           /\ KindOf(stripe[o].dispute[d]) = "DisputeLost" => o \in AllLost
BY DEF KindOf, Kinds, AllLost, Lost

\* One dispute of those to do is looked at
LEMMA NextDisputeCarries ==
    ASSUME Inv, NEW w \in Workers, NEW k, k = wk[w], k.pc \notin Bare, k.task # "delete", NEW d \in k.todo,
           NEW h, DOMAIN h = Fields, h.todo \subseteq k.todo, \A f \in Fields \ {"todo"} : h[f] = k[f]
    PROVE  Carries(k, ReverseStart(h, KindOf(stripe[k.o].dispute[d]), {d}, FALSE), AllBack, AllLost)
<1>1. Ready(k, AllLost) /\ Row(k) /\ k.o \in Orders
  BY AtWork
<1>2. k.todo \subseteq Disputes
  BY <1>1 DEF Row
<1>3. Row(h)
  BY <1>1, <1>2 DEF Row, Fields
<1>4. Goes(k, h) /\ h.kind = k.kind
  BY DEF Goes, Fields
<1>5. Ready(h, AllLost)
  BY <1>1, <1>3, <1>4, ReadyStill DEF Ready
<1>6. /\ KindOf(stripe[k.o].dispute[d]) \in Kinds /\ h.o = k.o /\ {d} \subseteq Disputes
      /\ KindOf(stripe[k.o].dispute[d]) = "DisputeLost" => k.o \in AllLost
  BY <1>1, <1>2, <1>4, KindOfType DEF Goes
<1>7. Carries(h, ReverseStart(h, KindOf(stripe[k.o].dispute[d]), {d}, FALSE), AllBack, AllLost)
  BY <1>5, <1>6, ReverseStartCarries
<1> QED
  BY <1>4, <1>7, CarriesTwice

LEMMA DisputeReadKeeps ==
    ASSUME Inv, NEW w \in Workers, DisputeRead(w), UNCHANGED course
    PROVE  Keeps
<1> PICK k : k = wk[w]
  OBVIOUS
<1>1. k.pc = "dispute_read" /\ k.pc \notin Bare /\ UNCHANGED <<orders, lease, members, numbers, badge, deleted, stripe, course>>
  BY DEF DisputeRead, At, Bare
<1>2. Row(k) /\ k.task # "delete"
  BY <1>1, AtWork DEF Fits
<1> PICK h : h = [k EXCEPT !.todo = {}]
  OBVIOUS
<1>3. DOMAIN h = Fields /\ h.todo \subseteq k.todo /\ \A f \in Fields \ {"todo"} : h[f] = k[f]
  BY <1>2 DEF Row, Fields
<1>4. PICK d \in k.todo : Step(w, ReverseStart(h, KindOf(stripe[k.o].dispute[d]), {d}, FALSE))
  BY DEF DisputeRead
<1>5. Carries(k, ReverseStart(h, KindOf(stripe[k.o].dispute[d]), {d}, FALSE), AllBack, AllLost)
  BY <1>1, <1>2, <1>3, NextDisputeCarries
<1> QED
  BY <1>1, <1>4, <1>5, PlainKeeps

LEMMA LarReadKeeps ==
    ASSUME Inv, NEW w \in Workers, LarRead(w), UNCHANGED course
    PROVE  Keeps
<1> PICK k : k = wk[w]
  OBVIOUS
<1> PICK m : m = Read(k)
  OBVIOUS
<1>1. k.pc \notin Bare /\ UNCHANGED <<orders, lease, members, numbers, badge, deleted, stripe, course>>
  BY DEF LarRead, At, Bare
<1>2. Ready(k, AllLost) /\ m \in Membership
  BY <1>1, AtWork, UserType
<1>3. Carries(k, Done(k), AllBack, AllLost)
  BY <1>2, DoneCarries
<1>4. Holds(m, k.o) => Carries(k, [k EXCEPT !.pc = "lar_cas", !.m = m], AllBack, AllLost)
  <2>1. Holds(m, k.o) => m \in CipherMembership
    BY <1>2 DEF Holds, Membership
  <2>2. Onward(k, "lar_cas", AllBack) /\ "lar_cas" \in CasCalls
    BY CasOnward DEF CasCalls
  <2> QED
    BY <1>2, <2>1, <2>2, CasReadCarries
<1>5. Step(w, Done(k)) \/ (Holds(m, k.o) /\ Step(w, [k EXCEPT !.pc = "lar_cas", !.m = m]))
  BY DEF LarRead
<1> QED
  BY <1>1, <1>3, <1>4, <1>5, PlainKeeps

LEMMA DonePlace == ASSUME NEW k, Row(k) PROVE Done(k).pc \in {"release", "recheck"}
BY DEF Done, Row, Fields

LEMMA LarCasKeeps ==
    ASSUME Inv, NEW w \in Workers, LarCas(w), UNCHANGED course
    PROVE  Keeps
<1> PICK k : k = wk[w]
  OBVIOUS
<1>1. k.pc \notin Bare /\ k.pc \in CasCalls
  BY DEF LarCas, At, Bare, CasCalls
<1>2. Ready(k, AllLost) /\ Placed(k, AllBack) /\ Row(k)
  BY <1>1, AtWork
<1>3. [k.m EXCEPT !.revoked = "DisputeLost"] \in CipherMembership
  BY <1>1, <1>2 DEF Placed, CipherMembership
<1>4. Carries(k, Done(k), AllBack, AllLost) /\ Carries(k, Go(k, "lar_read"), AllBack, AllLost)
  BY <1>2, DoneCarries, GoCarries, EasyReturns DEF Easy
<1>5. Done(k).pc \notin CasCalls /\ Go(k, "lar_read").pc \notin CasCalls
  BY <1>2, DonePlace, GoPlace DEF CasCalls
<1>6. /\ Cas(w, [k.m EXCEPT !.revoked = "DisputeLost"], Done(k), Go(k, "lar_read"))
      /\ UNCHANGED <<orders, lease, numbers, badge, deleted, stripe>>
  BY DEF LarCas
<1> QED
  BY <1>1, <1>3, <1>4, <1>5, <1>6, CasKeeps


\* The worker with another copy
Copied(k, x, h) == h = [k EXCEPT !.c = x]

LEMMA CopyReady ==
    ASSUME NEW k, NEW x \in StoredOrder, NEW lost, NEW h, Copied(k, x, h), Ready(k, lost),
           x.state # "Absent", x.pending = "DisputeLost" => k.o \in lost
    PROVE  /\ Ready(h, lost) /\ h.o = k.o /\ h.mine = k.mine /\ h.c = x /\ h.task = k.task
           /\ h.reason = k.reason
<1>1. h.c = x /\ DOMAIN h = Fields /\ \A f \in Fields \ {"c"} : h[f] = k[f]
  BY DEF Ready, Row, Fields, Copied
<1>2. Row(h)
  BY <1>1 DEF Ready, Row, Fields
<1>3. h.o = k.o /\ h.mine = k.mine /\ h.c = x /\ h.task = k.task /\ h.reason = k.reason /\ h.kind = k.kind
  BY <1>1 DEF Fields
<1> QED
  BY <1>2, <1>3 DEF Ready

LEMMA PlannedStores ==
    ASSUME NEW k, NEW x \in StoredOrder, NEW back, NEW lost, NEW h, Copied(k, x, h), NEW next, Ready(k, lost),
           x.state # "Absent", x.pending = "DisputeLost" => k.o \in lost,
           Ready(h, lost) /\ h.c = x /\ h.task = k.task /\ h.reason = k.reason => Carries(h, next, back, lost)
    PROVE  Stores(k, x, [next EXCEPT !.c = x], back, lost)
<1>1. /\ Ready(h, lost) /\ h.o = k.o /\ h.mine = k.mine /\ h.c = x /\ h.task = k.task
      /\ h.reason = k.reason
  BY CopyReady
<1>2. Carries(h, next, back, lost)
  BY <1>1
<1> QED
  BY <1>1, <1>2, StoresPlanned

\* A write whose next step is planned with the new copy
LEMMA PlannedKeeps ==
    ASSUME Inv, NEW w \in Workers, NEW k, k = wk[w], NEW x, NEW h, Copied(k, x, h), NEW next, k.pc \notin Bare,
           Write(w, x, next), UNCHANGED <<lease, members, numbers, badge, deleted, stripe, course>>,
           k.mine => /\ x \in StoredOrder /\ x.state # "Absent" /\ Sound(k.o, x) /\ (k.c.intent => x.intent)
                     /\ Change(View(k.c), View(x)),
           Ready(h, AllLost) /\ h.c = x /\ h.task = k.task /\ h.reason = k.reason => Carries(h, next, AllBack, AllLost)
    PROVE  Keeps
<1>1. Ready(k, AllLost) /\ k.o \in Orders /\ (k.o \in AllLost <=> Lost(k.o))
  BY AtWork
<1>2. Carries(k, Abort(k), AllBack, AllLost)
  BY <1>1, AbortCarries
<1>3. k.mine => Stores(k, x, [next EXCEPT !.c = x], AllBack, AllLost)
  <2> SUFFICES ASSUME k.mine PROVE Stores(k, x, [next EXCEPT !.c = x], AllBack, AllLost)
    OBVIOUS
  <2>1. x.pending = "DisputeLost" => k.o \in AllLost
    BY <1>1 DEF Sound
  <2>0. x \in StoredOrder /\ x.state # "Absent"
    OBVIOUS
  <2> QED
    BY <1>1, <2>0, <2>1, PlannedStores
<1>4. WriteOr(w, x, next, Abort(k))
  BY DEF Write
<1> QED
  BY <1>2, <1>3, <1>4, WriteKeeps

\* A write whose next step was planned before, and fits the new copy
LEMMA NewCopyKeeps ==
    ASSUME Inv, NEW w \in Workers, NEW k, k = wk[w], NEW x, NEW next, k.pc \notin Bare,
           Write(w, x, next), UNCHANGED <<lease, members, numbers, badge, deleted, stripe, course>>,
           k.mine => /\ x \in StoredOrder /\ x.state # "Absent" /\ Sound(k.o, x) /\ (k.c.intent => x.intent)
                     /\ Change(View(k.c), View(x))
                     /\ Fits(k.o, x, k.task, next.reason, next.pc, AllBack),
           Carries(k, next, AllBack, AllLost), next.pc \notin SyncCalls \cup ListCalls \cup VoidCalls
    PROVE  Keeps
<1>1. Ready(k, AllLost) /\ k.o \in Orders /\ (k.o \in AllLost <=> Lost(k.o))
  BY AtWork
<1>2. Carries(k, Abort(k), AllBack, AllLost)
  BY <1>1, AbortCarries
<1>3. k.mine => Stores(k, x, [next EXCEPT !.c = x], AllBack, AllLost)
  <2> SUFFICES ASSUME k.mine PROVE Stores(k, x, [next EXCEPT !.c = x], AllBack, AllLost)
    OBVIOUS
  <2>1. x.pending = "DisputeLost" => k.o \in AllLost
    BY <1>1 DEF Sound
  <2> QED
    BY <2>1, StoresNew
<1>4. WriteOr(w, x, next, Abort(k))
  BY DEF Write
<1> QED
  BY <1>2, <1>3, <1>4, WriteKeeps

LEMMA DisputesAfterType == ASSUME NEW k, Row(k) PROVE DisputesAfter(k) \in SUBSET Disputes
BY DEF DisputesAfter, Row, StoredOrder

\* record_before_fulfilment
LEMMA RecordedSound ==
    ASSUME NEW k, Row(k), Sound(k.o, k.c), k.kind = "DisputeLost" => Lost(k.o), k.c.state \in BeforeFulfilment
    PROVE  /\ Recorded(k) \in StoredOrder /\ Recorded(k).state = k.c.state
           /\ Sound(k.o, Recorded(k)) /\ (k.c.intent => Recorded(k).intent)
           /\ Change(View(k.c), View(Recorded(k)))
<1> PICK c : c = k.c
  OBVIOUS
<1> PICK d : d = DisputesAfter(k)
  OBVIOUS
<1> PICK p : p = CASE k.kind = "DisputeLost" -> "DisputeLost"
                   [] k.kind = "Refund" /\ c.pending = "None" -> "Refund"
                   [] OTHER -> c.pending
  OBVIOUS
<1> PICK x : x = [c EXCEPT !.open = d, !.pending = p]
  OBVIOUS
<1>1. x = Recorded(k)
  BY DEF Recorded
<1>2. c \in StoredOrder /\ d \in SUBSET Disputes /\ p \in Reversal
  BY DisputesAfterType DEF Row, StoredOrder, Reversal
<1>3. /\ x \in StoredOrder /\ x.open = d /\ x.pending = p /\ x.state = c.state /\ x.intent = c.intent
      /\ x.reason = c.reason /\ x.linked = c.linked
  BY <1>2 DEF StoredOrder
<1>4. p = "DisputeLost" => Lost(k.o)
  BY DEF Sound
<1>5. Sound(k.o, x)
  BY <1>3, <1>4 DEF Sound, Voiding, BeforeFulfilment, Unpaid
<1>6. Change(View(c), View(x))
  <2>1. CASE k.kind = "DisputeLost"
    <3>1. x.pending = "DisputeLost" /\ x.state = c.state /\ x.intent = c.intent /\ x.linked = c.linked
      BY <1>3, <2>1
    <3> QED
      BY <3>1, LostKnownChange
  <2>2. CASE k.kind = "Refund"
    <3>1. /\ x.pending = (IF c.pending = "None" THEN "Refund" ELSE c.pending) /\ x.open = c.open
          /\ x.state = c.state /\ x.intent = c.intent /\ x.linked = c.linked
      BY <1>3, <2>2 DEF DisputesAfter
    <3> QED
      BY <3>1, RefundKnownChange
  <2>3. CASE k.kind \notin {"Refund", "DisputeLost"}
    <3>1. x.pending = c.pending /\ x.state = c.state /\ x.intent = c.intent /\ x.linked = c.linked
      BY <1>3, <2>3
    <3> QED
      BY <3>1, DisputeKnownChange
  <2> QED
    BY <2>1, <2>2, <2>3
<1> QED
  BY <1>1, <1>3, <1>5, <1>6

LEMMA RecWriteKeeps ==
    ASSUME Inv, NEW w \in Workers, RecWrite(w), UNCHANGED course
    PROVE  Keeps
<1> PICK k : k = wk[w]
  OBVIOUS
<1> PICK x : x = Recorded(k)
  OBVIOUS
<1> PICK h : h = [k EXCEPT !.c = x]
  OBVIOUS
<1>1. k.pc = "rec_write" /\ k.pc \notin Bare
  BY DEF RecWrite, At, Bare
<1>2. Row(k) /\ k.c.state \in BeforeFulfilment
  BY <1>1, AtWork DEF Fits
<1>3. k.kind = "DisputeLost" => Lost(k.o)
  BY <1>1, AtWork DEF Ready
<1>4. k.mine => /\ x \in StoredOrder /\ x.state # "Absent" /\ Sound(k.o, x) /\ (k.c.intent => x.intent)
                /\ Change(View(k.c), View(x))
  BY <1>1, <1>2, <1>3, AtWork, RecordedSound
<1>5. Ready(h, AllLost) => Carries(h, Mirror(h), AllBack, AllLost)
  BY MirrorCarries
<1>6. Write(w, x, Mirror(h)) /\ UNCHANGED <<lease, members, numbers, badge, deleted, stripe>>
  BY DEF RecWrite
<1>7. Copied(k, x, h)
  BY DEF Copied
<1> QED
  BY <1>1, <1>4, <1>5, <1>6, <1>7, PlannedKeeps

-----------------------------------------------------------------------------
\* reverse_fulfilled

\* A worker at one of its calls
LEMMA Reverser ==
    ASSUME Inv, NEW w \in Workers, NEW k, k = wk[w], k.pc \in Reversing
    PROVE  /\ k.pc \notin Bare /\ Ready(k, AllLost) /\ Row(k) /\ k.c.state = "Fulfilled" /\ k.o \in Orders
           /\ \A pc \in (Reversing \ ({"clear"} \cup CasCalls)) \cup {"rel_check"} : Carries(k, Go(k, pc), AllBack, AllLost)
           /\ Carries(k, Done(k), AllBack, AllLost) /\ Carries(k, Abort(k), AllBack, AllLost)
<1>1. k.pc \notin Bare
  BY DEF Bare, Reversing
<1>2. Ready(k, AllLost) /\ Row(k) /\ k.c.state = "Fulfilled" /\ k.o \in Orders
  BY <1>1, AtWork, PlaceSays
<1>3. \A pc \in (Reversing \ ({"clear"} \cup CasCalls)) \cup {"rel_check"} : Carries(k, Go(k, pc), AllBack, AllLost)
  BY <1>2, EasyReturns, GoCarries
<1> QED
  BY <1>1, <1>2, <1>3, DoneCarries, AbortCarries

LEMMA RevRecordKeeps ==
    ASSUME Inv, NEW w \in Workers, RevRecord(w), UNCHANGED course
    PROVE  Keeps
<1> PICK k : k = wk[w]
  OBVIOUS
<1> PICK x : x = [k.c EXCEPT !.open = DisputesAfter(k)]
  OBVIOUS
<1> PICK h : h = [k EXCEPT !.c = x]
  OBVIOUS
<1>1. k.pc \in Reversing
  BY DEF RevRecord, At, Reversing
<1>2. k.pc \notin Bare /\ Ready(k, AllLost) /\ Row(k) /\ k.c.state = "Fulfilled" /\ k.c \in StoredOrder
  BY <1>1, Reverser DEF Row
<1>3. /\ x \in StoredOrder /\ x.state = k.c.state /\ x.intent = k.c.intent
      /\ x.reason = k.c.reason /\ x.linked = k.c.linked /\ x.pending = k.c.pending
  BY <1>2, DisputesAfterType DEF StoredOrder
<1>4. k.mine => Sound(k.o, x)
  <2>1. k.mine => Sound(k.o, k.c)
    BY <1>2, AtWork
  <2> QED
    BY <1>3, <2>1 DEF Sound, Voiding
<1>5. Change(View(k.c), View(x))
  BY <1>2, <1>3, DisputeChange
<1>6. Ready(h, AllLost) /\ h.c = x => Carries(h, AfterRecord(h), AllBack, AllLost)
  BY <1>2, <1>3, AfterRecordCarries
<1>7. Copied(k, x, h)
  BY DEF Copied
<1>8. Write(w, x, AfterRecord(h)) /\ UNCHANGED <<lease, members, numbers, badge, deleted, stripe>>
  BY DEF RevRecord
<1>9. k.mine => /\ x \in StoredOrder /\ x.state # "Absent" /\ Sound(k.o, x) /\ (k.c.intent => x.intent)
                /\ Change(View(k.c), View(x))
  BY <1>2, <1>3, <1>4, <1>5
<1> QED
  BY <1>2, <1>6, <1>7, <1>8, <1>9, PlannedKeeps

LEMMA LostFenceKeeps ==
    ASSUME Inv, NEW w \in Workers, LostFence(w), UNCHANGED course
    PROVE  Keeps
<1> PICK k : k = wk[w]
  OBVIOUS
<1>1. k.pc \in Reversing
  BY DEF LostFence, At, Reversing
<1>2. /\ k.pc \notin Bare /\ Carries(k, Go(k, "lost_cancel"), AllBack, AllLost)
      /\ Carries(k, Go(k, "rel_check"), AllBack, AllLost) /\ Carries(k, Abort(k), AllBack, AllLost)
  BY <1>1, Reverser DEF Reversing, CasCalls
<1>3. UNCHANGED <<lease, members, numbers, badge, deleted, stripe>>
  BY DEF LostFence
<1>4. CASE ReleaseMarked(k.o)
  <2>1. WriteOr(w, k.c, Go(k, "lost_cancel"), Abort(k))
    BY <1>4 DEF LostFence, Fence, Write
  <2> QED
    BY <1>2, <1>3, <2>1, FenceKeeps
<1>5. CASE ~ReleaseMarked(k.o)
  <2>1. Step(w, Go(k, "rel_check")) /\ UNCHANGED orders
    BY <1>5 DEF LostFence
  <2> QED
    BY <1>2, <1>3, <2>1, PlainKeeps
<1> QED
  BY <1>4, <1>5

LEMMA LostCancelKeeps ==
    ASSUME Inv, NEW w \in Workers, LostCancel(w), UNCHANGED course
    PROVE  Keeps
<1>1. wk[w].pc \in Reversing
  BY DEF LostCancel, At, Reversing
<1>2. wk[w].pc \notin Bare /\ Carries(wk[w], Go(wk[w], "rel_check"), AllBack, AllLost)
  BY <1>1, Reverser
<1> QED
  BY <1>2, CancelReleaseType, NumbersKeep DEF LostCancel

LEMMA RelCheckKeeps ==
    ASSUME Inv, NEW w \in Workers, RelCheck(w), UNCHANGED course
    PROVE  Keeps
<1> PICK k : k = wk[w]
  OBVIOUS
<1>1. k.pc = "rel_check" /\ k.pc \notin Bare
  BY DEF RelCheck, At, Bare
<1>2. Ready(k, AllLost) /\ (k.c.state = "Fulfilled" \/ k.task = "release")
  BY <1>1, AtWork DEF Fits
<1>3. ReleaseMarked(k.o) => NumberOf(k.o) # {}
  BY DEF ReleaseMarked
<1>4. ReleaseMarked(k.o) => Carries(k, RelEnter(k), AllBack, AllLost)
  BY <1>2, <1>3, RelEnterCarries
<1>5. Carries(k, Stop(k), AllBack, AllLost)
  BY <1>2, StopCarries
<1>6. k.task # "release" => /\ Carries(k, NoMembership(k), AllBack, AllLost)
                            /\ Carries(k, Go(k, "plan"), AllBack, AllLost)
                            /\ Carries(k, Go(k, "rev_read"), AllBack, AllLost)
  BY <1>2, NoMembershipCarries, EasyReturns, GoCarries DEF Reversing, CasCalls
<1>7. PICK n : /\ Step(w, n)
               /\ n = IF IsNew(k.o) /\ ReleaseMarked(k.o) THEN RelEnter(k)
                      ELSE IF k.task = "release" THEN Stop(k)
                      ELSE IF ~k.c.linked THEN NoMembership(k)
                      ELSE IF k.kind = "Refund" /\ ~k.planned THEN Go(k, "plan")
                      ELSE Go(k, "rev_read")
  BY DEF RelCheck
<1>8. Carries(k, n, AllBack, AllLost)
  BY <1>4, <1>5, <1>6, <1>7
<1>9. UNCHANGED <<orders, lease, members, numbers, badge, deleted, stripe>>
  BY DEF RelCheck
<1> QED
  BY <1>1, <1>7, <1>8, <1>9, PlainKeeps

LEMMA ClearKeeps ==
    ASSUME Inv, NEW w \in Workers, Clear(w), UNCHANGED course
    PROVE  Keeps
<1> PICK k : k = wk[w]
  OBVIOUS
<1> PICK x : x = [k.c EXCEPT !.pending = "None"]
  OBVIOUS
<1>1. k.pc = "clear" /\ k.pc \in Reversing
  BY DEF Clear, At, Reversing
<1>2. /\ k.pc \notin Bare /\ Ready(k, AllLost) /\ Row(k) /\ k.c.state = "Fulfilled" /\ k.c \in StoredOrder
      /\ Carries(k, Done(k), AllBack, AllLost)
  BY <1>1, Reverser DEF Row
<1>3. k.c.pending # "None"
  BY <1>1, <1>2, AtWork DEF Fits
<1>4. /\ x \in StoredOrder /\ x.state = k.c.state /\ x.intent = k.c.intent
      /\ x.reason = k.c.reason /\ x.linked = k.c.linked /\ x.pending = "None" /\ x.open = k.c.open
  BY <1>2 DEF StoredOrder, Reversal
<1>5. k.mine => Sound(k.o, x)
  <2>1. k.mine => Sound(k.o, k.c)
    BY <1>2, AtWork
  <2> QED
    BY <1>4, <2>1 DEF Sound, Voiding
<1>6. Change(View(k.c), View(x))
  BY <1>2, <1>3, <1>4, DropChange
<1> PICK pc : pc = Done(k).pc
  OBVIOUS
<1>7. pc \in {"release", "recheck"} /\ (pc = "recheck" => k.task # "delete")
  BY <1>2, DonePlace DEF Done, Row, Fields
<1>8. Fits(k.o, x, k.task, Done(k).reason, pc, AllBack)
  BY <1>7 DEF Fits, Selling, Reversing
<1>9. pc \notin SyncCalls \cup ListCalls \cup VoidCalls
  BY <1>7 DEF SyncCalls, ListCalls, VoidCalls
<1>10. Write(w, x, Done(k)) /\ UNCHANGED <<lease, members, numbers, badge, deleted, stripe>>
  BY DEF Clear
<1>11. k.mine => /\ x \in StoredOrder /\ x.state # "Absent" /\ Sound(k.o, x) /\ (k.c.intent => x.intent)
                 /\ Change(View(k.c), View(x))
                 /\ Fits(k.o, x, k.task, Done(k).reason, Done(k).pc, AllBack)
  BY <1>2, <1>4, <1>5, <1>6, <1>8
<1> QED
  BY <1>2, <1>9, <1>10, <1>11, NewCopyKeeps

LEMMA RefundPlanKeeps ==
    ASSUME Inv, NEW w \in Workers, RefundPlan(w), UNCHANGED course
    PROVE  Keeps
<1> PICK k : k = wk[w]
  OBVIOUS
<1> PICK m : m = Read(k)
  OBVIOUS
<1>1. k.pc \in Reversing
  BY DEF RefundPlan, At, Reversing
<1>2. /\ k.pc \notin Bare /\ Ready(k, AllLost) /\ k.c.state = "Fulfilled"
      /\ Carries(k, Go(k, "rev_read"), AllBack, AllLost) /\ Carries(k, Go(k, "refunded"), AllBack, AllLost)
      /\ Carries(k, Go(k, "plan_fence"), AllBack, AllLost)
  BY <1>1, Reverser DEF Reversing, CasCalls
<1>3. m \in Membership
  BY <1>2, UserType
<1>4. Holds(m, k.o) => Carries(k, [k EXCEPT !.pc = "down_cas", !.m = m], AllBack, AllLost)
  <2>1. Holds(m, k.o) => m \in CipherMembership
    BY <1>3 DEF Holds, Membership
  <2>2. Onward(k, "down_cas", AllBack) /\ "down_cas" \in CasCalls
    BY <1>2, CasOnward DEF CasCalls
  <2> QED
    BY <1>2, <2>1, <2>2, CasReadCarries
<1>5. PICK undo \in BOOLEAN :
        Step(w, CASE Plan(k, m, undo) = "revoke" -> Go(k, "rev_read")
                   [] Plan(k, m, undo) = "refund_only" -> Go(k, "refunded")
                   [] Plan(k, m, undo) = "release" -> Go(k, "plan_fence")
                   [] Plan(k, m, undo) = "downgrade" -> [k EXCEPT !.pc = "down_cas", !.m = m])
  BY DEF RefundPlan
<1>6. /\ Plan(k, m, undo) \in {"revoke", "refund_only", "release", "downgrade"}
      /\ Plan(k, m, undo) = "downgrade" => Holds(m, k.o)
  BY DEF Plan
<1>7. \/ Step(w, Go(k, "rev_read")) \/ Step(w, Go(k, "refunded")) \/ Step(w, Go(k, "plan_fence"))
      \/ Holds(m, k.o) /\ Step(w, [k EXCEPT !.pc = "down_cas", !.m = m])
  BY <1>5, <1>6
<1>8. UNCHANGED <<orders, lease, members, numbers, badge, deleted, stripe>>
  BY DEF RefundPlan
<1> QED
  BY <1>2, <1>4, <1>7, <1>8, PlainKeeps

LEMMA PlanFenceKeeps ==
    ASSUME Inv, NEW w \in Workers, PlanFence(w), UNCHANGED course
    PROVE  Keeps
<1>1. wk[w].pc \in Reversing
  BY DEF PlanFence, At, Reversing
<1>2. /\ wk[w].pc \notin Bare /\ Carries(wk[w], Go(wk[w], "plan_mark"), AllBack, AllLost)
      /\ Carries(wk[w], Abort(wk[w]), AllBack, AllLost)
  BY <1>1, Reverser DEF Reversing, CasCalls
<1> QED
  BY <1>2, FenceKeeps DEF PlanFence, Fence, Write

LEMMA PlanMarkKeeps ==
    ASSUME Inv, NEW w \in Workers, PlanMark(w), UNCHANGED course
    PROVE  Keeps
<1> PICK k : k = wk[w]
  OBVIOUS
<1> PICK n : n = [k EXCEPT !.pc = "rel_check", !.planned = TRUE]
  OBVIOUS
<1>1. k.pc \in Reversing
  BY DEF PlanMark, At, Reversing
<1>2. /\ k.pc \notin Bare /\ Ready(k, AllLost) /\ Row(k) /\ k.c.state = "Fulfilled"
      /\ Carries(k, Go(k, "rev_read"), AllBack, AllLost)
  BY <1>1, Reverser DEF Reversing, CasCalls
<1>3. n.pc = "rel_check" /\ DOMAIN n = Fields
  BY <1>2 DEF Row, Fields
<1>4. \A f \in Fields \ {"pc", "planned"} : n[f] = k[f]
  BY <1>2 DEF Row, Fields
<1>5. Row(n)
  BY <1>2, <1>3, <1>4 DEF Row, Fields
<1>6. Goes(k, n) /\ n.kind = k.kind /\ n.c.state = "Fulfilled"
  BY <1>2, <1>4 DEF Goes, Fields
<1>7. Returns(n, n.pc, AllBack)
  BY <1>3, <1>6, EasyReturns
<1>8. Carries(k, n, AllBack, AllLost)
  BY <1>2, <1>5, <1>6, <1>7, CarriesOn DEF VoidCalls, Returns, Ready
<1>9. \A i \in Numbers : [numbers[i] EXCEPT !.mark = TRUE] \in NumberRow
  BY DEF Inv, Tables, NumberRow
<1>10. numbers' \in [Numbers -> NumberRow]
  BY <1>9 DEF PlanMark, Inv, Tables
<1>11. /\ Step(w, Go(k, "rev_read")) \/ Step(w, n)
       /\ UNCHANGED <<orders, lease, members, badge, deleted, stripe>>
  BY DEF PlanMark
<1> QED
  BY <1>2, <1>8, <1>10, <1>11, NumbersKeep

LEMMA DownCasKeeps ==
    ASSUME Inv, NEW w \in Workers, DownCas(w), UNCHANGED course
    PROVE  Keeps
<1> PICK k : k = wk[w]
  OBVIOUS
<1> PICK row : row = [k.m EXCEPT !.tier = From[k.o], !.orders = @ \ {k.o}, !.disputed = @ \ {k.o}]
  OBVIOUS
<1>1. k.pc \in Reversing /\ k.pc \in CasCalls
  BY DEF DownCas, At, Reversing, CasCalls
<1>2. /\ k.pc \notin Bare /\ Ready(k, AllLost) /\ Row(k) /\ k.c.state = "Fulfilled" /\ k.o \in Orders
      /\ Carries(k, Go(k, "plan"), AllBack, AllLost)
  BY <1>1, Reverser DEF Reversing, CasCalls
<1>3. k.m \in CipherMembership
  BY <1>1, <1>2, AtWork DEF Placed
<1>4. row \in CipherMembership
  BY <1>2, <1>3, CipherAssumption DEF CipherMembership
<1>5. Carries(k, Sync(k, "refunded"), AllBack, AllLost)
  BY <1>2, EasyReturns, SyncCarries DEF Reversing, CasCalls
<1>6. Sync(k, "refunded").pc \notin CasCalls /\ Go(k, "plan").pc \notin CasCalls
  BY <1>2, SyncPlace, GoPlace DEF CasCalls
<1>7. /\ Cas(w, row, Sync(k, "refunded"), Go(k, "plan"))
      /\ UNCHANGED <<orders, lease, numbers, badge, deleted, stripe>>
  BY DEF DownCas
<1> QED
  BY <1>2, <1>4, <1>5, <1>6, <1>7, CasKeeps

LEMMA ReversedType ==
    ASSUME NEW k, k.o \in Orders, NEW m \in CipherMembership
    PROVE  Reversed(k, m) \in CipherMembership
<1> PICK listed : listed = IF k.kind = "DisputeLost" THEN k.c.open # {} ELSE Disputed(k.c)
  OBVIOUS
<1> PICK revoked : revoked = IF k.kind = "Refund" /\ m.revoked = "No" THEN "Refund"
                             ELSE IF k.kind = "DisputeLost" THEN "DisputeLost"
                             ELSE m.revoked
  OBVIOUS
<1> PICK base : base = IF k.kind = "Refund" THEN m ELSE Listed(m, k.o, listed)
  OBVIOUS
<1>1. revoked \in {"No", "Refund", "DisputeLost"}
  BY DEF CipherMembership
<1>2. base \in CipherMembership
  BY ListedType
<1>3. Reversed(k, m) = [base EXCEPT !.revoked = revoked]
  BY DEF Reversed
<1>4. [base EXCEPT !.revoked = revoked] \in CipherMembership
  BY <1>1, <1>2 DEF CipherMembership
<1> QED
  BY <1>3, <1>4

LEMMA RevReadKeeps ==
    ASSUME Inv, NEW w \in Workers, RevRead(w), UNCHANGED course
    PROVE  Keeps
<1> PICK k : k = wk[w]
  OBVIOUS
<1> PICK m : m = Read(k)
  OBVIOUS
<1>1. k.pc \in Reversing
  BY DEF RevRead, At, Reversing
<1>2. k.pc \notin Bare /\ Ready(k, AllLost) /\ k.c.state = "Fulfilled"
  BY <1>1, Reverser
<1>3. m \in Membership
  BY <1>2, UserType
<1>4. Holds(m, k.o) => Carries(k, [k EXCEPT !.pc = "rev_cas", !.m = m], AllBack, AllLost)
  <2>1. Holds(m, k.o) => m \in CipherMembership
    BY <1>3 DEF Holds, Membership
  <2>2. Onward(k, "rev_cas", AllBack) /\ "rev_cas" \in CasCalls
    BY <1>2, CasOnward DEF CasCalls
  <2> QED
    BY <1>2, <2>1, <2>2, CasReadCarries
<1>5. Carries(k, Sync(k, "refunded"), AllBack, AllLost)
  BY <1>2, EasyReturns, SyncCarries DEF Reversing, CasCalls
<1>6. Carries(k, NoMembership(k), AllBack, AllLost) /\ Carries(k, AfterReverse(k), AllBack, AllLost)
  BY <1>2, NoMembershipCarries, AfterReverseCarries
<1>7. /\ \/ Step(w, Sync(k, "refunded")) \/ Step(w, NoMembership(k)) \/ Step(w, AfterReverse(k))
         \/ Holds(m, k.o) /\ Step(w, [k EXCEPT !.pc = "rev_cas", !.m = m])
      /\ UNCHANGED <<orders, lease, members, numbers, badge, deleted, stripe>>
  BY DEF RevRead
<1> QED
  BY <1>2, <1>4, <1>5, <1>6, <1>7, PlainKeeps

LEMMA RevCasKeeps ==
    ASSUME Inv, NEW w \in Workers, RevCas(w), UNCHANGED course
    PROVE  Keeps
<1> PICK k : k = wk[w]
  OBVIOUS
<1>1. k.pc \in Reversing /\ k.pc \in CasCalls
  BY DEF RevCas, At, Reversing, CasCalls
<1>2. /\ k.pc \notin Bare /\ Ready(k, AllLost) /\ Row(k) /\ k.c.state = "Fulfilled" /\ k.o \in Orders
      /\ Carries(k, Go(k, "rev_read"), AllBack, AllLost)
  BY <1>1, Reverser DEF Reversing, CasCalls
<1>3. k.m \in CipherMembership
  BY <1>1, <1>2, AtWork DEF Placed
<1>4. Reversed(k, k.m) \in CipherMembership
  BY <1>2, <1>3, ReversedType
<1>5. Carries(k, AfterReverse(k), AllBack, AllLost)
  BY <1>2, AfterReverseCarries
<1>6. AfterReverse(k).pc \notin CasCalls /\ Go(k, "rev_read").pc \notin CasCalls
  BY <1>2, SyncPlace, GoPlace DEF CasCalls, AfterReverse
<1>7. /\ Cas(w, Reversed(k, k.m), AfterReverse(k), Go(k, "rev_read"))
      /\ UNCHANGED <<orders, lease, numbers, badge, deleted, stripe>>
  BY DEF RevCas
<1> QED
  BY <1>2, <1>4, <1>5, <1>6, <1>7, CasKeeps

LEMMA RevDoneKeeps ==
    ASSUME Inv, NEW w \in Workers, RevDone(w), UNCHANGED course
    PROVE  Keeps
<1>1. wk[w].pc \notin Bare
  BY DEF RevDone, At, Bare
<1>2. Carries(wk[w], Done(wk[w]), AllBack, AllLost)
  BY <1>1, AtWork, DoneCarries
<1> QED
  BY <1>1, <1>2, PlainKeeps DEF RevDone

LEMMA RefundedKeeps ==
    ASSUME Inv, NEW w \in Workers, Refunded(w), UNCHANGED course
    PROVE  Keeps
<1> PICK k : k = wk[w]
  OBVIOUS
<1>1. k.pc \in Reversing
  BY DEF Refunded, At, Reversing
<1>2. k.pc \notin Bare /\ Row(k) /\ k.c.state = "Fulfilled" /\ Carries(k, Done(k), AllBack, AllLost)
  BY <1>1, Reverser
<1>3. Done(k).pc \in {"keep_cancel", "rel_free", "release", "recheck"}
  BY <1>2, DonePlace
<1>4. Write(w, AsRefunded(k.c), Done(k)) /\ UNCHANGED <<lease, members, numbers, badge, deleted, stripe>>
  BY DEF Refunded
<1> QED
  BY <1>2, <1>3, <1>4, AsRefundedKeeps

LEMMA ReverseNextKeeps ==
    ASSUME Inv, NEW w \in Workers, ReverseNext(w), UNCHANGED course
    PROVE  Keeps
BY DisputeReadKeeps, RecWriteKeeps, LarReadKeeps, LarCasKeeps, RevRecordKeeps, LostFenceKeeps, LostCancelKeeps,
   RelCheckKeeps, ClearKeeps, RefundPlanKeeps, PlanFenceKeeps, PlanMarkKeeps, DownCasKeeps, RevReadKeeps,
   RevCasKeeps, RevDoneKeeps, RefundedKeeps DEF ReverseNext

-----------------------------------------------------------------------------
\* Fulfilment

\* Some fields of no consequence change
LEMMA OnCarries ==
    ASSUME NEW k, NEW n, NEW back, NEW lost, Ready(k, lost), DOMAIN n = Fields, n.m \in Membership, n.number \in 0 .. Cap,
           \A f \in Fields \ {"pc", "m", "number"} : n[f] = k[f], Onward(k, n.pc, back), n.pc \notin VoidCalls,
           n.pc \in CasCalls => n.m \in CipherMembership, n.pc \in Inserts => n.number \in Numbers
    PROVE  Carries(k, n, back, lost)
<1>1. Row(n)
  BY DEF Row, Ready, Fields, Onward, Special
<1>2. Goes(k, n) /\ n.kind = k.kind /\ n.reason = k.reason
  BY DEF Goes, Fields
<1>3. Onward(n, n.pc, back)
  BY <1>2 DEF Onward, Goes
<1> QED
  BY <1>1, <1>2, <1>3, CarriesOn DEF Ready

\* A worker at one of its calls
LEMMA Seller ==
    ASSUME Inv, NEW w \in Workers, NEW k, k = wk[w], k.pc \in Selling
    PROVE  /\ k.pc \notin Bare /\ Ready(k, AllLost) /\ Row(k) /\ k.c.state = "Paid" /\ k.c.reason = "None" /\ k.o \in Orders
           /\ \A pc \in Selling \ ({"upgrade_read"} \cup CasCalls \cup Inserts) : Returns(k, pc, AllBack)
           /\ Carries(k, Stop(k), AllBack, AllLost) /\ Carries(k, Abort(k), AllBack, AllLost)
           /\ Carries(k, VoidDeleted(k), AllBack, AllLost) /\ Carries(k, Publishing(k), AllBack, AllLost)
           /\ \A reason \in VoidReasons \ {"None"} : Carries(k, VoidStart(k, reason), AllBack, AllLost)
           /\ Read(k) \in Membership
<1>1. k.pc \notin Bare
  BY DEF Bare, Selling
<1>2. Ready(k, AllLost) /\ Row(k) /\ k.c.state = "Paid" /\ k.c.reason = "None" /\ k.o \in Orders
  BY <1>1, AtWork, PlaceSays
<1>3. \A pc \in Selling \ ({"upgrade_read"} \cup CasCalls \cup Inserts) : Returns(k, pc, AllBack)
  BY <1>2, EasyReturns
<1>4. \A reason \in VoidReasons \ {"None"} : Carries(k, VoidStart(k, reason), AllBack, AllLost)
  BY <1>2, VoidStartCarries
<1> QED
  BY <1>1, <1>2, <1>3, <1>4, StopCarries, AbortCarries, VoidDeletedCarries, PublishingCarries, UserType

LEMMA RecheckKeeps ==
    ASSUME Inv, NEW w \in Workers, Recheck(w), UNCHANGED course
    PROVE  Keeps
<1> PICK k : k = wk[w]
  OBVIOUS
<1>1. k.pc = "recheck" /\ k.pc \notin Bare /\ UNCHANGED <<orders, lease, members, numbers, badge, deleted, stripe>>
  BY DEF Recheck, At, Bare
<1>2. Row(k) /\ Ready(k, AllLost) /\ k.task # "delete"
  BY <1>1, AtWork DEF Fits
<1>3. ASSUME NEW d \in k.todo,
             Step(w, ReverseStart([k EXCEPT !.todo = @ \ {d}], KindOf(stripe[k.o].dispute[d]), {d}, FALSE))
      PROVE  Keeps
  <2> PICK h : h = [k EXCEPT !.todo = @ \ {d}]
    OBVIOUS
  <2>1. DOMAIN h = Fields /\ h.todo \subseteq k.todo /\ \A f \in Fields \ {"todo"} : h[f] = k[f]
    BY <1>2 DEF Row, Fields
  <2>2. Carries(k, ReverseStart(h, KindOf(stripe[k.o].dispute[d]), {d}, FALSE), AllBack, AllLost)
    BY <1>1, <1>2, <2>1, NextDisputeCarries
  <2> QED
    BY <1>1, <1>3, <2>2, PlainKeeps
<1> PICK n : n = [k EXCEPT !.then = "release", !.todo = {}]
  OBVIOUS
<1>4. n.then = "release" /\ n.todo = {} /\ DOMAIN n = Fields
  BY <1>2 DEF Row, Fields
<1>5. \A f \in Fields \ {"then", "todo"} : n[f] = k[f]
  BY <1>2 DEF Row, Fields
<1>6. Row(n)
  BY <1>2, <1>4, <1>5 DEF Row, Fields
<1>7. Goes(k, n) /\ n.kind = k.kind
  BY <1>5 DEF Goes, Fields
<1>8. Ready(n, AllLost) /\ n.task # "delete"
  BY <1>2, <1>6, <1>7, ReadyStill DEF Ready, Goes
<1>9. Carries(n, Stop(n), AllBack, AllLost) /\ Carries(n, FulfilStart(n), AllBack, AllLost)
  BY <1>8, StopCarries, FulfilStartCarries
<1>10. Carries(k, Stop(n), AllBack, AllLost) /\ Carries(k, FulfilStart(n), AllBack, AllLost)
  BY <1>7, <1>9, CarriesTwice
<1>11. \/ \E d \in k.todo :
             Step(w, ReverseStart([k EXCEPT !.todo = @ \ {d}], KindOf(stripe[k.o].dispute[d]), {d}, FALSE))
       \/ Step(w, Stop(n)) \/ Step(w, FulfilStart(n))
  BY DEF Recheck
<1> QED
  BY <1>1, <1>3, <1>10, <1>11, PlainKeeps

\* A paid session's order
LEMMA AsPaidSound ==
    ASSUME NEW o, NEW c \in StoredOrder, Sound(o, c), c.state \in Unpaid \cup {"Expired"}
    PROVE  Sound(o, AsPaid(c)) /\ Change(View(c), View(AsPaid(c)))
<1> PICK x : x = AsPaid(c)
  OBVIOUS
<1>1. /\ x.state = "Paid" /\ x.intent = TRUE /\ x.pending = c.pending /\ x.open = c.open /\ x.linked = c.linked
      /\ x.reason = c.reason
  BY DEF AsPaid, StoredOrder
<1>2. Sound(o, x)
  BY <1>1 DEF Sound, Voiding, Unpaid
<1>3. Change(View(c), View(x))
  BY <1>1, PaidChange
<1> QED
  BY <1>2, <1>3

LEMMA AsPaidType ==
    ASSUME NEW c \in StoredOrder
    PROVE  AsPaid(c) \in StoredOrder /\ AsPaid(c).state = "Paid" /\ AsPaid(c).intent
BY DEF AsPaid, StoredOrder, OrderState

LEMMA PaidKeeps ==
    ASSUME Inv, NEW w \in Workers, Paid(w), UNCHANGED course
    PROVE  Keeps
<1> PICK k : k = wk[w]
  OBVIOUS
<1> PICK x : x = AsPaid(k.c)
  OBVIOUS
<1> PICK h : h = [k EXCEPT !.c = x]
  OBVIOUS
<1>1. k.pc = "paid" /\ k.pc \notin Bare
  BY DEF Paid, At, Bare
<1>2. k.c \in StoredOrder /\ k.c.state \in Unpaid \cup {"Expired"}
  BY <1>1, AtWork DEF Fits
<1>3. k.mine => Sound(k.o, k.c)
  BY <1>1, AtWork
<1>4. x \in StoredOrder /\ x.state = "Paid" /\ x.intent
  BY <1>2, AsPaidType
<1>5. k.mine => Sound(k.o, x) /\ Change(View(k.c), View(x))
  BY <1>2, <1>3, AsPaidSound
<1>6. k.mine => /\ x \in StoredOrder /\ x.state # "Absent" /\ Sound(k.o, x) /\ (k.c.intent => x.intent)
                /\ Change(View(k.c), View(x))
  BY <1>4, <1>5
<1>7. Ready(h, AllLost) /\ h.c = x => Carries(h, FulfilPaid(h), AllBack, AllLost)
  BY <1>4, FulfilPaidCarries
<1>8. Copied(k, x, h)
  BY DEF Copied
<1>9. Write(w, x, FulfilPaid(h)) /\ UNCHANGED <<lease, members, numbers, badge, deleted, stripe>>
  BY DEF Paid
<1> QED
  BY <1>1, <1>6, <1>7, <1>8, <1>9, PlannedKeeps

LEMMA JudgeKeeps ==
    ASSUME Inv, NEW w \in Workers, Judge(w), UNCHANGED course
    PROVE  Keeps
<1> PICK k : k = wk[w]
  OBVIOUS
<1> PICK m : m = Read(k)
  OBVIOUS
<1>1. k.pc \in Selling
  BY DEF Judge, At, Selling
<1>2. /\ k.pc \notin Bare /\ Ready(k, AllLost) /\ Carries(k, VoidDeleted(k), AllBack, AllLost) /\ m \in Membership
      /\ Returns(k, "publish", AllBack) /\ Returns(k, "decide", AllBack)
  BY <1>1, Seller DEF Selling, CasCalls, Inserts
<1>3. Carries(k, Listing(k, Disputed(k.c), "publish", "publish"), AllBack, AllLost)
  BY <1>2, ListingCarries DEF Beyond
<1>4. Carries(k, [k EXCEPT !.pc = "decide", !.m = m], AllBack, AllLost)
  BY <1>2, ReadingCarries
<1>5. /\ \/ Step(w, VoidDeleted(k)) \/ Step(w, Listing(k, Disputed(k.c), "publish", "publish"))
         \/ Step(w, [k EXCEPT !.pc = "decide", !.m = m])
      /\ UNCHANGED <<orders, lease, members, numbers, badge, deleted, stripe>>
  BY DEF Judge
<1> QED
  BY <1>2, <1>3, <1>4, <1>5, PlainKeeps

LEMMA PreconditionType == \A o, m : Precondition(o, m) \in {"None", "Stale", "DisputeOpen"}
BY DEF Precondition

LEMMA DecideKeeps ==
    ASSUME Inv, NEW w \in Workers, Decide(w), UNCHANGED course
    PROVE  Keeps
<1> PICK k : k = wk[w]
  OBVIOUS
<1> PICK n : n = [k EXCEPT !.m = NoMember, !.pc = IF IsNew(k.o) THEN "number" ELSE "upgrade_read"]
  OBVIOUS
<1>1. k.pc \in Selling
  BY DEF Decide, At, Selling
<1>2. /\ k.pc \notin Bare /\ Ready(k, AllLost) /\ Row(k) /\ k.c.state = "Paid" /\ k.c.reason = "None"
      /\ \A reason \in VoidReasons \ {"None"} : Carries(k, VoidStart(k, reason), AllBack, AllLost)
      /\ Returns(k, "number", AllBack)
  BY <1>1, Seller DEF Selling, CasCalls, Inserts
<1>3. ~IsNew(k.o) => Returns(k, "upgrade_read", AllBack)
  BY <1>2, CasOnward
<1>4. /\ n.pc \in {"number", "upgrade_read"} /\ n.m = NoMember /\ DOMAIN n = Fields /\ n.number = k.number
      /\ n.pc = "upgrade_read" => ~IsNew(k.o)
  BY <1>2 DEF Row, Fields
<1>5. \A f \in Fields \ {"pc", "m"} : n[f] = k[f]
  BY <1>2 DEF Row, Fields
<1>6. Onward(k, n.pc, AllBack) /\ n.pc \notin CasCalls \cup Inserts \cup VoidCalls
  BY <1>2, <1>3, <1>4 DEF Returns, CasCalls, Inserts, VoidCalls
<1>7. n.number \in 0 .. Cap /\ n.m \in Membership
  BY <1>2, <1>4, NoMemberType DEF Row
<1>8. Carries(k, n, AllBack, AllLost)
  BY <1>2, <1>4, <1>5, <1>6, <1>7, OnCarries
<1>9. course.refusals \subseteq VoidReasons \ {"None"}
  BY CoursesAssumption DEF Inv, Tables, VoidReasons
<1>10. PICK why : /\ why \in VoidReasons
                  /\ \/ \E reason \in course.refusals : Step(w, VoidStart(k, reason))
                     \/ why # "None" /\ Step(w, VoidStart(k, why))
                     \/ Step(w, n)
  <2> PICK why : why = IF IsNew(k.o) /\ ReleasePending(k.m) THEN "ReleasePending"
                       ELSE IF Precondition(k.o, k.m) # "None"
                         THEN Precondition(k.o, k.m)
                       ELSE IF k.c.pending # "None" THEN "Reversed" ELSE "None"
    OBVIOUS
  <2>1. why \in VoidReasons
    BY PreconditionType DEF VoidReasons
  <2>2. \/ \E reason \in course.refusals : Step(w, VoidStart(k, reason))
        \/ Step(w, IF why # "None" THEN VoidStart(k, why) ELSE n)
    BY DEF Decide
  <2> QED
    BY <2>1, <2>2
<1>11. UNCHANGED <<orders, lease, members, numbers, badge, deleted, stripe>>
  BY DEF Decide
<1> QED
  BY <1>2, <1>8, <1>9, <1>10, <1>11, PlainKeeps

-----------------------------------------------------------------------------
\* apply_membership

\* Among the subsets of a finite set that have a property, one is smallest
LEMMA SmallestSubset ==
    ASSUME NEW S, IsFiniteSet(S), NEW T, T \subseteq SUBSET S, T # {}
    PROVE  \E s \in T : \A t \in T : t \subseteq s => t = s
<1>1. T \subseteq FiniteSubsetsOf(S)
  BY FS_Subset DEF FiniteSubsetsOf
<1>2. \E s \in T : \A t \in T : <<t, s>> \notin StrictSubsetOrdering(S)
  BY <1>1, FS_StrictSubsetOrderingWellFounded, WFMin
<1> QED
  BY <1>2 DEF StrictSubsetOrdering

LEMMA LowestExists ==
    ASSUME NEW pool, pool \subseteq Numbers, pool # {}
    PROVE  \E x \in pool : \A y \in pool : x <= y
<1>1. pool \subseteq Nat \ {0} /\ IsFiniteSet(Numbers)
  BY CipherAssumption, FS_Interval DEF Numbers
<1>0. PICK T : T = {1 .. x : x \in pool}
  OBVIOUS
<1>2. T \subseteq SUBSET Numbers /\ T # {}
  <2>1. \A x \in pool : 1 .. x \subseteq Numbers
    BY CipherAssumption DEF Numbers
  <2> QED
    BY <1>0, <2>1
<1>3. PICK s \in T : \A t \in T : t \subseteq s => t = s
  <2>1. IsFiniteSet(Numbers) /\ T \subseteq SUBSET Numbers /\ T # {}
    BY <1>1, <1>2
  <2>2. \E s \in T : \A t \in T : t \subseteq s => t = s
    BY ONLY <2>1, SmallestSubset
  <2> QED
    BY <2>2
<1>4. PICK x \in pool : s = 1 .. x
  BY <1>0
<1>5. ASSUME NEW y \in pool PROVE x <= y
  <2>1. x \in Nat \ {0} /\ y \in Nat \ {0} /\ 1 .. y \in T
    BY <1>0, <1>1
  <2>2. CASE y < x
    <3>1. 1 .. y \subseteq 1 .. x
      BY <2>1, <2>2
    <3>2. 1 .. y = 1 .. x
      BY <1>3, <1>4, <2>1, <3>1
    <3>3. x \in 1 .. x /\ x \notin 1 .. y
      BY <2>1, <2>2
    <3> QED
      BY <3>2, <3>3
  <2> QED
    BY <2>1, <2>2
<1> QED
  BY <1>5

\* The worker goes on to one of the calls that insert its number
LEMMA InsertCarries ==
    ASSUME NEW k, NEW n, NEW back, NEW lost, Ready(k, lost), k.c.state = "Paid", k.c.reason = "None",
           DOMAIN n = Fields, n.m \in Membership, n.number \in Numbers, n.pc \in Inserts,
           \A f \in Fields \ {"pc", "m", "number"} : n[f] = k[f]
    PROVE  Carries(k, n, back, lost)
<1>1. Onward(k, n.pc, back)
  BY CasOnward DEF Inserts
<1>2. n.number \in 0 .. Cap
  BY CipherAssumption DEF Numbers
<1>3. n.pc \notin CasCalls \cup VoidCalls
  BY DEF Inserts, CasCalls, VoidCalls
<1> QED
  BY <1>1, <1>2, <1>3, OnCarries

LEMMA ClaimedCarries ==
    ASSUME NEW k, NEW back, NEW lost, Ready(k, lost), k.c.state = "Paid", k.c.reason = "None", NEW i \in Numbers
    PROVE  Carries(k, [k EXCEPT !.pc = "insert", !.number = i], back, lost)
<1> PICK n : n = [k EXCEPT !.pc = "insert", !.number = i]
  OBVIOUS
<1>1. n.pc = "insert" /\ n.number = i /\ n.m = k.m /\ DOMAIN n = Fields
  BY DEF Ready, Row, Fields
<1>2. \A f \in Fields \ {"pc", "number"} : n[f] = k[f]
  BY DEF Ready, Row, Fields
<1>3. n.m \in Membership /\ n.pc \in Inserts
  BY <1>1 DEF Ready, Row, Inserts
<1> QED
  BY <1>1, <1>2, <1>3, InsertCarries

LEMMA InsertingCarries ==
    ASSUME NEW k, NEW back, NEW lost, Ready(k, lost), k.c.state = "Paid", k.c.reason = "None", k.number \in Numbers
    PROVE  /\ \A pc \in Inserts : Carries(k, Go(k, pc), back, lost)
           /\ \A m \in Membership : Carries(k, [k EXCEPT !.pc = "replace", !.m = m], back, lost)
<1>1. ASSUME NEW pc \in Inserts PROVE Carries(k, Go(k, pc), back, lost)
  <2> PICK n : n = Go(k, pc)
    OBVIOUS
  <2>1. n.pc = pc /\ n.number = k.number /\ n.m = k.m /\ DOMAIN n = Fields
    BY DEF Ready, Row, Fields, Go
  <2>2. \A f \in Fields \ {"pc"} : n[f] = k[f]
    BY DEF Ready, Row, Fields, Go
  <2>3. n.m \in Membership
    BY <2>1 DEF Ready, Row
  <2> QED
    BY <2>1, <2>2, <2>3, InsertCarries
<1>2. ASSUME NEW m \in Membership PROVE Carries(k, [k EXCEPT !.pc = "replace", !.m = m], back, lost)
  <2> PICK n : n = [k EXCEPT !.pc = "replace", !.m = m]
    OBVIOUS
  <2>1. n.pc = "replace" /\ n.number = k.number /\ n.m = m /\ DOMAIN n = Fields
    BY DEF Ready, Row, Fields
  <2>2. \A f \in Fields \ {"pc", "m"} : n[f] = k[f]
    BY DEF Ready, Row, Fields
  <2>3. n.pc \in Inserts
    BY <2>1 DEF Inserts
  <2> QED
    BY <2>1, <2>2, <2>3, InsertCarries
<1> QED
  BY <1>1, <1>2

LEMMA NumberKeeps ==
    ASSUME Inv, NEW w \in Workers, Number(w), UNCHANGED course
    PROVE  Keeps
<1> PICK k : k = wk[w]
  OBVIOUS
<1> PICK i : i = CHOOSE n \in NumberOf(k.o) : TRUE
  OBVIOUS
<1>1. k.pc \in Selling
  BY DEF Number, At, Selling
<1>2. /\ k.pc \notin Bare /\ Ready(k, AllLost) /\ k.c.state = "Paid" /\ k.c.reason = "None"
      /\ Carries(k, VoidStart(k, "Stale"), AllBack, AllLost) /\ Returns(k, "claim", AllBack)
  BY <1>1, Seller DEF Selling, CasCalls, Inserts, VoidReasons
<1>3. Carries(k, Go(k, "claim"), AllBack, AllLost)
  BY <1>2, GoCarries
<1>4. NumberOf(k.o) # {} => i \in Numbers
  BY DEF NumberOf
<1>5. NumberOf(k.o) # {} => Carries(k, [k EXCEPT !.pc = "insert", !.number = i], AllBack, AllLost)
  BY <1>2, <1>4, ClaimedCarries
<1>6. /\ \/ NumberOf(k.o) # {} /\ Step(w, [k EXCEPT !.pc = "insert", !.number = i])
         \/ Step(w, VoidStart(k, "Stale")) \/ Step(w, Go(k, "claim"))
      /\ UNCHANGED <<orders, lease, members, numbers, badge, deleted, stripe>>
  BY DEF Number
<1> QED
  BY <1>2, <1>3, <1>5, <1>6, PlainKeeps

LEMMA ClaimKeeps ==
    ASSUME Inv, NEW w \in Workers, Claim(w), UNCHANGED course
    PROVE  Keeps
<1> PICK k : k = wk[w]
  OBVIOUS
<1> PICK pool : pool = IF NumberOf(k.o) # {} THEN NumberOf(k.o) ELSE NumberOf(Free)
  OBVIOUS
<1> PICK i : i = CHOOSE x \in pool : \A y \in pool : x <= y
  OBVIOUS
<1>1. k.pc \in Selling
  BY DEF Claim, At, Selling
<1>2. /\ k.pc \notin Bare /\ Ready(k, AllLost) /\ k.c.state = "Paid" /\ k.c.reason = "None" /\ k.o \in Orders
      /\ Carries(k, VoidStart(k, "SoldOut"), AllBack, AllLost)
  BY <1>1, Seller DEF VoidReasons
<1>3. pool \subseteq Numbers
  BY DEF NumberOf
<1>4. pool # {} => i \in Numbers
  BY <1>3, LowestExists
<1>5. pool # {} => Carries(k, [k EXCEPT !.pc = "insert", !.number = i], AllBack, AllLost)
  BY <1>2, <1>4, ClaimedCarries
<1>6. UNCHANGED <<orders, lease, members, badge, deleted, stripe>>
  BY DEF Claim
<1>7. CASE pool = {}
  <2>1. Step(w, VoidStart(k, "SoldOut")) /\ UNCHANGED numbers
    BY <1>7 DEF Claim
  <2> QED
    BY <1>2, <1>6, <2>1, PlainKeeps
<1>8. CASE pool # {}
  <2>1. numbers' = [numbers EXCEPT ![i].order = k.o] /\ Step(w, [k EXCEPT !.pc = "insert", !.number = i])
    BY <1>8 DEF Claim
  <2>2. numbers \in [Numbers -> NumberRow]
    BY DEF Inv, Tables
  <2>3. numbers' \in [Numbers -> NumberRow]
    BY <1>2, <1>4, <1>8, <2>1, <2>2 DEF NumberRow
  <2> QED
    BY <1>2, <1>5, <1>6, <1>8, <2>1, <2>3, NumbersKeep
<1> QED
  BY <1>7, <1>8

LEMMA FreshType ==
    ASSUME NEW k, k.o \in Orders, k.number \in Numbers
    PROVE  Fresh(k) \in CipherMembership
<1>1. To(k.o) \in Nat
  BY CipherAssumption DEF To
<1>2. (IF Disputed(k.c) THEN {k.o} ELSE {}) \in SUBSET Orders
  OBVIOUS
<1> QED
  BY <1>1, <1>2 DEF Fresh, CipherMembership

LEMMA Inserter ==
    ASSUME Inv, NEW w \in Workers, NEW k, k = wk[w], k.pc \in Inserts
    PROVE  /\ k.pc \in Selling /\ k.pc \notin Bare /\ k.number \in Numbers /\ Fresh(k) \in CipherMembership
           /\ \A pc \in Inserts : Carries(k, Go(k, pc), AllBack, AllLost)
           /\ \A m \in Membership : Carries(k, [k EXCEPT !.pc = "replace", !.m = m], AllBack, AllLost)
           /\ Carries(k, Publishing(k), AllBack, AllLost) /\ Carries(k, Stop(k), AllBack, AllLost)
           /\ Carries(k, VoidStart(k, "Stale"), AllBack, AllLost) /\ Read(k) \in Membership /\ Row(k)
<1>1. k.pc \in Selling /\ k.pc \notin Bare
  BY DEF Selling, Bare, Inserts
<1>2. k.number \in Numbers
  BY <1>1, AtWork DEF Placed
<1>3. /\ Ready(k, AllLost) /\ Row(k) /\ k.c.state = "Paid" /\ k.c.reason = "None" /\ k.o \in Orders
      /\ Carries(k, Publishing(k), AllBack, AllLost) /\ Carries(k, Stop(k), AllBack, AllLost)
      /\ Carries(k, VoidStart(k, "Stale"), AllBack, AllLost) /\ Read(k) \in Membership
  BY <1>1, Seller DEF VoidReasons
<1> QED
  BY <1>1, <1>2, <1>3, FreshType, InsertingCarries

LEMMA InsertKeeps ==
    ASSUME Inv, NEW w \in Workers, Insert(w), UNCHANGED course
    PROVE  Keeps
<1> PICK k : k = wk[w]
  OBVIOUS
<1>1. k.pc \in Inserts
  BY DEF Insert, At, Inserts
<1>2. /\ k.pc \notin Bare /\ Fresh(k) \in Membership
      /\ Carries(k, Go(k, "insert_read"), AllBack, AllLost)
      /\ Carries(k, Publishing(k), AllBack, AllLost) /\ Carries(k, Stop(k), AllBack, AllLost)
  BY <1>1, Inserter DEF Inserts, Membership
<1>3. /\ \/ Step(w, Go(k, "insert_read")) /\ UNCHANGED members
         \/ Step(w, Stop(k)) /\ UNCHANGED members
         \/ members' = [members EXCEPT ![User(k)] = Fresh(k)] /\ Step(w, Publishing(k))
      /\ UNCHANGED <<orders, lease, numbers, badge, deleted, stripe>>
  BY DEF Insert
<1> QED
  BY <1>2, <1>3, PlainKeeps, MembersKeep

LEMMA InsertReadKeeps ==
    ASSUME Inv, NEW w \in Workers, InsertRead(w), UNCHANGED course
    PROVE  Keeps
<1> PICK k : k = wk[w]
  OBVIOUS
<1> PICK m : m = Read(k)
  OBVIOUS
<1>1. k.pc \in Inserts
  BY DEF InsertRead, At, Inserts
<1>2. /\ k.pc \notin Bare /\ Carries(k, Go(k, "insert"), AllBack, AllLost)
      /\ Carries(k, [k EXCEPT !.pc = "replace", !.m = m], AllBack, AllLost)
      /\ Carries(k, Publishing(k), AllBack, AllLost) /\ Carries(k, VoidStart(k, "Stale"), AllBack, AllLost)
  BY <1>1, Inserter DEF Inserts
<1>3. /\ \/ Step(w, Go(k, "insert")) \/ Step(w, Publishing(k)) \/ Step(w, VoidStart(k, "Stale"))
         \/ Step(w, [k EXCEPT !.pc = "replace", !.m = m])
      /\ UNCHANGED <<orders, lease, members, numbers, badge, deleted, stripe>>
  BY DEF InsertRead
<1> QED
  BY <1>2, <1>3, PlainKeeps

LEMMA PublishingPlace == ASSUME NEW k, Row(k) PROVE Publishing(k).pc = "publish"
BY DEF Publishing, Row, Fields

LEMMA ReplaceKeeps ==
    ASSUME Inv, NEW w \in Workers, Replace(w), UNCHANGED course
    PROVE  Keeps
<1> PICK k : k = wk[w]
  OBVIOUS
<1>1. k.pc \in Inserts
  BY DEF Replace, At, Inserts
<1>2. /\ k.pc \notin Bare /\ Row(k) /\ Fresh(k) \in CipherMembership /\ Carries(k, Go(k, "insert"), AllBack, AllLost)
      /\ Carries(k, Publishing(k), AllBack, AllLost)
  BY <1>1, Inserter DEF Inserts
<1>3. Publishing(k).pc \notin CasCalls /\ Go(k, "insert").pc \notin CasCalls
  BY <1>2, PublishingPlace, GoPlace DEF CasCalls
<1>4. Cas(w, Fresh(k), Publishing(k), Go(k, "insert")) /\ UNCHANGED <<orders, lease, numbers, badge, deleted, stripe>>
  BY DEF Replace
<1> QED
  BY <1>2, <1>3, <1>4, CasKeeps

LEMMA UpgradeReadKeeps ==
    ASSUME Inv, NEW w \in Workers, UpgradeRead(w), UNCHANGED course
    PROVE  Keeps
<1> PICK k : k = wk[w]
  OBVIOUS
<1> PICK m : m = Read(k)
  OBVIOUS
<1>1. k.pc = "upgrade_read" /\ k.pc \in Selling
  BY DEF UpgradeRead, At, Selling
<1>2. /\ k.pc \notin Bare /\ Ready(k, AllLost) /\ k.c.state = "Paid" /\ k.c.reason = "None" /\ m \in Membership
      /\ Carries(k, Publishing(k), AllBack, AllLost)
      /\ \A reason \in VoidReasons \ {"None"} : Carries(k, VoidStart(k, reason), AllBack, AllLost)
  BY <1>1, Seller
<1>3. ~IsNew(k.o)
  BY <1>1, <1>2, AtWork DEF Fits
<1>4. Precondition(k.o, m) # "None" => Carries(k, VoidStart(k, Precondition(k.o, m)), AllBack, AllLost)
  BY <1>2, PreconditionType DEF VoidReasons
<1>5. Precondition(k.o, m) = "None" => m \in CipherMembership
  BY <1>2, <1>3 DEF Precondition, IsActive, Membership
<1>6. Onward(k, "upgrade_cas", AllBack) /\ "upgrade_cas" \in CasCalls
  BY <1>2, <1>3, CasOnward DEF CasCalls
<1>7. Precondition(k.o, m) = "None" => Carries(k, [k EXCEPT !.pc = "upgrade_cas", !.m = m], AllBack, AllLost)
  BY <1>2, <1>5, <1>6, CasReadCarries
<1>8. /\ \/ Step(w, Publishing(k))
         \/ Precondition(k.o, m) # "None" /\ Step(w, VoidStart(k, Precondition(k.o, m)))
         \/ Precondition(k.o, m) = "None" /\ Step(w, [k EXCEPT !.pc = "upgrade_cas", !.m = m])
      /\ UNCHANGED <<orders, lease, members, numbers, badge, deleted, stripe>>
  BY DEF UpgradeRead
<1> QED
  BY <1>2, <1>4, <1>7, <1>8, PlainKeeps

LEMMA UpgradeCasKeeps ==
    ASSUME Inv, NEW w \in Workers, UpgradeCas(w), UNCHANGED course
    PROVE  Keeps
<1> PICK k : k = wk[w]
  OBVIOUS
<1> PICK more : more = [k.m EXCEPT !.tier = To(k.o), !.orders = @ \cup {k.o}]
  OBVIOUS
<1>1. k.pc = "upgrade_cas" /\ k.pc \in Selling /\ k.pc \in CasCalls
  BY DEF UpgradeCas, At, Selling, CasCalls
<1>2. /\ k.pc \notin Bare /\ Ready(k, AllLost) /\ Row(k) /\ k.c.state = "Paid" /\ k.c.reason = "None" /\ k.o \in Orders
      /\ Carries(k, Publishing(k), AllBack, AllLost)
  BY <1>1, Seller
<1>3. k.m \in CipherMembership /\ ~IsNew(k.o)
  BY <1>1, <1>2, AtWork DEF Placed, Fits
<1>4. To(k.o) \in Nat
  BY <1>2, CipherAssumption DEF To
<1>5. more \in CipherMembership
  BY <1>2, <1>3, <1>4 DEF CipherMembership
<1>6. Listed(more, k.o, Disputed(k.c)) \in CipherMembership
  BY <1>2, <1>5, ListedType
<1>7. Carries(k, Go(k, "upgrade_read"), AllBack, AllLost)
  BY <1>2, <1>3, CasOnward, GoCarries
<1>8. Publishing(k).pc \notin CasCalls /\ Go(k, "upgrade_read").pc \notin CasCalls
  BY <1>2, PublishingPlace, GoPlace DEF CasCalls
<1>9. /\ Cas(w, Listed(more, k.o, Disputed(k.c)), Publishing(k), Go(k, "upgrade_read"))
      /\ UNCHANGED <<orders, lease, numbers, badge, deleted, stripe>>
  BY DEF UpgradeCas
<1> QED
  BY <1>2, <1>6, <1>7, <1>8, <1>9, CasKeeps

LEMMA PublishKeeps ==
    ASSUME Inv, NEW w \in Workers, Publish(w), UNCHANGED course
    PROVE  Keeps
<1> PICK k : k = wk[w]
  OBVIOUS
<1>1. k.pc \in Selling
  BY DEF Publish, At, Selling
<1>2. k.pc \notin Bare /\ Ready(k, AllLost) /\ Returns(k, "fulfilled", AllBack) /\ Returns(k, "publish_lost", AllBack)
  BY <1>1, Seller DEF Selling, CasCalls, Inserts
<1>3. Carries(k, Sync(k, "fulfilled"), AllBack, AllLost) /\ Carries(k, Go(k, "publish_lost"), AllBack, AllLost)
  BY <1>2, SyncCarries, GoCarries
<1>4. /\ WriteOr(w, k.c, Sync(k, "fulfilled"), Go(k, "publish_lost"))
      /\ UNCHANGED <<lease, members, numbers, badge, deleted, stripe>>
  BY DEF Publish
<1> QED
  BY <1>2, <1>3, <1>4, FenceKeeps

LEMMA PublishLostKeeps ==
    ASSUME Inv, NEW w \in Workers, PublishLost(w), UNCHANGED course
    PROVE  Keeps
<1> PICK k : k = wk[w]
  OBVIOUS
<1>1. k.pc \in Selling
  BY DEF PublishLost, At, Selling
<1>2. k.pc \notin Bare /\ Ready(k, AllLost) /\ Carries(k, Stop(k), AllBack, AllLost)
  BY <1>1, Seller
<1>3. Carries(k, Listing(k, TRUE, "release", "release"), AllBack, AllLost)
  BY <1>2, EasyReturns, ListingCarries DEF Easy, Beyond
<1>4. /\ Step(w, Listing(k, TRUE, "release", "release")) \/ Step(w, Stop(k))
      /\ UNCHANGED <<orders, lease, members, numbers, badge, deleted, stripe>>
  BY DEF PublishLost
<1> QED
  BY <1>2, <1>3, <1>4, PlainKeeps

LEMMA FulfilledKeeps ==
    ASSUME Inv, NEW w \in Workers, Fulfilled(w), UNCHANGED course
    PROVE  Keeps
<1> PICK k : k = wk[w]
  OBVIOUS
<1> PICK x : x = [k.c EXCEPT !.state = "Fulfilled"]
  OBVIOUS
<1> PICK h : h = [k EXCEPT !.c = x]
  OBVIOUS
<1>1. k.pc \in Selling
  BY DEF Fulfilled, At, Selling
<1>2. k.pc \notin Bare /\ k.c.state = "Paid" /\ k.c.reason = "None" /\ k.c \in StoredOrder
  BY <1>1, Seller DEF Row
<1>3. /\ x \in StoredOrder /\ x.state = "Fulfilled" /\ x.intent = k.c.intent
      /\ x.reason = k.c.reason /\ x.linked = k.c.linked /\ x.pending = k.c.pending /\ x.open = k.c.open
  BY <1>2 DEF StoredOrder, OrderState
<1>4. k.mine => Sound(k.o, x)
  <2>1. k.mine => Sound(k.o, k.c)
    BY <1>2, AtWork
  <2> QED
    BY <1>2, <1>3, <2>1 DEF Sound, Voiding
<1>5. Change(View(k.c), View(x))
  BY <1>2, <1>3, FulfilChange
<1>6. Ready(h, AllLost) => Carries(h, ReversePending(h), AllBack, AllLost)
  BY ReversePendingCarries
<1>7. Copied(k, x, h)
  BY DEF Copied
<1>8. Write(w, x, ReversePending(h)) /\ UNCHANGED <<lease, members, numbers, badge, deleted, stripe>>
  BY DEF Fulfilled
<1>9. k.mine => /\ x \in StoredOrder /\ x.state # "Absent" /\ Sound(k.o, x) /\ (k.c.intent => x.intent)
                /\ Change(View(k.c), View(x))
  BY <1>3, <1>4, <1>5
<1> QED
  BY <1>2, <1>6, <1>7, <1>8, <1>9, PlannedKeeps

LEMMA FinishKeeps ==
    ASSUME Inv, NEW w \in Workers, Finish(w), UNCHANGED course
    PROVE  Keeps
<1>1. wk[w].pc \notin Bare
  BY DEF Finish, At, Bare
<1>2. Carries(wk[w], ReversePending(wk[w]), AllBack, AllLost)
  BY <1>1, AtWork, ReversePendingCarries
<1> QED
  BY <1>1, <1>2, PlainKeeps DEF Finish

-----------------------------------------------------------------------------
\* Voids

LEMMA DelReadKeeps ==
    ASSUME Inv, NEW w \in Workers, DelRead(w), UNCHANGED course
    PROVE  Keeps
<1> PICK k : k = wk[w]
  OBVIOUS
<1>1. k.pc = "del_read" /\ k.pc \notin Bare
  BY DEF DelRead, At, Bare
<1>2. Ready(k, AllLost) /\ k.c.state = "Paid"
  BY <1>1, AtWork DEF Fits
<1>3. Returns(k, "del_member", AllBack)
  BY <1>2 DEF Returns, Onward, CasCalls, Inserts, VoidCalls, Fits, Selling, Reversing, Bare, SyncCalls, ListCalls, Special
<1>4. Carries(k, Go(k, "del_member"), AllBack, AllLost) /\ Carries(k, VoidStart(k, "AccountDeleted"), AllBack, AllLost)
  BY <1>2, <1>3, GoCarries, VoidStartCarries DEF VoidReasons
<1>5. /\ Step(w, Go(k, "del_member")) \/ Step(w, VoidStart(k, "AccountDeleted"))
      /\ UNCHANGED <<orders, lease, members, numbers, badge, deleted, stripe>>
  BY DEF DelRead
<1> QED
  BY <1>1, <1>4, <1>5, PlainKeeps

LEMMA DelMemberKeeps ==
    ASSUME Inv, NEW w \in Workers, DelMember(w), UNCHANGED course
    PROVE  Keeps
<1> PICK k : k = wk[w]
  OBVIOUS
<1>1. k.pc = "del_member" /\ k.pc \notin Bare
  BY DEF DelMember, At, Bare
<1>2. Ready(k, AllLost) /\ k.c.state = "Paid"
  BY <1>1, AtWork DEF Fits
<1>3. Carries(k, VoidStart(k, "AccountDeleted"), AllBack, AllLost)
  BY <1>2, VoidStartCarries DEF VoidReasons
<1>4. /\ members' = [members EXCEPT ![User(k)] = NoMember] /\ Step(w, VoidStart(k, "AccountDeleted"))
      /\ UNCHANGED <<orders, lease, numbers, badge, deleted, stripe>>
  BY DEF DelMember
<1> QED
  BY <1>1, <1>3, <1>4, MembersKeep, NoMemberType

LEMMA VoidMarkKeeps ==
    ASSUME Inv, NEW w \in Workers, VoidMark(w), UNCHANGED course
    PROVE  Keeps
<1> PICK k : k = wk[w]
  OBVIOUS
<1> PICK x : x = [k.c EXCEPT !.reason = k.reason]
  OBVIOUS
<1> PICK n : n = [Go(k, "void_refund") EXCEPT !.c = x]
  OBVIOUS
<1>1. k.pc = "void_mark" /\ k.pc \notin Bare
  BY DEF VoidMark, At, Bare
<1>2. /\ Row(k) /\ k.c.state = "Paid" /\ k.reason # "None" /\ ~Disputed(k.c) /\ k.c \in StoredOrder
      /\ k.reason \in VoidReasons /\ k.prev = k.c.reason /\ Ready(k, AllLost)
  BY <1>1, AtWork DEF Fits, Row, Placed
<1>3. /\ x \in StoredOrder /\ x.state = k.c.state /\ x.intent = k.c.intent
      /\ x.reason = k.reason /\ x.linked = k.c.linked /\ x.pending = k.c.pending /\ x.open = k.c.open
  BY <1>2 DEF StoredOrder
<1>4. k.mine => Sound(k.o, x)
  <2>1. k.mine => Sound(k.o, k.c)
    BY <1>1, AtWork
  <2> QED
    BY <1>2, <1>3, <2>1 DEF Sound, Voiding
<1>5. View(x) = View(k.c)
  BY <1>3, ViewSame
<1>6. Change(View(k.c), View(x)) /\ ~Disputed(x)
  BY <1>2, <1>5 DEF Change, Touch, Disputed
<1>7. /\ n.pc = "void_refund" /\ n.c = x /\ DOMAIN n = Fields
      /\ \A f \in Fields \ {"pc", "c"} : n[f] = k[f]
  BY <1>2 DEF Go, Row, Fields
<1>8. n.o = k.o /\ n.mine = k.mine /\ n.kind = k.kind /\ n.task = k.task /\ n.reason = k.reason /\ n.prev = k.prev
  BY <1>7 DEF Fields
<1>9. Row(n)
  BY <1>2, <1>3, <1>7 DEF Row, Fields
<1>10. Ready(n, AllLost)
  BY <1>2, <1>3, <1>7, <1>8, <1>9 DEF Ready
<1>11. Placed(n, AllBack)
  BY <1>2, <1>3, <1>6, <1>7, <1>8 DEF Placed, Fits, Selling, Reversing, Bare, SyncCalls, ListCalls, CasCalls, Inserts
<1>12. Opens(n) => ~Voiding(k.c)
  BY <1>2, <1>8 DEF Opens, Voiding
<1>13. Stores(k, x, n, AllBack, AllLost)
  BY <1>7, <1>8, <1>10, <1>11, <1>12 DEF Stores, Special
<1>14. Carries(k, Abort(k), AllBack, AllLost)
  BY <1>2, AbortCarries
<1>15. WriteOr(w, x, Go(k, "void_refund"), Abort(k)) /\ UNCHANGED <<lease, members, numbers, badge, deleted, stripe>>
  BY DEF VoidMark, Write
<1> QED
  BY <1>1, <1>3, <1>4, <1>6, <1>13, <1>14, <1>15, WriteKeeps

\* Stripe has taken a refund of the void of o, now or before
Asks(o) ==
    \/ RefundTaken(o) /\ UNCHANGED stripe
    \/ \E r \in Taken(o) : stripe' = [stripe EXCEPT ![o] = [WithRefund(stripe[o], r) EXCEPT !.void = TRUE]]

LEMMA AskedAnswer ==
    ASSUME NEW w, NEW o \in Orders, NEW done, NEW refused, Inv, RefundAsked(w, o, done, refused)
    PROVE  \/ Asks(o) /\ Step(w, done)
           \/ UNCHANGED stripe /\ Step(w, refused)
<1>1. stripe \in [Orders -> StripeOrder]
  BY DEF Inv, Tables
<1>2. ASSUME NEW r \in Taken(o), stripe' = [stripe EXCEPT ![o] = [WithRefund(@, r) EXCEPT !.void = TRUE]]
      PROVE  Asks(o)
  BY <1>1, <1>2 DEF Asks
<1>3. FullyRefunded(o) => RefundTaken(o)
  BY DEF FullyRefunded, RefundTaken
<1> QED
  BY <1>2, <1>3 DEF RefundAsked, Asks

\* Our refund of the worker's own order
LEMMA RefundMade ==
    ASSUME Inv, NEW o \in Orders, Asks(o)
    PROVE  /\ stripe' \in [Orders -> StripeOrder] /\ AllBack \subseteq AllBack' /\ AllLost \subseteq AllLost' /\ o \in AllBack'
           /\ \A p \in Orders : stripe'[p].void # stripe[p].void => p = o
<1>1. stripe \in [Orders -> StripeOrder]
  BY DEF Inv, Tables
<1>2. stripe[o] \in StripeOrder
  BY <1>1
<1>3. CASE RefundTaken(o) /\ UNCHANGED stripe
  <2>1. stripe' = stripe
    BY <1>3
  <2>2. o \in AllBack /\ AllBack' = AllBack /\ AllLost' = AllLost
    BY <1>3, <2>1 DEF AllBack, AllLost, RefundTaken, Lost
  <2> QED
    BY <1>1, <2>1, <2>2
<1>4. ASSUME NEW r \in Taken(o), stripe' = [stripe EXCEPT ![o] = [WithRefund(stripe[o], r) EXCEPT !.void = TRUE]]
      PROVE  /\ stripe' \in [Orders -> StripeOrder] /\ AllBack \subseteq AllBack' /\ AllLost \subseteq AllLost' /\ o \in AllBack'
             /\ \A p \in Orders : stripe'[p].void # stripe[p].void => p = o
  <2> PICK t : t = WithRefund(stripe[o], r)
    OBVIOUS
  <2>0. t \in StripeOrder /\ t.refund # "none" /\ t.dispute = stripe[o].dispute
    BY <1>2, TakenStands, RefundShape
  <2> PICK s : s = [t EXCEPT !.void = TRUE]
    OBVIOUS
  <2>1. s \in StripeOrder /\ s.refund # "none" /\ s.dispute = stripe[o].dispute
    BY <2>0 DEF StripeOrder
  <2>2. stripe' = [stripe EXCEPT ![o] = s]
    BY <1>4
  <2>3. stripe' \in [Orders -> StripeOrder] /\ stripe'[o] = s /\ \A p \in Orders \ {o} : stripe'[p] = stripe[p]
    BY <1>1, <2>1, <2>2
  <2>4. \A p \in Orders : RefundTaken(p) => RefundTaken(p)'
    BY <2>1, <2>3 DEF RefundTaken
  <2>5. ASSUME NEW p \in Orders PROVE Lost(p) => Lost(p)'
    <3>1. CASE p = o
      BY <2>1, <2>3, <3>1 DEF Lost
    <3>2. CASE p # o
      BY <2>3, <3>2 DEF Lost
    <3> QED
      BY <3>1, <3>2
  <2>6. RefundTaken(o)'
    BY <2>1, <2>3 DEF RefundTaken
  <2>7. AllBack \subseteq AllBack' /\ AllLost \subseteq AllLost' /\ o \in AllBack'
    BY <2>4, <2>5, <2>6 DEF AllBack, AllLost
  <2> QED
    BY <2>3, <2>7
<1> QED
  BY <1>3, <1>4 DEF Asks

LEMMA VoidPaidKeeps ==
    ASSUME Inv, NEW w \in Workers, NEW k, k = wk[w], k.pc \notin Bare, NEW pc \in {"void_write", "late_write"},
           Asks(k.o),
           Step(w, Go(k, pc)), UNCHANGED <<orders, lease, members, numbers, badge, deleted, course>>,
           ~Disputed(k.c),
           pc = "void_write" => k.c.state = "Paid" /\ k.reason # "None" /\ k.c.reason # "None",
           pc = "late_write" => k.c.state = "Voided" /\ ~k.c.intent
    PROVE  Keeps
<1> PICK n : n = Go(k, pc)
  OBVIOUS
<1>1. Ready(k, AllLost) /\ Row(k) /\ k.o \in Orders
  BY AtWork
<1>2. /\ stripe' \in [Orders -> StripeOrder] /\ AllBack \subseteq AllBack' /\ AllLost \subseteq AllLost' /\ k.o \in AllBack'
      /\ \A p \in Orders : stripe'[p].void # stripe[p].void => p = k.o
  BY <1>1, RefundMade
<1>3. n.pc = pc /\ DOMAIN n = Fields /\ \A f \in Fields \ {"pc"} : n[f] = k[f]
  BY <1>1 DEF Go, Row, Fields
<1>4. Row(n)
  BY <1>1, <1>3 DEF Row, Fields
<1>5. Goes(k, n) /\ n.kind = k.kind /\ n.reason = k.reason
  BY <1>3 DEF Goes, Fields
<1>6. k.c.open = {}
  BY DEF Disputed, IsDisputed, View
<1>7. Placed(n, AllBack')
  <2>1. Fits(n.o, n.c, n.task, n.reason, pc, AllBack')
    BY <1>2, <1>5, <1>6 DEF Goes, Fits, Selling, Reversing
  <2> QED
    BY <1>3, <2>1 DEF Placed, Bare, SyncCalls, ListCalls, CasCalls, Inserts
<1>8. Ready(n, AllLost')
  BY <1>1, <1>2, <1>4, <1>5 DEF Ready, Goes
<1>9. n.pc \notin {"rel_refund", "rel_record"} /\ ~Opens(n)
  BY <1>3 DEF Opens
<1>10. Voiding(k.c)
  BY DEF Voiding
<1> QED
  BY <1>2, <1>5, <1>7, <1>8, <1>9, <1>10, PayKeeps

LEMMA VoidRefundKeeps ==
    ASSUME Inv, NEW w \in Workers, VoidRefund(w), UNCHANGED course
    PROVE  Keeps
<1> PICK k : k = wk[w]
  OBVIOUS
<1>1. k.pc = "void_refund" /\ k.pc \notin Bare /\ UNCHANGED <<orders, lease, members, numbers, badge, deleted>>
  BY DEF VoidRefund, At, Bare
<1>2. /\ Ready(k, AllLost) /\ Row(k) /\ k.o \in Orders /\ k.c.state = "Paid" /\ k.reason # "None" /\ ~Disputed(k.c)
      /\ k.c.reason = k.reason
  BY <1>1, AtWork DEF Fits
<1>3. RefundAsked(w, k.o, Go(k, "void_write"), IF k.prev # k.reason THEN Go(k, "void_unmark") ELSE Stop(k))
  BY DEF VoidRefund
<1>4. CASE Asks(k.o) /\ Step(w, Go(k, "void_write"))
  BY <1>1, <1>2, <1>4, VoidPaidKeeps
<1>5. CASE UNCHANGED stripe /\ Step(w, Stop(k))
  BY <1>1, <1>2, <1>5, StopCarries, PlainKeeps
<1>6. CASE UNCHANGED stripe /\ Step(w, Go(k, "void_unmark"))
  <2> PICK n : n = Go(k, "void_unmark")
    OBVIOUS
  <2>1. n.pc = "void_unmark" /\ DOMAIN n = Fields /\ \A f \in Fields \ {"pc"} : n[f] = k[f]
    BY <1>2 DEF Go, Row, Fields
  <2>2. Row(n)
    BY <1>2, <2>1 DEF Row, Fields
  <2>3. Goes(k, n) /\ n.kind = k.kind /\ n.prev = k.prev
    BY <2>1 DEF Goes, Fields
  <2>4. stripe' = stripe /\ stripe' \in [Orders -> StripeOrder] /\ AllBack' = AllBack /\ AllLost' = AllLost
    BY <1>6 DEF Inv, Tables, AllBack, AllLost, RefundTaken, Lost
  <2>5. Placed(n, AllBack')
    BY <1>2, <2>1, <2>3 DEF Goes, Placed, Fits, Selling, Reversing, Bare, SyncCalls, ListCalls, CasCalls, Inserts
  <2>6. Ready(n, AllLost')
    BY <1>2, <2>2, <2>3, <2>4 DEF Ready, Goes
  <2>7. Opens(n) => Opens(k) /\ stripe'[n.o].void = stripe[n.o].void
    BY <1>1, <2>3, <2>4 DEF Opens
  <2>8. n.pc \notin {"rel_refund", "rel_record"} /\ AllBack \subseteq AllBack' /\ AllLost \subseteq AllLost'
    BY <2>1, <2>4
  <2>9. \A o \in Orders : stripe'[o].void = stripe[o].void
    BY <2>4
  <2> QED
    BY <1>1, <1>6, <2>3, <2>4, <2>5, <2>6, <2>7, <2>8, <2>9, PayKeeps
<1> QED
  BY <1>2, <1>3, <1>4, <1>5, <1>6, AskedAnswer

LEMMA LateRefundKeeps ==
    ASSUME Inv, NEW w \in Workers, LateRefund(w), UNCHANGED course
    PROVE  Keeps
<1> PICK k : k = wk[w]
  OBVIOUS
<1>1. k.pc = "late_refund" /\ k.pc \notin Bare /\ UNCHANGED <<orders, lease, members, numbers, badge, deleted>>
  BY DEF LateRefund, At, Bare
<1>2. Ready(k, AllLost) /\ k.o \in Orders /\ k.c.state = "Voided" /\ ~k.c.intent /\ ~Disputed(k.c)
  BY <1>1, AtWork DEF Fits
<1>3. RefundAsked(w, k.o, Go(k, "late_write"), Stop(k))
  BY DEF LateRefund
<1>4. CASE Asks(k.o) /\ Step(w, Go(k, "late_write"))
  BY <1>1, <1>2, <1>4, VoidPaidKeeps
<1>5. CASE UNCHANGED stripe /\ Step(w, Stop(k))
  BY <1>1, <1>2, <1>5, StopCarries, PlainKeeps
<1> QED
  BY <1>2, <1>3, <1>4, <1>5, AskedAnswer

\* A write after which the handler is over
LEMMA LastKeeps ==
    ASSUME Inv, NEW w \in Workers, NEW k, k = wk[w], NEW x, k.pc \notin Bare,
           Write(w, x, Stop(k)), UNCHANGED <<lease, members, numbers, badge, deleted, stripe, course>>,
           k.mine => /\ x \in StoredOrder /\ x.state # "Absent" /\ Sound(k.o, x) /\ (k.c.intent => x.intent)
                     /\ Change(View(k.c), View(x))
    PROVE  Keeps
<1>1. Ready(k, AllLost) /\ Row(k)
  BY AtWork
<1>2. Stop(k).pc = "release" /\ Carries(k, Stop(k), AllBack, AllLost)
  BY <1>1, StopCarries, GoPlace DEF Stop
<1> PICK n : n = Stop(k)
  OBVIOUS
<1>3. Fits(k.o, x, k.task, n.reason, n.pc, AllBack) /\ n.pc \notin SyncCalls \cup ListCalls \cup VoidCalls
  BY <1>2 DEF Fits, Selling, Reversing, SyncCalls, ListCalls, VoidCalls
<1> QED
  BY <1>2, <1>3, NewCopyKeeps

LEMMA VoidUnmarkKeeps ==
    ASSUME Inv, NEW w \in Workers, VoidUnmark(w), UNCHANGED course
    PROVE  Keeps
<1> PICK k : k = wk[w]
  OBVIOUS
<1> PICK x : x = [k.c EXCEPT !.reason = k.prev]
  OBVIOUS
<1>1. k.pc = "void_unmark" /\ k.pc \notin Bare
  BY DEF VoidUnmark, At, Bare
<1>2. Row(k) /\ k.c.state = "Paid" /\ k.c \in StoredOrder /\ k.prev \in VoidReasons
  BY <1>1, AtWork DEF Fits, Row
<1>3. /\ x \in StoredOrder /\ x.state = k.c.state /\ x.intent = k.c.intent
      /\ x.linked = k.c.linked /\ x.pending = k.c.pending /\ x.open = k.c.open /\ x.reason = k.prev
  BY <1>2 DEF StoredOrder
<1>4. k.mine => Sound(k.o, x)
  <2>1. k.mine => Sound(k.o, k.c)
    BY <1>1, AtWork
  <2>2. k.mine /\ k.prev = "None" => ~Marked(k.o)
    BY <1>1 DEF Inv, WorkInv, OpenInv, Opens
  <2> QED
    BY <1>2, <1>3, <2>1, <2>2 DEF Sound, Voiding
<1>5. View(x) = View(k.c)
  BY <1>3, ViewSame
<1>6. Change(View(k.c), View(x))
  BY <1>5 DEF Change, Touch
<1>7. Write(w, x, Stop(k)) /\ UNCHANGED <<lease, members, numbers, badge, deleted, stripe>>
  BY DEF VoidUnmark
<1>8. k.mine => /\ x \in StoredOrder /\ x.state # "Absent" /\ Sound(k.o, x) /\ (k.c.intent => x.intent)
                /\ Change(View(k.c), View(x))
  BY <1>2, <1>3, <1>4, <1>6
<1> QED
  BY <1>1, <1>7, <1>8, LastKeeps

LEMMA VoidWriteKeeps ==
    ASSUME Inv, NEW w \in Workers, VoidWrite(w), UNCHANGED course
    PROVE  Keeps
<1> PICK k : k = wk[w]
  OBVIOUS
<1> PICK x : x = [k.c EXCEPT !.state = "Voided", !.reason = k.reason, !.pending = "None"]
  OBVIOUS
<1>1. k.pc = "void_write" /\ k.pc \notin Bare
  BY DEF VoidWrite, At, Bare
<1>2. /\ Row(k) /\ k.c.state = "Paid" /\ k.c \in StoredOrder /\ k.reason \in VoidReasons /\ k.reason # "None"
      /\ k.c.pending = "DisputeLost" \/ (k.c.open = {} /\ k.o \in AllBack)
  BY <1>1, AtWork DEF Fits, Row
<1>3. /\ x \in StoredOrder /\ x.state = "Voided" /\ x.intent = k.c.intent /\ x.reason = k.reason
      /\ x.linked = k.c.linked /\ x.pending = "None" /\ x.open = k.c.open
  BY <1>2 DEF StoredOrder, OrderState, Reversal
<1>4. k.mine => Sound(k.o, x)
  <2>1. RefundTaken(k.o) \/ Lost(k.o)
    BY <1>1, <1>2, AtWork DEF Ready
  <2> QED
    BY <1>2, <1>3, <2>1 DEF Sound, Voiding
<1>5. Change(View(k.c), View(x))
  BY <1>2, <1>3, VoidChange
<1>6. Write(w, x, Stop(k)) /\ UNCHANGED <<lease, members, numbers, badge, deleted, stripe>>
  BY DEF VoidWrite
<1>7. k.mine => /\ x \in StoredOrder /\ x.state # "Absent" /\ Sound(k.o, x) /\ (k.c.intent => x.intent)
                /\ Change(View(k.c), View(x))
  BY <1>3, <1>4, <1>5
<1> QED
  BY <1>1, <1>6, <1>7, LastKeeps

LEMMA LateWriteKeeps ==
    ASSUME Inv, NEW w \in Workers, LateWrite(w), UNCHANGED course
    PROVE  Keeps
<1> PICK k : k = wk[w]
  OBVIOUS
<1> PICK x : x = [k.c EXCEPT !.intent = TRUE]
  OBVIOUS
<1>1. k.pc = "late_write" /\ k.pc \notin Bare
  BY DEF LateWrite, At, Bare
<1>2. Row(k) /\ k.c.state = "Voided" /\ k.c \in StoredOrder /\ ~k.c.intent /\ ~Disputed(k.c) /\ k.o \in AllBack
  BY <1>1, AtWork DEF Fits, Row
<1>3. /\ x \in StoredOrder /\ x.state = k.c.state /\ x.intent = TRUE /\ x.reason = k.c.reason
      /\ x.linked = k.c.linked /\ x.pending = k.c.pending /\ x.open = k.c.open
  BY <1>2 DEF StoredOrder
<1>4. k.mine => Sound(k.o, x)
  <2>1. k.mine => Sound(k.o, k.c)
    BY <1>1, AtWork
  <2>2. RefundTaken(k.o)
    BY <1>1, <1>2, AtWork
  <2> QED
    BY <1>2, <1>3, <2>1, <2>2 DEF Sound, Voiding
<1>5. Change(View(k.c), View(x))
  <2>1. x.state = IF Disputed(k.c) THEN "Paid" ELSE "Voided"
    BY <1>2, <1>3
  <2> QED
    BY <1>2, <1>3, <2>1, LateChange
<1>6. Write(w, x, Stop(k)) /\ UNCHANGED <<lease, members, numbers, badge, deleted, stripe>>
  BY DEF LateWrite
<1>7. k.mine => /\ x \in StoredOrder /\ x.state # "Absent" /\ Sound(k.o, x) /\ (k.c.intent => x.intent)
                /\ Change(View(k.c), View(x))
  BY <1>2, <1>3, <1>4, <1>5
<1> QED
  BY <1>1, <1>6, <1>7, LastKeeps

LEMMA LatePaidKeeps ==
    ASSUME Inv, NEW w \in Workers, LatePaid(w), UNCHANGED course
    PROVE  Keeps
<1> PICK k : k = wk[w]
  OBVIOUS
<1> PICK x : x = AsPaid(k.c)
  OBVIOUS
<1> PICK h : h = [k EXCEPT !.c = x]
  OBVIOUS
<1>1. k.pc = "late_paid" /\ k.pc \notin Bare
  BY DEF LatePaid, At, Bare
<1>2. k.c \in StoredOrder /\ k.c.state = "Voided" /\ ~k.c.intent /\ Disputed(k.c) /\ k.task # "delete"
  BY <1>1, AtWork DEF Fits
<1>3. /\ x \in StoredOrder /\ x.state = "Paid" /\ x.intent = TRUE /\ x.pending = k.c.pending /\ x.open = k.c.open
      /\ x.linked = k.c.linked /\ x.reason = k.c.reason
  BY <1>2 DEF AsPaid, StoredOrder, OrderState
<1>4. k.mine => Sound(k.o, x)
  <2>1. k.mine => Sound(k.o, k.c)
    BY <1>1, AtWork
  <2> QED
    BY <1>2, <1>3, <2>1 DEF Sound, Voiding
<1>5. Change(View(k.c), View(x))
  <2>1. x.state = IF Disputed(k.c) THEN "Paid" ELSE "Voided"
    BY <1>2, <1>3
  <2> QED
    BY <1>2, <1>3, <2>1, LateChange
<1>6. k.mine => /\ x \in StoredOrder /\ x.state # "Absent" /\ Sound(k.o, x) /\ (k.c.intent => x.intent)
                /\ Change(View(k.c), View(x))
  BY <1>2, <1>3, <1>4, <1>5
<1>7. Ready(h, AllLost) /\ h.task = k.task => Carries(h, RecheckStart(h), AllBack, AllLost)
  BY <1>2, RecheckStartCarries
<1>8. Copied(k, x, h)
  BY DEF Copied
<1>9. Write(w, x, RecheckStart(h)) /\ UNCHANGED <<lease, members, numbers, badge, deleted, stripe>>
  BY DEF LatePaid
<1> QED
  BY <1>1, <1>6, <1>7, <1>8, <1>9, PlannedKeeps

LEMMA FulfilNextKeeps ==
    ASSUME Inv, NEW w \in Workers, FulfilNext(w), UNCHANGED course
    PROVE  Keeps
BY RecheckKeeps, PaidKeeps, JudgeKeeps, DecideKeeps, NumberKeeps, ClaimKeeps, InsertKeeps, InsertReadKeeps,
   ReplaceKeeps, UpgradeReadKeeps, UpgradeCasKeeps, PublishKeeps, PublishLostKeeps, FulfilledKeeps, FinishKeeps,
   DelReadKeeps, DelMemberKeeps, VoidMarkKeeps, VoidRefundKeeps, VoidUnmarkKeeps, VoidWriteKeeps,
   LatePaidKeeps, LateRefundKeeps, LateWriteKeeps DEF FulfilNext

-----------------------------------------------------------------------------
\* Checkout, events, the sweep and Stripe

\* The record of a worker that leased o
Leased(h, o, task) == h.o = o /\ h.c = orders[o] /\ h.mine = TRUE /\ h.task = task

LEMMA HoldingReady ==
    ASSUME Inv, NEW o \in Orders, orders[o].state # "Absent", NEW task, NEW h, h = Holding(o, task)
    PROVE  Ready(h, AllLost) /\ Leased(h, o, task)
<1>1. h.o = o /\ h.c = orders[o] /\ h.mine = TRUE /\ h.task = task /\ DOMAIN h = Fields
  BY IdleBare DEF Holding, Fields
<1>2. \A f \in Fields \ {"task", "o", "c", "mine"} : h[f] = Idle[f]
  BY IdleBare DEF Holding, Fields
<1>3. Idle.ups = {} /\ Idle.up = Free /\ Idle.then = "release" /\ Idle.todo = {}
  BY DEF Idle
<1>4. h.kind = "none" /\ h.todo = {} /\ h.then = "release" /\ h.ups = {} /\ h.up = Free /\ h.pc = "idle"
  BY <1>2, <1>3, IdleBare DEF Fields
<1>5. orders[o] \in StoredOrder
  BY DEF Inv, Tables
<1>6. Row(h)
  <2>1. /\ h.m = Idle.m /\ h.kind = Idle.kind /\ h.d = Idle.d /\ h.reason = Idle.reason /\ h.prev = Idle.prev
        /\ h.number = Idle.number /\ h.show = Idle.show
    BY <1>2 DEF Fields
  <2>2. /\ Idle.m \in Membership /\ Idle.kind \in Kinds \cup {"none"} /\ Idle.d \subseteq Disputes
        /\ Idle.reason \in VoidReasons /\ Idle.prev \in VoidReasons /\ Idle.number \in 0 .. Cap /\ Idle.show \in Badge
    BY IdleBare DEF Row
  <2> QED
    BY <1>1, <1>4, <1>5, <2>1, <2>2 DEF Row
<1>7. orders[o].pending = "DisputeLost" => o \in AllLost
  BY DEF Inv, OrderInv, Sound, AllLost
<1> QED
  BY <1>1, <1>4, <1>5, <1>6, <1>7 DEF Ready, Leased

\* A handler starts, planned from the order as it is leased
LEMMA StartsKeeps ==
    ASSUME Inv, NEW w \in Workers, NEW o \in Orders, NEW task, NEW h, NEW k, Starts(w, o, k), UNCHANGED course,
           h = Holding(o, task),
           Ready(h, AllLost) /\ h.c = orders[o] /\ h.task = task => Carries(h, k, AllBack, AllLost)
    PROVE  Keeps
<1>1. /\ wk[w].pc \in Bare /\ TakeLease(w, o, k) /\ orders[o].state # "Absent"
      /\ UNCHANGED <<orders, members, numbers, badge, deleted, stripe, course>>
  BY DEF Starts, At, Bare, TakeLease
<1>2. Ready(h, AllLost) /\ h.o = o /\ h.c = orders[o] /\ h.mine = TRUE /\ h.task = task
  <2>1. Ready(h, AllLost) /\ Leased(h, o, task)
    BY <1>1, HoldingReady
  <2> QED
    BY <2>1 DEF Leased
<1> QED
  BY <1>1, <1>2, StartKeeps

LEMMA FulfilOrderKeeps ==
    ASSUME Inv, NEW w \in Workers, NEW o \in Orders, FulfilOrder(w, o), UNCHANGED course
    PROVE  Keeps
<1> PICK h : h = Holding(o, "fulfil")
  OBVIOUS
<1>1. Starts(w, o, FulfilStart(h))
  BY DEF FulfilOrder
<1>2. Ready(h, AllLost) /\ h.task = "fulfil" => Carries(h, FulfilStart(h), AllBack, AllLost)
  BY FulfilStartCarries
<1> QED
  BY <1>1, <1>2, StartsKeeps

LEMMA ResumeOrderKeeps ==
    ASSUME Inv, NEW w \in Workers, NEW o \in Orders, ResumeOrder(w, o), UNCHANGED course
    PROVE  Keeps
<1> PICK h : h = Holding(o, "resume")
  OBVIOUS
<1>1. Starts(w, o, ResumeStart(h)) /\ orders[o].state = "Paid"
  BY DEF ResumeOrder
<1>2. Ready(h, AllLost) /\ h.c = orders[o] /\ h.task = "resume" => Carries(h, ResumeStart(h), AllBack, AllLost)
  BY <1>1, ResumeStartCarries
<1> QED
  BY <1>1, <1>2, StartsKeeps

LEMMA ExpireOrderKeeps ==
    ASSUME Inv, NEW w \in Workers, NEW o \in Orders, ExpireOrder(w, o), UNCHANGED course
    PROVE  Keeps
<1> PICK h : h = Holding(o, "expire")
  OBVIOUS
<1> PICK pc : pc = IF orders[o].state \in Unpaid THEN "expire" ELSE "release"
  OBVIOUS
<1>1. Starts(w, o, Go(h, pc))
  BY DEF ExpireOrder
<1>2. h.c = orders[o] => Returns(h, pc, AllBack)
  BY DEF Returns, Onward, CasCalls, Inserts, VoidCalls, Fits, Selling, Reversing, Bare, SyncCalls, ListCalls, Special
<1>3. Ready(h, AllLost) /\ h.c = orders[o] => Carries(h, Go(h, pc), AllBack, AllLost)
  BY <1>2, GoCarries
<1> QED
  BY <1>1, <1>3, StartsKeeps

LEMMA ReverseDisputeKeeps ==
    ASSUME Inv, NEW w \in Workers, NEW o \in Orders, ReverseDispute(w, o), UNCHANGED course
    PROVE  Keeps
<1> PICK h : h = Holding(o, "dispute")
  OBVIOUS
<1>0. PICK d \in Disputes : Starts(w, o, [h EXCEPT !.pc = "dispute_read", !.todo = {d}])
  BY DEF ReverseDispute
<1> PICK n : n = [h EXCEPT !.pc = "dispute_read", !.todo = {d}]
  OBVIOUS
<1>1. ASSUME Ready(h, AllLost), h.task = "dispute" PROVE Carries(h, n, AllBack, AllLost)
  <2>0. Row(h)
    BY <1>1 DEF Ready
  <2>1. n.pc = "dispute_read" /\ n.todo = {d} /\ DOMAIN n = Fields
    BY <2>0 DEF Row, Fields
  <2>2. \A f \in Fields \ {"pc", "todo"} : n[f] = h[f]
    BY <2>0 DEF Row, Fields
  <2>3. Row(n)
    BY <1>1, <2>0, <2>1, <2>2 DEF Row, Fields
  <2>4. Goes(h, n) /\ n.kind = h.kind /\ n.reason = h.reason
    BY <2>2 DEF Goes, Fields
  <2>5. Returns(n, n.pc, AllBack)
    BY <1>1, <2>1, <2>4 DEF Goes, Returns, Onward, CasCalls, Inserts, VoidCalls, Fits, Selling, Reversing, Bare, SyncCalls, ListCalls, Special
  <2> QED
    BY <1>1, <2>3, <2>4, <2>5, CarriesOn DEF VoidCalls, Returns, Ready
<1> QED
  BY <1>0, <1>1, StartsKeeps

LEMMA RecheckDisputesKeeps ==
    ASSUME Inv, NEW w \in Workers, NEW o \in Orders, RecheckDisputes(w, o), UNCHANGED course
    PROVE  Keeps
<1> PICK h : h = Holding(o, "recheck")
  OBVIOUS
<1>1. Starts(w, o, RecheckStart(h))
  BY DEF RecheckDisputes
<1>2. Ready(h, AllLost) /\ h.task = "recheck" => Carries(h, RecheckStart(h), AllBack, AllLost)
  BY RecheckStartCarries
<1> QED
  BY <1>1, <1>2, StartsKeeps


LEMMA RefundOrderKeeps ==
    ASSUME Inv, NEW w \in Workers, NEW o \in Orders, RefundOrder(w, o), UNCHANGED course
    PROVE  Keeps
<1> PICK h : h = Holding(o, "refund")
  OBVIOUS
<1> PICK full : full = RefundedInFull(o)
  OBVIOUS
<1>1. Starts(w, o, ReverseStart(h, "Refund", {}, full))
  BY DEF RefundOrder
<1>2. Ready(h, AllLost) => Carries(h, ReverseStart(h, "Refund", {}, full), AllBack, AllLost)
  BY ReverseStartCarries DEF Kinds
<1> QED
  BY <1>1, <1>2, StartsKeeps

LEMMA ApplyPendingKeeps ==
    ASSUME Inv, NEW w \in Workers, NEW o \in Orders, ApplyPending(w, o), UNCHANGED course
    PROVE  Keeps
<1> PICK h : h = Holding(o, "pending")
  OBVIOUS
<1>1. Starts(w, o, ReverseStart(h, orders[o].pending, {}, FALSE)) /\ orders[o].pending # "None"
  BY DEF ApplyPending
<1>2. orders[o].pending \in Kinds
  BY <1>1 DEF Inv, Tables, StoredOrder, Reversal, Kinds
<1>3. Ready(h, AllLost) /\ h.c = orders[o] => Carries(h, ReverseStart(h, orders[o].pending, {}, FALSE), AllBack, AllLost)
  <2> SUFFICES ASSUME Ready(h, AllLost), h.c = orders[o]
               PROVE  Carries(h, ReverseStart(h, orders[o].pending, {}, FALSE), AllBack, AllLost)
    OBVIOUS
  <2>1. orders[o].pending = "DisputeLost" => h.o \in AllLost
    BY DEF Ready
  <2> QED
    BY <1>2, <2>1, ReverseStartCarries
<1> QED
  BY <1>1, <1>3, StartsKeeps

LEMMA FinishNumberReleaseKeeps ==
    ASSUME Inv, NEW w \in Workers, NEW o \in Orders, FinishNumberRelease(w, o), UNCHANGED course
    PROVE  Keeps
<1> PICK h : h = Holding(o, "release")
  OBVIOUS
<1>1. Starts(w, o, Go(h, "rel_check"))
  BY DEF FinishNumberRelease
<1>2. h.task = "release" => Returns(h, "rel_check", AllBack)
  BY DEF Returns, Onward, CasCalls, Inserts, VoidCalls, Fits, Selling, Reversing, Bare, SyncCalls, ListCalls, Special
<1>3. Ready(h, AllLost) /\ h.task = "release" => Carries(h, Go(h, "rel_check"), AllBack, AllLost)
  BY <1>2, GoCarries
<1> QED
  BY <1>1, <1>3, StartsKeeps

LEMMA SweepKeeps ==
    ASSUME Inv, NEW w \in Workers, NEW o \in Orders, Sweep(w, o), UNCHANGED course
    PROVE  Keeps
BY ResumeOrderKeeps, RecheckDisputesKeeps, ApplyPendingKeeps, FinishNumberReleaseKeeps DEF Sweep

LEMMA EventKeeps ==
    ASSUME Inv, NEW w \in Workers, NEW o \in Orders, Event(w, o), UNCHANGED course
    PROVE  Keeps
BY FulfilOrderKeeps, ExpireOrderKeeps, ReverseDisputeKeeps, RefundOrderKeeps DEF Event

\* From q to s, Stripe takes nothing back
Onwards(q, s) ==
    /\ s \in StripeOrder /\ s.void = q.void /\ s.upgrade = q.upgrade /\ (q.refund # "none" => s.refund # "none")
    /\ \A d \in Disputes : q.dispute[d] = "lost" => s.dispute[d] = "lost"

LEMMA MoneyMoves ==
    ASSUME Inv, NEW o \in Orders, NEW s, Money(o, s), UNCHANGED course, Onwards(stripe[o], s)
    PROVE  Keeps
<1>0. /\ s \in StripeOrder /\ s.void = stripe[o].void /\ s.upgrade = stripe[o].upgrade
      /\ (stripe[o].refund # "none" => s.refund # "none")
      /\ \A d \in Disputes : stripe[o].dispute[d] = "lost" => s.dispute[d] = "lost"
  BY DEF Onwards
<1>1. /\ stripe' = [stripe EXCEPT ![o] = s] /\ stripe \in [Orders -> StripeOrder]
      /\ UNCHANGED <<orders, lease, members, numbers, badge, deleted, wk, course>>
  BY DEF Money, Inv, Tables
<1>2. stripe' \in [Orders -> StripeOrder] /\ stripe'[o] = s /\ \A p \in Orders \ {o} : stripe'[p] = stripe[p]
  BY <1>0, <1>1
<1>3. ASSUME NEW p \in Orders
      PROVE  (RefundTaken(p) => RefundTaken(p)') /\ (Lost(p) => Lost(p)') /\ stripe'[p].void = stripe[p].void
  <2>1. CASE p = o
    BY <1>0, <1>2, <2>1 DEF RefundTaken, Lost
  <2>2. CASE p # o
    BY <1>2, <2>2 DEF RefundTaken, Lost
  <2> QED
    BY <2>1, <2>2
<1>4. AllBack \subseteq AllBack' /\ AllLost \subseteq AllLost'
  BY <1>3 DEF AllBack, AllLost
<1> QED
  BY <1>1, <1>2, <1>3, <1>4, MoneyKeeps

LEMMA RefundMoves ==
    ASSUME Inv, NEW o \in Orders, NEW r \in {"settling", "back", "failed"}, Money(o, WithRefund(stripe[o], r)),
           UNCHANGED course
    PROVE  Keeps
<1>1. stripe[o] \in StripeOrder
  BY DEF Inv, Tables
<1>2. Onwards(stripe[o], WithRefund(stripe[o], r))
  BY <1>1, RefundShape DEF Onwards
<1> QED
  BY <1>2, MoneyMoves

LEMMA ProviderKeeps ==
    ASSUME Inv, NEW o \in Orders, Provider(o), UNCHANGED course
    PROVE  Keeps
<1> PICK q : q = stripe[o]
  OBVIOUS
<1>0. q \in StripeOrder
  BY DEF Inv, Tables
<1>1. CASE Pay(o) \/ SessionExpires(o)
  <2>1. PICK x \in {"paid", "expired"} : Money(o, [q EXCEPT !.session = x])
    BY <1>1 DEF Pay, SessionExpires
  <2> PICK s : s = [q EXCEPT !.session = x]
    OBVIOUS
  <2>2. /\ s \in StripeOrder /\ s.void = q.void /\ s.upgrade = q.upgrade /\ s.refund = q.refund /\ s.dispute = q.dispute
    BY <1>0 DEF StripeOrder
  <2>3. Onwards(q, s)
    BY <2>2 DEF Onwards
  <2> QED
    BY <2>1, <2>3, MoneyMoves
<1>2. CASE DisputeMoves(o)
  <2>1. PICK d \in Disputes, end \in {"open", "won", "lost"} :
          q.dispute[d] \in {"none", "open"} /\ Money(o, [q EXCEPT !.dispute[d] = end])
    BY <1>2 DEF DisputeMoves
  <2> PICK s : s = [q EXCEPT !.dispute[d] = end]
    OBVIOUS
  <2>2. /\ s \in StripeOrder /\ s.void = q.void /\ s.upgrade = q.upgrade /\ s.refund = q.refund
        /\ s.dispute = [q.dispute EXCEPT ![d] = end]
    BY <1>0 DEF StripeOrder
  <2>3. \A x \in Disputes : q.dispute[x] = "lost" => s.dispute[x] = "lost"
    BY <1>0, <2>1, <2>2 DEF StripeOrder
  <2>4. Onwards(q, s)
    BY <2>2, <2>3 DEF Onwards
  <2> QED
    BY <2>1, <2>4, MoneyMoves
<1>3. CASE OwnerRefunds(o)
  <2>1. CASE Money(o, [q EXCEPT !.partial = TRUE])
    <3> PICK s : s = [q EXCEPT !.partial = TRUE]
      OBVIOUS
    <3>1. s \in StripeOrder /\ s.void = q.void /\ s.upgrade = q.upgrade /\ s.refund = q.refund /\ s.dispute = q.dispute
      BY <1>0 DEF StripeOrder
    <3>2. Onwards(q, s)
      BY <3>1 DEF Onwards
    <3> QED
      BY <2>1, <3>2, MoneyMoves
  <2>2. CASE \E r \in Taken(o) : Money(o, WithRefund(q, r))
    BY <1>0, <2>2, TakenStands, RefundMoves
  <2> QED
    BY <1>3, <2>1, <2>2 DEF OwnerRefunds
<1>4. CASE RefundSettles(o)
  BY <1>0, <1>4, RefundMoves DEF RefundSettles
<1> QED
  BY <1>1, <1>2, <1>3, <1>4 DEF Provider


\* A record without an order
LEMMA BareRow ==
    ASSUME NEW n, DOMAIN n = Fields, n.pc \in Bare, n.o \in Orders, n.todo \subseteq Orders,
           n.task = "delete" \/ n.todo = {}, \A f \in Fields \ {"pc", "task", "o", "todo"} : n[f] = Idle[f]
    PROVE  Row(n) /\ n.c = AbsentOrder /\ ~n.mine /\ n.kind = "none"
<1>3. Idle.ups = {} /\ Idle.up = Free /\ Idle.then = "release"
  BY DEF Idle
<1>4. /\ n.m = Idle.m /\ n.kind = Idle.kind /\ n.d = Idle.d /\ n.reason = Idle.reason /\ n.prev = Idle.prev
      /\ n.number = Idle.number /\ n.show = Idle.show /\ n.c = Idle.c /\ n.ups = {} /\ n.up = Free
      /\ n.then = "release"
  BY <1>3 DEF Fields
<1>5. n.mine = FALSE
  BY IdleBare DEF Fields
<1>6. /\ Idle.m \in Membership /\ Idle.kind \in Kinds \cup {"none"} /\ Idle.d \subseteq Disputes
      /\ Idle.reason \in VoidReasons /\ Idle.prev \in VoidReasons /\ Idle.number \in 0 .. Cap /\ Idle.show \in Badge
      /\ Idle.c \in StoredOrder
  BY IdleBare DEF Row
<1>7. Row(n)
  BY <1>4, <1>5, <1>6 DEF Row, Bare
<1> QED
  BY <1>4, <1>5, <1>7, IdleBare

LEMMA CheckoutKeeps ==
    ASSUME Inv, NEW w \in Workers, NEW o \in Orders, Checkout(w, o), UNCHANGED course
    PROVE  Keeps
<1> PICK n : n = [Idle EXCEPT !.pc = "create", !.task = "checkout", !.o = o]
  OBVIOUS
<1>1. /\ orders[o].state = "Absent" /\ Step(w, n) /\ \A v \in Workers : wk[v].o # o
      /\ UNCHANGED <<orders, lease, members, numbers, badge, deleted, stripe, course>>
  BY DEF Checkout
<1>2. /\ n.pc = "create" /\ n.o = o /\ n.task = "checkout" /\ n.todo = Idle.todo /\ DOMAIN n = Fields
      /\ \A f \in Fields \ {"pc", "task", "o", "todo"} : n[f] = Idle[f]
  BY IdleBare DEF Fields
<1>3. Row(n) /\ n.c = AbsentOrder /\ ~n.mine /\ n.kind = "none"
  <2>1. Idle.todo = {}
    BY DEF Idle
  <2> QED
    BY <1>2, <2>1, BareRow DEF Bare
<1>4. Others' /\ lease' \in [Orders -> Workers \cup {Free}] /\ n.pc \in Bare /\ n.pc \notin Deleting
  BY <1>1, <1>2 DEF Others, Inv, Tables, Bare, Deleting
<1> QED
  BY <1>1, <1>2, <1>3, <1>4, BareKeeps

LEMMA DeleteAccountKeeps ==
    ASSUME Inv, NEW w \in Workers, NEW u \in Users, DeleteAccount(w, u), UNCHANGED course
    PROVE  Keeps
<1> PICK o : o = CHOOSE p \in Orders : Buyer[p] = u
  OBVIOUS
<1> PICK n : n = [Idle EXCEPT !.pc = "account", !.task = "delete", !.o = o, !.todo = OpenOrders(u)]
  OBVIOUS
<1>1. /\ u \in course.delete /\ Step(w, n)
      /\ UNCHANGED <<orders, lease, members, numbers, badge, deleted, stripe, course>>
  BY DEF DeleteAccount
<1>2. o \in Orders
  <2>1. course \in Courses
    BY DEF Inv, Tables
  <2>2. \E p \in Orders : Buyer[p] = u
    BY <1>1, <2>1, CoursesAssumption
  <2> QED
    BY <2>2
<1>3. OpenOrders(u) \subseteq Orders
  BY DEF OpenOrders
<1>4. /\ n.pc = "account" /\ n.o = o /\ n.task = "delete" /\ n.todo = OpenOrders(u) /\ DOMAIN n = Fields
      /\ \A f \in Fields \ {"pc", "task", "o", "todo"} : n[f] = Idle[f]
  BY IdleBare DEF Fields
<1>5. Row(n) /\ n.c = AbsentOrder /\ ~n.mine /\ n.kind = "none"
  BY <1>2, <1>3, <1>4, BareRow DEF Bare
<1>6. Others' /\ lease' \in [Orders -> Workers \cup {Free}] /\ n.pc \in Bare
  BY <1>1, <1>4 DEF Others, Inv, Tables, Bare
<1> QED
  BY <1>1, <1>2, <1>4, <1>5, <1>6, BareKeeps

\* What a deletion's record says
LEMMA Deletes ==
    ASSUME Inv, NEW w \in Workers, NEW k, k = wk[w], k.pc \in Deleting
    PROVE  /\ Row(k) /\ k.pc \in Bare /\ k.c = AbsentOrder /\ ~k.mine /\ k.o \in Orders /\ k.kind = "none"
           /\ k.task = "delete" /\ k.todo \subseteq Orders /\ User(k) \in Users
<1>1. Fine(k, AllBack, AllLost) /\ k.pc \in Bare /\ k.pc # "idle"
  BY DEF Inv, WorkInv, Deleting, Bare
<1>2. Row(k) /\ k.c = AbsentOrder /\ ~k.mine /\ k.o \in Orders /\ k.kind = "none" /\ k.task = "delete"
  BY <1>1 DEF Fine
<1>3. k.todo \subseteq Orders
  BY <1>2 DEF Row
<1> QED
  BY <1>1, <1>2, <1>3, CipherAssumption DEF User

\* Its record with another call, or other orders to do
LEMMA DeletesOn ==
    ASSUME NEW k, NEW n, Row(k), k.task = "delete", k.c = AbsentOrder, ~k.mine, k.o \in Orders, k.kind = "none",
           DOMAIN n = Fields, n.pc \in Bare, n.todo \subseteq Orders,
           \A f \in Fields \ {"pc", "todo"} : n[f] = k[f]
    PROVE  /\ Row(n) /\ n.c = AbsentOrder /\ ~n.mine /\ n.o \in Orders /\ n.kind = "none" /\ n.task = "delete"
<1>1. Row(n)
  BY DEF Row, Fields, Bare
<1> QED
  BY <1>1 DEF Fields


LEMMA DeleteMembershipKeeps ==
    ASSUME Inv, NEW w \in Workers, DeleteMembership(w), UNCHANGED course
    PROVE  Keeps
<1> PICK k : k = wk[w]
  OBVIOUS
<1> PICK n : n = Go(k, "del_user")
  OBVIOUS
<1>1. /\ k.pc = "del_row" /\ members' = [members EXCEPT ![User(k)] = NoMember] /\ Step(w, n)
      /\ UNCHANGED <<orders, lease, numbers, badge, deleted, stripe, course>>
  BY DEF DeleteMembership, At
<1>2. /\ Row(k) /\ k.c = AbsentOrder /\ ~k.mine /\ k.o \in Orders /\ k.kind = "none" /\ k.task = "delete"
      /\ k.todo \subseteq Orders /\ User(k) \in Users
  BY <1>1, Deletes DEF Deleting
<1>3. /\ DOMAIN n = Fields /\ n.pc = "del_user" /\ n.pc \in Bare /\ n.todo = k.todo
      /\ \A f \in Fields \ {"pc", "todo"} : n[f] = k[f]
  BY <1>2 DEF Go, Row, Fields, Bare
<1>4. Row(n) /\ n.c = AbsentOrder /\ ~n.mine /\ n.o \in Orders /\ n.kind = "none" /\ n.task = "delete"
  BY <1>2, <1>3, DeletesOn
<1>5. Others' /\ lease' \in [Orders -> Workers \cup {Free}]
  BY <1>1, <1>2, NoMemberType DEF Others, Inv, Tables
<1> QED
  BY <1>1, <1>3, <1>4, <1>5, BareKeeps

LEMMA DeleteUserKeeps ==
    ASSUME Inv, NEW w \in Workers, DeleteUser(w), UNCHANGED course
    PROVE  Keeps
<1> PICK k : k = wk[w]
  OBVIOUS
<1>1. /\ k.pc = "del_user" /\ deleted' = deleted \cup {User(k)} /\ badge' = [badge EXCEPT ![User(k)] = <<>>]
      /\ Step(w, Idle) /\ UNCHANGED <<orders, lease, members, numbers, stripe, course>>
  BY DEF DeleteUser, At
<1>2. User(k) \in Users
  BY <1>1, Deletes DEF Deleting
<1>3. Others' /\ lease' \in [Orders -> Workers \cup {Free}]
  <2>1. <<>> \in Badge
    BY DEF Badge
  <2> QED
    BY <1>1, <1>2, <2>1 DEF Others, Inv, Tables
<1> QED
  BY <1>1, <1>3, IdleBare, BareKeeps

LEMMA VoidForDeletionCarries ==
    ASSUME NEW k, NEW back, NEW lost, Ready(k, lost)
    PROVE  Carries(k, VoidForDeletion(k), back, lost)
<1>1. k.c.state \in Unpaid => Returns(k, "void_unpaid", back)
  BY DEF Returns, Onward, CasCalls, Inserts, VoidCalls, Fits, Selling, Reversing, Bare, SyncCalls, ListCalls, Special
<1> QED
  BY <1>1, GoCarries, StopCarries, VoidDeletedCarries DEF VoidForDeletion

LEMMA DeleteNextKeeps ==
    ASSUME Inv, NEW w \in Workers, DeleteNext(w), UNCHANGED course
    PROVE  Keeps
<1> PICK k : k = wk[w]
  OBVIOUS
<1>1. k.pc = "account" /\ UNCHANGED <<orders, members, numbers, badge, deleted, stripe, course>>
  BY DEF DeleteNext, At
<1>2. /\ Row(k) /\ k.c = AbsentOrder /\ ~k.mine /\ k.o \in Orders /\ k.kind = "none" /\ k.task = "delete"
      /\ k.todo \subseteq Orders /\ k.pc \in Bare
  BY <1>1, Deletes DEF Deleting
<1>3. PICK o \in k.todo :
        \/ TakeLease(w, o, VoidForDeletion([Holding(o, "delete") EXCEPT !.todo = k.todo \ {o}]))
        \/ Step(w, [k EXCEPT !.todo = k.todo \ {o}]) /\ UNCHANGED lease
  BY DEF DeleteNext
<1> PICK rest : rest = k.todo \ {o}
  OBVIOUS
<1>4. o \in Orders /\ rest \subseteq Orders
  BY <1>2
<1>5. CASE TakeLease(w, o, VoidForDeletion([Holding(o, "delete") EXCEPT !.todo = rest]))
  <2> PICK h : h = Holding(o, "delete")
    OBVIOUS
  <2> PICK g : g = [h EXCEPT !.todo = rest]
    OBVIOUS
  <2>1. orders[o].state # "Absent" /\ TakeLease(w, o, VoidForDeletion(g))
    BY <1>5 DEF TakeLease
  <2>2. Ready(h, AllLost) /\ Leased(h, o, "delete")
    BY <1>4, <2>1, HoldingReady
  <2>3. Row(h) /\ h.o = o /\ h.c = orders[o] /\ h.mine = TRUE /\ h.task = "delete"
    BY <2>2 DEF Ready, Leased
  <2>4. g.todo = rest /\ DOMAIN g = Fields /\ \A f \in Fields \ {"todo"} : g[f] = h[f]
    BY <2>3 DEF Row, Fields
  <2>5. g.o = o /\ g.c = orders[o] /\ g.mine = TRUE /\ g.kind = h.kind /\ Row(g)
    BY <1>4, <2>3, <2>4 DEF Row, Fields
  <2>6. Ready(g, AllLost)
    BY <2>2, <2>3, <2>5 DEF Ready
  <2>7. Carries(g, VoidForDeletion(g), AllBack, AllLost)
    BY <2>6, VoidForDeletionCarries
  <2> QED
    BY <1>1, <1>2, <1>4, <2>1, <2>5, <2>7, StartKeeps
<1>6. CASE Step(w, [k EXCEPT !.todo = rest]) /\ UNCHANGED lease
  <2> PICK n : n = [k EXCEPT !.todo = rest]
    OBVIOUS
  <2>1. /\ DOMAIN n = Fields /\ n.pc = "account" /\ n.pc \in Bare /\ n.todo = rest
        /\ \A f \in Fields \ {"pc", "todo"} : n[f] = k[f]
    BY <1>1, <1>2 DEF Row, Fields
  <2>2. Row(n) /\ n.c = AbsentOrder /\ ~n.mine /\ n.o \in Orders /\ n.kind = "none" /\ n.task = "delete"
    <3>1. n.todo \subseteq Orders
      BY <1>4, <2>1
    <3> QED
      BY ONLY <1>2, <2>1, <3>1, DeletesOn
  <2>3. Others' /\ lease' \in [Orders -> Workers \cup {Free}]
    BY <1>1, <1>6 DEF Others, Inv, Tables
  <2> QED
    BY <1>1, <1>6, <2>1, <2>2, <2>3, BareKeeps
<1> QED
  BY <1>3, <1>5, <1>6

LEMMA ExpireWriteKeeps ==
    ASSUME Inv, NEW w \in Workers, ExpireWrite(w), UNCHANGED course
    PROVE  Keeps
<1> PICK k : k = wk[w]
  OBVIOUS
<1> PICK x : x = [k.c EXCEPT !.state = "Expired"]
  OBVIOUS
<1>1. k.pc = "expire" /\ k.pc \notin Bare
  BY DEF ExpireWrite, At, Bare
<1>2. k.c.state \in Unpaid /\ k.c \in StoredOrder
  BY <1>1, AtWork DEF Fits
<1>3. /\ x \in StoredOrder /\ x.state = "Expired" /\ x.intent = k.c.intent /\ x.reason = k.c.reason
      /\ x.linked = k.c.linked /\ x.pending = k.c.pending /\ x.open = k.c.open
  BY <1>2 DEF StoredOrder, OrderState
<1>4. k.mine => Sound(k.o, x)
  <2>1. k.mine => Sound(k.o, k.c)
    BY <1>1, AtWork
  <2> QED
    BY <1>2, <1>3, <2>1 DEF Sound, Voiding, Unpaid
<1>5. Change(View(k.c), View(x))
  BY <1>2, <1>3, ExpireChange
<1>6. Write(w, x, Stop(k)) /\ UNCHANGED <<lease, members, numbers, badge, deleted, stripe>>
  BY DEF ExpireWrite
<1>7. k.mine => /\ x \in StoredOrder /\ x.state # "Absent" /\ Sound(k.o, x) /\ (k.c.intent => x.intent)
                /\ Change(View(k.c), View(x))
  BY <1>3, <1>4, <1>5
<1> QED
  BY <1>1, <1>6, <1>7, LastKeeps

LEMMA VoidUnpaidWriteKeeps ==
    ASSUME Inv, NEW w \in Workers, VoidUnpaidWrite(w), UNCHANGED course
    PROVE  Keeps
<1> PICK k : k = wk[w]
  OBVIOUS
<1> PICK x : x = [k.c EXCEPT !.state = "Voided", !.reason = "AccountDeleted"]
  OBVIOUS
<1>1. k.pc = "void_unpaid" /\ k.pc \notin Bare
  BY DEF VoidUnpaidWrite, At, Bare
<1>2. k.c.state \in Unpaid /\ k.c \in StoredOrder
  BY <1>1, AtWork DEF Fits
<1>3. /\ x \in StoredOrder /\ x.state = "Voided" /\ x.intent = k.c.intent /\ x.reason = "AccountDeleted"
      /\ x.linked = k.c.linked /\ x.pending = k.c.pending /\ x.open = k.c.open
  BY <1>2 DEF StoredOrder, OrderState, VoidReasons
<1>4. k.mine => Sound(k.o, x)
  <2>1. k.mine => Sound(k.o, k.c)
    BY <1>1, AtWork
  <2> QED
    BY <1>2, <1>3, <2>1 DEF Sound, Voiding, Unpaid
<1>5. Change(View(k.c), View(x))
  BY <1>2, <1>3, VoidUnpaidChange
<1>6. Write(w, x, Stop(k)) /\ UNCHANGED <<lease, members, numbers, badge, deleted, stripe>>
  BY DEF VoidUnpaidWrite
<1>7. k.mine => /\ x \in StoredOrder /\ x.state # "Absent" /\ Sound(k.o, x) /\ (k.c.intent => x.intent)
                /\ Change(View(k.c), View(x))
  BY <1>3, <1>4, <1>5
<1> QED
  BY <1>1, <1>6, <1>7, LastKeeps

\* start_session: the URL is stored, and Stripe's session is open
LEMMA SessionOpens ==
    ASSUME Inv, NEW w \in Workers, NEW k, k = wk[w], NEW x, x = [k.c EXCEPT !.state = "Pending"], k.pc = "session",
           Write(w, x, Stop(k)), UNCHANGED <<lease, members, numbers, badge, deleted, course>>,
           stripe' = IF k.mine THEN [stripe EXCEPT ![k.o].session = "open"] ELSE stripe
    PROVE  Keeps
<1>1. k.pc \notin Bare
  BY DEF Bare
<1>2. Ready(k, AllLost) /\ Row(k) /\ k.o \in Orders /\ k.c.state = "Creating" /\ k.c \in StoredOrder
  BY <1>1, AtWork DEF Fits
<1>3. CASE ~k.mine
  <2>1. Step(w, Abort(k)) /\ UNCHANGED <<orders, stripe>>
    BY <1>3 DEF Write, WriteOr
  <2> QED
    BY <1>1, <1>2, <2>1, AbortCarries, PlainKeeps
<1>4. CASE k.mine
  <2>1. /\ orders' = [orders EXCEPT ![k.o] = x] /\ Step(w, [Stop(k) EXCEPT !.c = x])
        /\ stripe' = [stripe EXCEPT ![k.o].session = "open"]
    BY <1>4 DEF Write, WriteOr
  <2>2. /\ x \in StoredOrder /\ x.state = "Pending" /\ x.intent = k.c.intent /\ x.reason = k.c.reason
        /\ x.linked = k.c.linked /\ x.pending = k.c.pending /\ x.open = k.c.open
    BY <1>2 DEF StoredOrder, OrderState
  <2>3. SameMoney
    <3> PICK s : s = [stripe[k.o] EXCEPT !.session = "open"]
      OBVIOUS
    <3>1. stripe \in [Orders -> StripeOrder] /\ stripe[k.o] \in StripeOrder
      BY <1>2 DEF Inv, Tables
    <3>2. /\ s \in StripeOrder /\ s.void = stripe[k.o].void /\ s.refund = stripe[k.o].refund
          /\ s.upgrade = stripe[k.o].upgrade /\ s.dispute = stripe[k.o].dispute
      BY <3>1 DEF StripeOrder
    <3>3. stripe' = [stripe EXCEPT ![k.o] = s]
      BY <1>2, <2>1, <3>1
    <3>4. /\ stripe' \in [Orders -> StripeOrder] /\ stripe'[k.o] = s
          /\ \A p \in Orders \ {k.o} : stripe'[p] = stripe[p]
      BY <1>2, <3>1, <3>2, <3>3
    <3>5. ASSUME NEW p \in Orders
          PROVE  (RefundTaken(p)' <=> RefundTaken(p)) /\ (Lost(p)' <=> Lost(p)) /\ stripe'[p].void = stripe[p].void
      <4>1. CASE p = k.o
        BY <3>2, <3>4, <4>1 DEF RefundTaken, Lost
      <4>2. CASE p # k.o
        BY <3>4, <4>2 DEF RefundTaken, Lost
      <4> QED
        BY <4>1, <4>2
    <3> QED
      BY <3>4, <3>5 DEF SameMoney, AllBack, AllLost
  <2>4. Sound(k.o, x)
    <3>1. Sound(k.o, k.c)
      BY <1>1, <1>4, AtWork
    <3> QED
      BY <1>2, <2>2, <3>1 DEF Sound, Voiding
  <2>5. Change(View(k.c), View(x))
    BY <1>2, <2>2, SessionChange
  <2> PICK n : n = Stop(k)
    OBVIOUS
  <2>6. Carries(k, n, AllBack, AllLost) /\ n.pc = "release"
    BY <1>2, StopCarries, GoPlace DEF Stop
  <2>7. Fits(k.o, x, k.task, n.reason, n.pc, AllBack) /\ n.pc \notin SyncCalls \cup ListCalls \cup VoidCalls
    BY <2>6 DEF Fits, Selling, Reversing, SyncCalls, ListCalls, VoidCalls
  <2>8. Stores(k, x, [n EXCEPT !.c = x], AllBack, AllLost)
    BY <1>2, <2>2, <2>6, <2>7, StoresNew DEF Ready
  <2> QED
    BY <1>1, <1>4, <2>1, <2>2, <2>3, <2>4, <2>5, <2>8, StoreKeeps
<1> QED
  BY <1>3, <1>4

LEMMA StartSessionStepKeeps ==
    ASSUME Inv, NEW w \in Workers, StartSessionStep(w), UNCHANGED course
    PROVE  Keeps
<1> PICK k : k = wk[w]
  OBVIOUS
<1>1. k.pc = "session" /\ k.pc \notin Bare /\ UNCHANGED <<lease, members, numbers, badge, deleted>>
  BY DEF StartSessionStep, At, Bare
<1>2. CASE /\ Write(w, [k.c EXCEPT !.state = "Pending"], Stop(k))
           /\ stripe' = IF k.mine THEN [stripe EXCEPT ![k.o].session = "open"] ELSE stripe
  BY <1>1, <1>2, SessionOpens
<1>3. CASE Write(w, [k.c EXCEPT !.state = "SessionFailed"], Stop(k)) /\ UNCHANGED stripe
  <2> PICK x : x = [k.c EXCEPT !.state = "SessionFailed"]
    OBVIOUS
  <2>1. k.c.state = "Creating" /\ k.c \in StoredOrder
    BY <1>1, AtWork DEF Fits
  <2>2. /\ x \in StoredOrder /\ x.state = "SessionFailed" /\ x.intent = k.c.intent /\ x.reason = k.c.reason
        /\ x.linked = k.c.linked /\ x.pending = k.c.pending /\ x.open = k.c.open
    BY <2>1 DEF StoredOrder, OrderState
  <2>3. k.mine => Sound(k.o, x)
    <3>1. k.mine => Sound(k.o, k.c)
      BY <1>1, AtWork
    <3> QED
      BY <2>1, <2>2, <3>1 DEF Sound, Voiding
  <2>4. Change(View(k.c), View(x))
    BY <2>1, <2>2, SessionChange
  <2>5. k.mine => /\ x \in StoredOrder /\ x.state # "Absent" /\ Sound(k.o, x) /\ (k.c.intent => x.intent)
                  /\ Change(View(k.c), View(x))
    BY <2>2, <2>3, <2>4
  <2> QED
    BY <1>1, <1>3, <2>5, LastKeeps
<1> QED
  BY <1>2, <1>3 DEF StartSessionStep


\* The order is stored: nobody had a copy of it, and nobody looks at it yet
LEMMA CreatedKeeps ==
    ASSUME Inv, NEW w \in Workers, NEW k, k = wk[w], NEW o, o = k.o, NEW c, NEW n,
           k.pc = "create", orders' = [orders EXCEPT ![o] = c], lease' = [lease EXCEPT ![o] = w], Step(w, n),
           UNCHANGED <<members, numbers, badge, deleted, stripe, course>>,
           c \in StoredOrder, c.state = "Creating", c.intent = FALSE, c.pending = "None", c.open = {}, c.linked = TRUE,
           n.pc = "session", n.c = c, n.mine = TRUE, DOMAIN n = Fields,
           \A f \in Fields \ {"pc", "c", "mine"} : n[f] = k[f]
    PROVE  Keeps
<1>1. /\ k.pc = "create" /\ orders' = [orders EXCEPT ![o] = c] /\ lease' = [lease EXCEPT ![o] = w] /\ Step(w, n)
      /\ UNCHANGED <<members, numbers, badge, deleted, stripe, course>>
  OBVIOUS
<1>2. Row(k) /\ o \in Orders /\ k.kind = "none" /\ orders[o].state = "Absent"
  <2>1. Fine(k, AllBack, AllLost) /\ CreateInv(w) /\ k.pc \in Bare /\ k.pc # "idle"
    BY <1>1 DEF Inv, WorkInv, Bare
  <2> QED
    BY <1>1, <2>1 DEF Fine, CreateInv
<1>3. /\ c \in StoredOrder /\ c.state = "Creating" /\ c.intent = FALSE /\ c.pending = "None" /\ c.open = {}
      /\ c.linked = TRUE
  OBVIOUS
<1>4. /\ n.pc = "session" /\ n.c = c /\ n.mine = TRUE /\ DOMAIN n = Fields
      /\ \A f \in Fields \ {"pc", "c", "mine"} : n[f] = k[f]
  OBVIOUS
<1>5. n.o = o /\ n.kind = "none" /\ n.task = k.task /\ n.pc \notin Bare
  BY <1>2, <1>4 DEF Fields, Bare
<1>6. Row(n)
  <2>1. /\ n.o = k.o /\ n.m = k.m /\ n.kind = k.kind /\ n.d = k.d /\ n.reason = k.reason /\ n.prev = k.prev
        /\ n.number = k.number /\ n.show = k.show /\ n.then = k.then /\ n.task = k.task /\ n.todo = k.todo
        /\ n.ups = k.ups /\ n.up = k.up
    BY <1>4 DEF Fields
  <2>2. n.c \in StoredOrder /\ n.mine \in BOOLEAN /\ n.pc \notin {"rel_refund", "rel_record"} /\ DOMAIN n = Fields
    BY <1>3, <1>4
  <2> QED
    BY ONLY <1>2, <2>1, <2>2 DEF Row
<1>7. Ready(n, AllLost)
  BY <1>2, <1>3, <1>4, <1>5, <1>6 DEF Ready
<1>8. Placed(n, AllBack)
  BY <1>3, <1>4, <1>5 DEF Placed, Fits, CasCalls, Inserts, SyncCalls, ListCalls, Selling, Reversing, Bare
<1>9. wk' = [wk EXCEPT ![w] = n] /\ DOMAIN wk = Workers /\ orders \in [Orders -> StoredOrder]
      /\ lease \in [Orders -> Workers \cup {Free}]
  BY <1>1 DEF Step, Inv, Tables
<1>10. wk'[w] = n /\ \A v \in Workers \ {w} : wk'[v] = wk[v]
  BY <1>9
<1>11. /\ orders'[o] = c /\ \A p \in Orders \ {o} : orders'[p] = orders[p]
       /\ lease'[o] = w /\ \A p \in Orders \ {o} : lease'[p] = lease[p]
  BY <1>1, <1>2, <1>9
<1>12. AllBack' = AllBack /\ AllLost' = AllLost
  BY <1>1 DEF RefundTaken, Lost, AllBack, AllLost
<1>13. Sound(o, orders[o])
  BY <1>2 DEF Inv, OrderInv
<1>14. Tables'
  BY <1>1, <1>2, <1>3, <1>9 DEF Tables, Inv
<1>15. ASSUME NEW p \in Orders PROVE OrderInv(p)'
  <2>1. Sound(p, orders'[p])
    <3>1. CASE p = o
      BY <1>2, <1>3, <1>11, <1>13, <3>1 DEF Sound, Voiding
    <3>2. CASE p # o
      BY <1>11, <3>2 DEF Inv, OrderInv
    <3> QED
      BY <3>1, <3>2
  <2>2. Marked(p)' => Marked(p)
    BY <1>1, <1>5, <1>10 DEF Marked
  <2> QED
    BY <1>1, <2>1, <2>2, NoMoney, SoundStill
<1>16. ASSUME NEW v \in Workers \ {w}
       PROVE  /\ WorkInv(v) /\ Row(wk[v]) /\ (wk[v].pc \notin Bare => wk[v].o \in Orders)
              /\ (wk[v].pc = "create" => wk[v].o \in Orders /\ wk[v].o # o)
              /\ (wk[v].mine => wk[v].o # o /\ wk[v].o \in Orders)
              /\ (~course.stalls /\ wk[v].pc \notin Bare => wk[v].o # o)
  <2>1. WorkInv(v) /\ CreateInv(w)
    BY DEF Inv, WorkInv
  <2>2. /\ Row(wk[v]) /\ (wk[v].pc \notin Bare => Ready(wk[v], AllLost)) /\ (wk[v].pc \in Bare => ~wk[v].mine)
        /\ (wk[v].pc = "create" => wk[v].o \in Orders)
    BY <2>1 DEF WorkInv, Fine, Bare
  <2>3. wk[v].pc \notin Bare => wk[v].o \in Orders /\ wk[v].c.state # "Absent" /\ wk[v].c \in StoredOrder
    BY <2>2 DEF Ready, Row
  <2>4. wk[v].pc = "create" => wk[v].o # o
    BY <1>1, <2>1 DEF CreateInv
  <2>5. wk[v].mine => wk[v].o # o /\ wk[v].o \in Orders
    BY <1>2, <2>1, <2>2, <2>3 DEF WorkInv, MineInv
  <2>6. ~course.stalls /\ wk[v].pc \notin Bare => wk[v].o # o
    <3>1. ~course.stalls /\ wk[v].pc \notin Bare => orders[wk[v].o] = [wk[v].c EXCEPT !.linked = orders[wk[v].o].linked]
      BY <2>1 DEF WorkInv, Tied
    <3>2. ~course.stalls /\ wk[v].pc \notin Bare => orders[wk[v].o].state = wk[v].c.state
      BY <2>3, <3>1 DEF StoredOrder
    <3> QED
      BY <1>2, <2>3, <3>2
  <2> QED
    BY <2>1, <2>2, <2>3, <2>4, <2>5, <2>6
<1>17. WorkInv(w)'
  <2>1. Fine(n, AllBack', AllLost')
    BY <1>5, <1>6, <1>7, <1>8, <1>12 DEF Fine
  <2>2. Tied(w)'
    <3>1. c = [c EXCEPT !.linked = c.linked]
      BY <1>3 DEF StoredOrder
    <3> QED
      BY <1>4, <1>5, <1>10, <1>11, <3>1 DEF Tied
  <2>3. MineInv(w)' /\ OpenInv(w)'
    BY <1>4, <1>5, <1>10, <1>11, <1>16 DEF MineInv, OpenInv, Opens
  <2>4. UpInv(w)' /\ CreateInv(w)'
    BY <1>4, <1>10 DEF UpInv, CreateInv
  <2> QED
    BY <1>10, <2>1, <2>2, <2>3, <2>4 DEF WorkInv
<1>18. ASSUME NEW v \in Workers \ {w} PROVE WorkInv(v)'
  <2>1. /\ wk'[v] = wk[v] /\ WorkInv(v) /\ Row(wk[v]) /\ (wk[v].pc \notin Bare => wk[v].o \in Orders)
        /\ (wk[v].pc = "create" => wk[v].o \in Orders /\ wk[v].o # o)
        /\ (wk[v].mine => wk[v].o # o /\ wk[v].o \in Orders)
        /\ (~course.stalls /\ wk[v].pc \notin Bare => wk[v].o # o)
    BY <1>10, <1>16
  <2>2. Fine(wk'[v], AllBack', AllLost')
    BY <1>12, <2>1 DEF WorkInv
  <2>3. Tied(v)'
    BY <1>1, <1>11, <2>1 DEF WorkInv, Tied
  <2>4. UpInv(v)'
    <3>1. wk[v].pc \in {"rel_refund", "rel_record"} => wk[v].up \in Orders /\ orders[wk[v].up].intent
      BY <2>1 DEF WorkInv, UpInv, Row
    <3>2. ~orders[o].intent
      BY <1>2, <1>13 DEF Sound
    <3> QED
      BY <1>11, <2>1, <3>1, <3>2 DEF UpInv
  <2>5. MineInv(v)' /\ OpenInv(v)'
    BY <1>1, <1>5, <1>10, <1>11, <2>1 DEF WorkInv, MineInv, OpenInv, Marked
  <2>6. CreateInv(v)'
    BY <1>4, <1>10, <1>11, <2>1 DEF WorkInv, CreateInv
  <2> QED
    BY <2>2, <2>3, <2>4, <2>5, <2>6 DEF WorkInv
<1>19. View(c) = NewOrder
  <2> PICK v : v = View(c)
    OBVIOUS
  <2>1. /\ Rec(v) /\ v.state = c.state /\ v.intent = c.intent /\ v.pending = c.pending
        /\ v.open = (c.open # {}) /\ v.buyer = c.linked
    BY ViewRec
  <2>2. v.state = "Creating" /\ v.intent = FALSE /\ v.pending = "None" /\ v.open = FALSE /\ v.buyer = TRUE
    BY <1>3, <2>1
  <2> QED
    BY <2>1, <2>2 DEF Rec, ViewFields, NewOrder
<1>20. Life /\ Unpaired
  BY <1>1, <1>2, <1>11, <1>19 DEF Life, Unpaired
<1> QED
  BY <1>14, <1>15, <1>17, <1>18, <1>20 DEF Keeps, Inv

LEMMA CreateKeeps ==
    ASSUME Inv, NEW w \in Workers, Create(w), UNCHANGED course
    PROVE  Keeps
<1> PICK k : k = wk[w]
  OBVIOUS
<1> PICK c : c = [AbsentOrder EXCEPT !.state = "Creating"]
  OBVIOUS
<1> PICK n : n = [k EXCEPT !.pc = "session", !.c = c, !.mine = TRUE]
  OBVIOUS
<1>1. /\ k.pc = "create" /\ orders' = [orders EXCEPT ![k.o] = c] /\ lease' = [lease EXCEPT ![k.o] = w] /\ Step(w, n)
      /\ UNCHANGED <<members, numbers, badge, deleted, stripe, course>>
  BY DEF Create, At
<1>2. Row(k)
  BY DEF Inv, WorkInv, Fine
<1>3. /\ c \in StoredOrder /\ c.state = "Creating" /\ c.intent = FALSE /\ c.pending = "None" /\ c.open = {}
      /\ c.linked = TRUE
  BY DEF AbsentOrder, StoredOrder, OrderState, Reversal, VoidReasons
<1>4. /\ n.pc = "session" /\ n.c = c /\ n.mine = TRUE /\ DOMAIN n = Fields
      /\ \A f \in Fields \ {"pc", "c", "mine"} : n[f] = k[f]
  BY <1>2 DEF Row, Fields
<1> QED
  BY ONLY Inv, w \in Workers, k = wk[w], <1>1, <1>3, <1>4, CreatedKeeps

\* Every order of a user loses its link: whoever has one of them loses its fence
LEMMA UnlinkOrdersKeeps ==
    ASSUME Inv, NEW w \in Workers, UnlinkOrders(w), UNCHANGED course
    PROVE  Keeps
<1> PICK k : k = wk[w]
  OBVIOUS
<1> PICK gone : gone = {o \in Orders : Buyer[o] = User(k) /\ orders[o].linked /\ orders[o].state # "Absent"}
  OBVIOUS
<1> PICK n : n = Go(k, "del_row")
  OBVIOUS
<1>1. /\ k.pc = "account"
      /\ orders' = [o \in Orders |-> IF o \in gone THEN [orders[o] EXCEPT !.linked = FALSE] ELSE orders[o]]
      /\ wk' = [v \in Workers |-> IF v = w THEN n
                                  ELSE IF wk[v].o \in gone THEN [wk[v] EXCEPT !.mine = FALSE] ELSE wk[v]]
      /\ UNCHANGED <<lease, members, numbers, badge, deleted, stripe, course>>
  BY DEF UnlinkOrders, At
<1>2. /\ Row(k) /\ k.c = AbsentOrder /\ ~k.mine /\ k.o \in Orders /\ k.kind = "none" /\ k.task = "delete"
      /\ k.todo \subseteq Orders
  BY <1>1, Deletes DEF Deleting
<1>3. /\ DOMAIN n = Fields /\ n.pc = "del_row" /\ n.pc \in Bare /\ n.todo = k.todo
      /\ \A f \in Fields \ {"pc", "todo"} : n[f] = k[f]
  BY <1>2 DEF Go, Row, Fields, Bare
<1>4. Row(n) /\ n.c = AbsentOrder /\ ~n.mine /\ n.o \in Orders /\ n.kind = "none" /\ n.task = "delete"
  BY <1>2, <1>3, DeletesOn
<1>5. wk'[w] = n /\ \A v \in Workers \ {w} :
          wk'[v] = IF wk[v].o \in gone THEN [wk[v] EXCEPT !.mine = FALSE] ELSE wk[v]
  BY <1>1
<1>6. ASSUME NEW v \in Workers \ {w}
      PROVE  /\ WorkInv(v) /\ Fine(wk'[v], AllBack, AllLost)
             /\ wk'[v].pc = wk[v].pc /\ wk'[v].o = wk[v].o /\ wk'[v].c = wk[v].c /\ wk'[v].up = wk[v].up
             /\ (wk'[v].mine => wk[v].mine /\ wk[v].o \notin gone) /\ Opens(wk'[v]) = Opens(wk[v])
  <2>1. WorkInv(v) /\ Fine(wk[v], AllBack, AllLost)
    BY DEF Inv, WorkInv
  <2>2. CASE wk[v].o \in gone
    <3>1. wk'[v] = [wk[v] EXCEPT !.mine = FALSE]
      BY <1>5, <2>2
    <3> QED
      BY ONLY <2>1, <2>2, <3>1, UnfencedFine DEF Opens
  <2>3. CASE wk[v].o \notin gone
    BY <1>5, <2>1, <2>3
  <2> QED
    BY <2>2, <2>3
<1>7. ASSUME NEW o \in Orders
      PROVE  /\ orders'[o] \in StoredOrder /\ orders[o] \in StoredOrder
             /\ orders'[o].state = orders[o].state /\ orders'[o].intent = orders[o].intent
             /\ orders'[o].reason = orders[o].reason /\ orders'[o].pending = orders[o].pending
             /\ orders'[o].open = orders[o].open
             /\ (o \notin gone => orders'[o] = orders[o])
             /\ (o \in gone => ~orders'[o].linked)
  <2>1. orders[o] \in StoredOrder
    BY DEF Inv, Tables
  <2>2. orders'[o] = IF o \in gone THEN [orders[o] EXCEPT !.linked = FALSE] ELSE orders[o]
    BY <1>1
  <2> QED
    BY <2>1, <2>2 DEF StoredOrder
<1>8. AllBack' = AllBack /\ AllLost' = AllLost
  BY <1>1 DEF RefundTaken, Lost, AllBack, AllLost
<1>9. Tables'
  <2>1. DOMAIN wk' = Workers /\ orders' \in [Orders -> StoredOrder]
    BY <1>1, <1>7
  <2> QED
    BY <1>1, <2>1 DEF Tables, Inv
<1>15. ASSUME NEW p \in Orders
       PROVE  /\ Marked(p)' => Marked(p) \/ Voiding(orders[p])
              /\ \A v \in Workers : wk[v].mine /\ wk'[v].mine /\ wk[v].o = p /\ Marked(p)' => Marked(p)
  <2>1. ~Voiding(wk'[w].c)
    BY <1>4, <1>5 DEF Voiding, AbsentOrder
  <2>2. \A v \in Workers : Voiding(wk'[v].c) => wk'[v].o = wk[v].o /\ wk'[v].c = wk[v].c
    BY <1>6, <2>1
  <2> QED
    BY <1>1, <2>2, FencesLost
<1>10. ASSUME NEW p \in Orders PROVE OrderInv(p)'
  <2>1. Sound(p, orders[p])
    BY DEF Inv, OrderInv
  <2>2. Sound(p, orders'[p]) /\ (Voiding(orders[p]) => Voiding(orders'[p]))
    BY <1>7, <2>1 DEF Sound, Voiding
  <2> QED
    BY <1>1, <1>15, <2>2, NoMoney, SoundStill
<1>11. WorkInv(w)'
  <2>1. Fine(n, AllBack', AllLost')
    BY <1>3, <1>4 DEF Fine
  <2>2. Tied(w)' /\ MineInv(w)' /\ OpenInv(w)' /\ UpInv(w)' /\ CreateInv(w)'
    BY <1>3, <1>4, <1>5 DEF Tied, MineInv, OpenInv, UpInv, CreateInv
  <2> QED
    BY <1>5, <2>1, <2>2 DEF WorkInv
<1>12. ASSUME NEW v \in Workers \ {w} PROVE WorkInv(v)'
  <2>1. /\ WorkInv(v) /\ Fine(wk'[v], AllBack', AllLost') /\ wk'[v].pc = wk[v].pc /\ wk'[v].o = wk[v].o
        /\ wk'[v].c = wk[v].c /\ wk'[v].up = wk[v].up /\ (wk'[v].mine => wk[v].mine /\ wk[v].o \notin gone)
    BY <1>6, <1>8
  <2>2. /\ Row(wk[v]) /\ (wk[v].pc \notin Bare => wk[v].o \in Orders) /\ (wk[v].pc = "create" => wk[v].o \in Orders)
        /\ (wk[v].mine => wk[v].o \in Orders) /\ wk[v].c \in StoredOrder
    BY <2>1 DEF WorkInv, Fine, Ready, Row
  <2>3. Tied(v)'
    <3>1. ASSUME ~course.stalls, wk[v].pc \notin Bare
          PROVE  orders'[wk[v].o] = [wk[v].c EXCEPT !.linked = orders'[wk[v].o].linked]
      <4>1. orders[wk[v].o] = [wk[v].c EXCEPT !.linked = orders[wk[v].o].linked] /\ wk[v].o \in Orders
        BY <2>1, <2>2, <3>1 DEF WorkInv, Tied
      <4>2. CASE wk[v].o \in gone
        <5>1. orders'[wk[v].o] = [orders[wk[v].o] EXCEPT !.linked = FALSE]
          BY <1>1, <4>1, <4>2
        <5> QED
          BY <2>2, <4>1, <5>1 DEF StoredOrder
      <4>3. CASE wk[v].o \notin gone
        BY <1>7, <4>1, <4>3
      <4> QED
        BY <4>2, <4>3
    <3> QED
      BY <1>1, <2>1, <3>1 DEF WorkInv, Tied
  <2>4. UpInv(v)'
    BY <1>7, <2>1, <2>2 DEF WorkInv, UpInv, Row
  <2>5. MineInv(v)'
    <3>1. wk'[v].mine => orders'[wk'[v].o] = wk'[v].c
      BY <1>7, <2>1, <2>2 DEF WorkInv, MineInv
    <3>2. ASSUME NEW z \in Workers \ {v}, wk'[v].mine, wk'[z].mine PROVE wk'[z].o # wk'[v].o
      <4>1. z # w
        BY <1>4, <1>5, <3>2
      <4>2. wk[z].mine /\ wk'[z].o = wk[z].o
        BY <1>6, <3>2, <4>1
      <4> QED
        BY <2>1, <3>2, <4>2 DEF WorkInv, MineInv
    <3> QED
      BY <3>1, <3>2 DEF MineInv
  <2>6. CreateInv(v)'
    <3>1. wk'[v].pc = "create" => orders'[wk'[v].o].state = "Absent"
      BY <1>7, <2>1, <2>2 DEF WorkInv, CreateInv
    <3>2. ASSUME NEW z \in Workers \ {v}, wk'[v].pc = "create", wk'[z].pc = "create" PROVE wk'[z].o # wk'[v].o
      <4>1. z # w
        BY <1>3, <1>5, <3>2
      <4>2. wk[z].pc = "create" /\ wk'[z].o = wk[z].o
        BY <1>6, <3>2, <4>1
      <4> QED
        BY <2>1, <3>2, <4>2 DEF WorkInv, CreateInv
    <3> QED
      BY <3>1, <3>2 DEF CreateInv
  <2>7. OpenInv(v)'
    BY <1>6, <1>15, <2>1, <2>2 DEF WorkInv, OpenInv
  <2> QED
    BY <2>1, <2>3, <2>4, <2>5, <2>6, <2>7 DEF WorkInv
<1>13. Life
  <2>1. ASSUME NEW o \in Orders, orders'[o] # orders[o]
        PROVE  orders[o].state # "Absent" /\ Unlink(View(orders[o]), View(orders'[o]))
    <3> PICK c : c = orders[o]
      OBVIOUS
    <3> PICK x : x = orders'[o]
      OBVIOUS
    <3>1. o \in gone /\ c.linked /\ c.state # "Absent"
      BY <1>7, <2>1
    <3>2. x.state = c.state /\ x.intent = c.intent /\ x.pending = c.pending /\ x.open = c.open /\ x.linked = FALSE
      BY <1>7, <3>1 DEF StoredOrder
    <3> PICK v : v = View(c)
      OBVIOUS
    <3> PICK h : h = [v EXCEPT !.buyer = FALSE]
      OBVIOUS
    <3>3. /\ Rec(v) /\ v.state = c.state /\ v.intent = c.intent /\ v.pending = c.pending
          /\ v.open = (c.open # {}) /\ v.buyer = c.linked
      BY ViewRec
    <3>4. h.state = v.state /\ h.intent = v.intent /\ h.pending = v.pending /\ h.open = v.open /\ h.buyer = FALSE /\ Rec(h)
      BY <3>3 DEF Rec, ViewFields
    <3>5. h.state = x.state /\ h.intent = x.intent /\ h.pending = x.pending /\ h.open = (x.open # {}) /\ h.buyer = x.linked
      BY <3>2, <3>3, <3>4
    <3>6. h = View(x)
      BY ONLY <3>4, <3>5, IsView
    <3> QED
      BY <3>1, <3>3, <3>6 DEF Unlink
  <2> QED
    BY <2>1 DEF Life
<1>14. Unpaired
  BY <1>1 DEF Unpaired
<1> QED
  BY <1>9, <1>10, <1>11, <1>12, <1>13, <1>14 DEF Keeps, Inv


-----------------------------------------------------------------------------
\* Where a behaviour starts

\* What a course sold before it starts
LEMMA SoldBefore ==
    ASSUME course \in Courses
    PROVE  /\ course.sold \subseteq Orders /\ IsFiniteSet(Purchases) /\ Cardinality(Purchases) \in 0 .. Cap
           /\ \A u \in Users : /\ SoldTo(u) \subseteq Orders /\ Cardinality(SoldTo(u)) \in Nat
                               /\ SoldTo(u) # {} => /\ Cardinality(SoldTo(u)) - 1 \in Nat
                                                    /\ \E o \in SoldTo(u) : IsNew(o)
<1>1. /\ course.sold \subseteq Orders /\ IsFiniteSet(course.sold)
      /\ Cardinality({o \in course.sold : From[o] = 0}) <= Cap
  BY CoursesAssumption
<1>2. Purchases \subseteq course.sold /\ Purchases = {o \in course.sold : From[o] = 0}
  BY DEF Purchases, IsNew
<1>3. IsFiniteSet(Purchases) /\ Cardinality(Purchases) \in Nat
  BY <1>1, <1>2, FS_Subset, FS_CardinalityType
<1>4. Cardinality(Purchases) \in 0 .. Cap
  BY <1>1, <1>2, <1>3, CipherAssumption
<1>5. ASSUME NEW u \in Users
      PROVE  /\ SoldTo(u) \subseteq Orders /\ Cardinality(SoldTo(u)) \in Nat
             /\ SoldTo(u) # {} => /\ Cardinality(SoldTo(u)) - 1 \in Nat
                                  /\ \E o \in SoldTo(u) : IsNew(o)
  <2>1. SoldTo(u) = {o \in course.sold : Buyer[o] = u}
    BY DEF SoldTo
  <2>2. {From[o] : o \in SoldTo(u)} = 0 .. Cardinality(SoldTo(u)) - 1
    BY <2>1, CoursesAssumption
  <2>3. SoldTo(u) \subseteq Orders /\ IsFiniteSet(SoldTo(u))
    BY <1>1, <2>1, FS_Subset
  <2>4. Cardinality(SoldTo(u)) \in Nat /\ (SoldTo(u) # {} => Cardinality(SoldTo(u)) # 0)
    BY <2>3, FS_CardinalityType, FS_EmptySet
  <2>5. SoldTo(u) # {} => 0 \in 0 .. Cardinality(SoldTo(u)) - 1
    BY <2>4
  <2>6. SoldTo(u) # {} => \E o \in SoldTo(u) : From[o] = 0
    BY <2>2, <2>5
  <2> QED
    BY <2>3, <2>4, <2>6 DEF IsNew
<1> QED
  BY <1>1, <1>3, <1>4, <1>5

\* The purchases can be numbered
LEMMA NumberAtType ==
    ASSUME course \in Courses
    PROVE  /\ NumberAt \in [Purchases -> 1 .. Cardinality(Purchases)]
           /\ \A o, p \in Purchases : NumberAt[o] = NumberAt[p] => o = p
<1> DEFINE n == Cardinality(Purchases)
<1>1. IsFiniteSet(Purchases) /\ n \in Nat
  BY SoldBefore, CipherAssumption
<1>2. IsFiniteSet(1 .. n) /\ Cardinality(1 .. n) = n
  BY <1>1, FS_Interval
<1>3. ExistsBijection(Purchases, 1 .. n)
  BY <1>1, <1>2, FS_SameCardinalityBij
<1>4. PICK f \in Bijection(Purchases, 1 .. n) : TRUE
  BY <1>3, Fun_ExistsBij
<1>5. f \in [Purchases -> 1 .. n] /\ \A o, p \in Purchases : f[o] = f[p] => o = p
  BY ONLY <1>4 DEF Bijection, Injection, IsInjective
<1> QED
  BY <1>5 DEF NumberAt

LEMMA MemberAtType ==
    ASSUME course \in Courses, NEW u \in Users
    PROVE  MemberAt(u) \in Membership
<1>1. CASE SoldTo(u) = {}
  BY <1>1, NoMemberType DEF MemberAt
<1>2. CASE SoldTo(u) # {}
  <2> PICK o : o = CHOOSE p \in SoldTo(u) : IsNew(p)
    OBVIOUS
  <2>1. o \in SoldTo(u) /\ IsNew(o)
    BY <1>2, SoldBefore
  <2>2. o \in Purchases
    BY <2>1 DEF Purchases, SoldTo
  <2>3. NumberAt[o] \in Numbers
    <3>1. NumberAt[o] \in 1 .. Cardinality(Purchases)
      BY <2>2, NumberAtType
    <3> QED
      BY <3>1, SoldBefore, CipherAssumption DEF Numbers
  <2>4. /\ SoldTo(u) \subseteq Orders /\ Cardinality(SoldTo(u)) \in Nat /\ Cardinality(SoldTo(u)) - 1 \in Nat
    BY <1>2, SoldBefore
  <2>5. MemberAt(u) = [number |-> NumberAt[o], tier |-> Cardinality(SoldTo(u)), orders |-> SoldTo(u), disputed |-> {},
                       revoked |-> "No", version |-> Cardinality(SoldTo(u)) - 1]
    BY <1>2 DEF MemberAt
  <2>6. MemberAt(u) \in CipherMembership
    BY <2>3, <2>4, <2>5 DEF CipherMembership
  <2> QED
    BY <2>6 DEF Membership
<1> QED
  BY <1>1, <1>2

LEMMA InitInv == Init => Inv
<1> SUFFICES ASSUME Init PROVE Inv
  OBVIOUS
<1>1. /\ course \in Courses /\ orders = [o \in Orders |-> OrderAt(o)] /\ lease = [o \in Orders |-> Free]
      /\ members = [u \in Users |-> MemberAt(u)] /\ badge = [u \in Users |-> PublicBadge(MemberAt(u))]
      /\ deleted = {} /\ wk = [w \in Workers |-> Idle]
  BY DEF Init
<1>2. ASSUME NEW o \in Orders
      PROVE  /\ orders[o] \in StoredOrder /\ orders[o].pending = "None"
             /\ orders[o].state \in {"Fulfilled", "Pending", "Absent"}
             /\ (orders[o].intent => orders[o].state = "Fulfilled")
  BY <1>1 DEF OrderAt, AbsentOrder, StoredOrder, OrderState, Reversal, VoidReasons
<1>3. ASSUME NEW o \in Orders
      PROVE  stripe[o] \in StripeOrder /\ ~stripe[o].void
  <2> PICK x \in {"paid", "open", "none"} : x = IF o \in course.sold THEN "paid" ELSE IF o \in course.opened THEN "open" ELSE "none"
    OBVIOUS
  <2>1. stripe[o] = [NewStripe EXCEPT !.session = x]
    BY DEF Init
  <2>2. NewStripe \in StripeOrder /\ NewStripe.void = FALSE
    BY DEF NewStripe, StripeOrder
  <2> QED
    BY <2>1, <2>2 DEF StripeOrder
<1>4. stripe \in [Orders -> StripeOrder]
  <2>1. DOMAIN stripe = Orders /\ stripe = [o \in Orders |-> stripe[o]]
    BY DEF Init
  <2> QED
    BY <1>3, <2>1
<1>5. numbers \in [Numbers -> NumberRow]
  <2>1. ASSUME NEW n \in Numbers
        PROVE  (IF \E o \in Purchases : NumberAt[o] = n THEN CHOOSE o \in Purchases : NumberAt[o] = n ELSE Free)
                 \in Orders \cup {Free}
    <3>1. Purchases \subseteq Orders
      BY <1>1, SoldBefore DEF Purchases
    <3> QED
      BY <3>1
  <2> QED
    BY <2>1 DEF Init, NumberRow
<1>6. members \in [Users -> Membership] /\ badge \in [Users -> Badge]
  <2>1. \A u \in Users : MemberAt(u) \in Membership /\ PublicBadge(MemberAt(u)) \in Badge
    BY <1>1, MemberAtType, PublicBadgeType
  <2> QED
    BY <1>1, <2>1
<1>7. Tables
  BY <1>1, <1>2, <1>4, <1>5, <1>6 DEF Tables
<1>8. ASSUME NEW o \in Orders PROVE OrderInv(o)
  <2>1. ~Marked(o)
    BY <1>1, <1>3 DEF Marked, Voiding, Idle, AbsentOrder
  <2> QED
    BY <1>2, <1>3, <2>1 DEF OrderInv, Sound
<1>9. ASSUME NEW w \in Workers PROVE WorkInv(w)
  <2>1. wk[w] = Idle
    BY <1>1
  <2>2. Fine(wk[w], AllBack, AllLost)
    BY <2>1, IdleBare DEF Fine
  <2>3. Tied(w) /\ MineInv(w) /\ OpenInv(w) /\ UpInv(w) /\ CreateInv(w)
    BY <2>1, IdleBare DEF Tied, MineInv, OpenInv, UpInv, CreateInv
  <2> QED
    BY <2>2, <2>3 DEF WorkInv
<1> QED
  BY <1>7, <1>8, <1>9 DEF Inv

-----------------------------------------------------------------------------
\* Every step

LEMMA HandlerKeeps ==
    ASSUME Inv, NEW w \in Workers, Handler(w), UNCHANGED course
    PROVE  Keeps
BY ReleaseKeeps, SyncReadKeeps, SyncUserKeeps, SyncWriteKeeps, ListReadKeeps, ListCasKeeps, ReleaseNextKeeps,
   ReverseNextKeeps, FulfilNextKeeps, CreateKeeps, StartSessionStepKeeps, ExpireWriteKeeps, DeleteNextKeeps,
   VoidUnpaidWriteKeeps, UnlinkOrdersKeeps, DeleteMembershipKeeps, DeleteUserKeeps DEF Handler

LEMMA StutterKeeps ==
    ASSUME Inv, UNCHANGED vars
    PROVE  Keeps
<1>1. UNCHANGED <<orders, lease, members, numbers, badge, deleted, wk, course>> /\ UNCHANGED stripe
  BY DEF vars
<1>2. SameMoney
  BY <1>1, NoMoney
<1> QED
  BY <1>1, <1>2, MoneyKeeps DEF SameMoney

LEMMA NextKeeps ==
    ASSUME Inv, [Next]_vars
    PROVE  Keeps
<1>1. CASE UNCHANGED vars
  BY <1>1, StutterKeeps
<1>2. CASE Next
  <2>0. UNCHANGED course
    BY <1>2 DEF Next, Aside
  <2>1. ASSUME NEW w \in Workers, Handler(w) \/ Fail(w) \/ Crash(w) PROVE Keeps
    BY <2>0, <2>1, HandlerKeeps, FailKeeps, CrashKeeps
  <2>2. ASSUME NEW w \in Workers, NEW o \in Orders, Checkout(w, o) \/ Event(w, o) \/ Sweep(w, o) PROVE Keeps
    BY <2>0, <2>2, CheckoutKeeps, EventKeeps, SweepKeeps
  <2>3. ASSUME NEW w \in Workers, NEW u \in Users, DeleteAccount(w, u) PROVE Keeps
    BY <2>0, <2>3, DeleteAccountKeeps
  <2>4. ASSUME NEW o \in Orders, Provider(o) \/ LeaseRunsOut(o, course.stalls) PROVE Keeps
    BY <2>0, <2>4, ProviderKeeps, LeaseRunsOutKeeps
  <2> QED
    BY <1>2, <2>1, <2>2, <2>3, <2>4 DEF Next
<1> QED
  BY <1>1, <1>2


-----------------------------------------------------------------------------
\* The invariant holds throughout: whatever events arrive, calls fail,
\* processes die and leases run out, each worker's next call fits the copy
\* of the order it works on, a copy with its fence is the stored order and
\* is the only such copy, and what is stored of an order agrees with what
\* Stripe did with its payment.
THEOREM Invariance == Spec => []Inv
<1>1. Inv /\ [Next]_vars => Inv'
  BY NextKeeps DEF Keeps
<1> QED
  BY <1>1, InitInv, PTL DEF Spec

\* Type correctness: the orders, memberships, numbers and badges the
\* engine's handlers write are of their types whatever they run beside.
THEOREM TypeCorrect == Spec => []TypeOK
<1> DEFINE Known == crossed \subseteq Users
<1>1. Init => Known
  BY DEF Init
<1>2. Known /\ [Next]_vars => Known'
  BY DEF Next, Aside, Crossing, vars
<1>3. Inv /\ Known => TypeOK
  BY DEF Inv, Tables, TypeOK, WorkInv, Fine, Row
<1> QED
  BY <1>1, <1>2, <1>3, Invariance, PTL DEF Spec

\* Every change of a stored order, by whichever handler of whichever
\* worker, is a change of PaymentOrder judged on the order as stored: the
\* engine's fenced writes implement the order's life cycle.
THEOREM Lifecycle == Spec => OrdersFollowLifecycle
<1>1. Inv /\ [Next]_vars =>
        [\A o \in Orders : orders'[o] # orders[o] =>
           \/ orders[o].state = "Absent" /\ View(orders'[o]) = NewOrder
           \/ orders[o].state # "Absent"
              /\ \/ Change(View(orders[o]), View(orders'[o]))
                 \/ Unlink(View(orders[o]), View(orders'[o]))]_vars
  BY NextKeeps DEF Keeps, Life
<1> QED
  BY <1>1, Invariance, PTL DEF Spec, OrdersFollowLifecycle

\* void_paid and void_late_payment write Voided, or the payment of a
\* Voided order, only once Stripe took a refund of the whole payment (it
\* may fail later, while unsettled) or a dispute of it was lost.
THEOREM VoidRefundsTaken == Spec => []VoidedRefundTaken
<1>1. Inv => VoidedRefundTaken
  BY DEF Inv, OrderInv, Sound, Lost, VoidedRefundTaken
<1> QED
  BY <1>1, Invariance, PTL

\* The refund of a void is never asked for while a dispute of the order is
\* open or lost and not applied, by workers that keep within their leases.
THEOREM NoRefundInDispute == Spec => NoVoidRefundInDispute
<1>1. Inv /\ [Next]_vars =>
        [~course.stalls => \A o \in Orders : ~stripe[o].void /\ stripe'[o].void => ~Disputed(orders[o])]_vars
  BY NextKeeps DEF Keeps, Unpaired
<1> QED
  BY <1>1, Invariance, PTL DEF Spec, NoVoidRefundInDispute

\* Once the refund of a void was taken, the order is Voided or Refunded or
\* still Paid with the void's reason on it, which resume_order takes up
\* again: never Fulfilled.
THEOREM RefundedStaysVoid == Spec => []RefundIsFinal
<1>1. Inv => RefundIsFinal
  BY DEF Inv, OrderInv, Sound, Marked, RefundIsFinal
<1> QED
  BY <1>1, Invariance, PTL

\* Two workers never both pass the fence of write: at most one copy of an
\* order is the stored one and taken for it.
OneFence ==
    \A v, w \in Workers : wk[v].mine /\ wk[w].mine /\ wk[v].o = wk[w].o => v = w

THEOREM FenceExclusive == Spec => []OneFence
<1>1. Inv => OneFence
  BY DEF Inv, WorkInv, MineInv, OneFence
<1> QED
  BY <1>1, Invariance, PTL

-----------------------------------------------------------------------------
\* The membership rows: what a worker's next call needs of the rows and
\* numbers

\* The calls of a number release once the mark is seen, and its loop over the upgrades
RelCalls == {"rel_read", "rel_revoke", "rel_fence", "rel_up", "rel_refund", "rel_record", "rel_fence2",
             "rel_delete", "rel_mark", "rel_free"}
Loop == {"rel_up", "rel_refund", "rel_record", "rel_fence2", "rel_delete"}

\* The calls of a worker that found its order on no row
Voids == {"void_mark", "void_refund", "void_write"}
Unsold == {"decide", "number", "claim", "insert", "insert_read", "replace", "upgrade_read", "upgrade_cas",
           "void_unmark"} \cup Voids

\* Where a badge sync outside of a release returns to, and a listing
Ends == {"finish", "fulfilled", "refunded", "rev_done", "release", "recheck"}
Exits == {"publish", "release", "recheck"}

Lists(k) ==
    /\ k.found \in Exits \cup {"sync_read"} /\ k.missing \in Exits \cup {"sync_read"}
    /\ k.found = "sync_read" \/ k.missing = "sync_read" => k.ret \in Ends
InRelease(k) == k.pc \in RelCalls \/ (k.pc \in SyncCalls /\ k.ret \in RelCalls)

\* Of a worker record alone
Routed(k) ==
    /\ k.pc \in SyncCalls => k.ret \in Ends \cup {"rel_read", "rel_mark", "rel_free"}
    /\ k.pc \in ListCalls => Lists(k)
    /\ InRelease(k) => k.number # 0 /\ IsNew(k.o)
    /\ k.pc \in {"number", "claim"} => IsNew(k.o)
    /\ k.pc = "down_cas" => ~IsNew(k.o)
    /\ k.pc = "create" => k.number = 0
    /\ k.pc \in {"rel_fence2", "rel_delete"} => k.ups = {} /\ ~k.waiting

\* Calls with a condition of their own
Rough == Bare \cup RelCalls \cup Unsold \cup SyncCalls \cup ListCalls \cup {"rel_put", "down_cas", "del_read", "del_member"}

\* What most calls are followed by
Off(n) ==
    /\ n.pc \notin Bare \cup RelCalls \cup {"rel_put", "down_cas"} \cup (Unsold \ Voids)
    /\ n.pc \in SyncCalls => n.ret \in Ends
    /\ n.pc \in ListCalls => Lists(n)
    /\ n.pc \in Voids => n.c.reason # "None"
    /\ n.pc \in {"del_read", "del_member"} => ~n.c.linked
Slight(k, n) ==
    /\ DOMAIN n = Fields /\ n.o = k.o /\ n.c = k.c /\ n.mine = k.mine /\ n.task = k.task
    /\ n.number \in {0, k.number} /\ n.m \in {k.m, NoMember}
    /\ n.task = "delete" => n.todo \subseteq k.todo
Calm(k, n) == Slight(k, n) /\ Off(n)

\* A record with its fields, which returns somewhere
Whole(k) == DOMAIN k = Fields /\ k.then \in {"release", "recheck"}

LEMMA RowWhole == ASSUME NEW k, Row(k) PROVE Whole(k)
BY DEF Row, Whole

LEMMA PlainCalm ==
    ASSUME NEW k, NEW n, Slight(k, n), n.pc \notin Rough
    PROVE  Calm(k, n)
BY DEF Calm, Off, Rough, Unsold, Voids

LEMMA OffRouted ==
    ASSUME NEW n, Off(n)
    PROVE  Routed(n) /\ ~InRelease(n)
BY DEF Off, Routed, InRelease, RelCalls, Unsold, Voids, SyncCalls, ListCalls, Bare, Ends

LEMMA SlightTwice ==
    ASSUME NEW k, NEW n, NEW p, Slight(k, n), Slight(n, p)
    PROVE  Slight(k, p)
BY DEF Slight

LEMMA CalmTwice ==
    ASSUME NEW k, NEW n, NEW p, Slight(k, n), Calm(n, p)
    PROVE  Calm(k, p)
BY SlightTwice DEF Calm

LEMMA GoCalm ==
    ASSUME NEW k, NEW pc, Whole(k), pc \notin Rough
    PROVE  Calm(k, Go(k, pc))
<1> PICK n : n = Go(k, pc)
  OBVIOUS
<1>1. n.pc = pc /\ Slight(k, n)
  BY DEF Go, Whole, Fields, Slight
<1> QED
  BY <1>1, PlainCalm

LEMMA RoughSays ==
    "release" \notin Rough /\ "recheck" \notin Rough
BY DEF Rough, RelCalls, Unsold, Voids, SyncCalls, ListCalls, Bare

LEMMA StopCalm ==
    ASSUME NEW k, Whole(k)
    PROVE  Calm(k, Stop(k))
BY GoCalm, RoughSays DEF Stop

LEMMA DoneCalm ==
    ASSUME NEW k, Whole(k)
    PROVE  Calm(k, Done(k))
<1> PICK n : n = Done(k)
  OBVIOUS
<1>1. n.pc \in {"release", "recheck"} /\ Slight(k, n)
  BY DEF Done, Whole, Fields, Slight
<1> QED
  BY <1>1, PlainCalm, RoughSays

LEMMA AbortCalm ==
    ASSUME NEW k, Whole(k)
    PROVE  Calm(k, Abort(k))
<1> PICK n : n = Done(k)
  OBVIOUS
<1> PICK p : p = Abort(k)
  OBVIOUS
<1>1. n.pc \in {"release", "recheck"} /\ Slight(k, n) /\ DOMAIN n = Fields
  BY DEF Done, Whole, Fields, Slight
<1>2. p.pc = n.pc /\ Slight(n, p)
  BY <1>1 DEF Abort, Fields, Slight
<1> QED
  BY <1>1, <1>2, SlightTwice, PlainCalm, RoughSays

LEMMA SyncCalm ==
    ASSUME NEW k, NEW ret \in Ends, Whole(k)
    PROVE  Calm(k, Sync(k, ret))
<1> PICK n : n = Sync(k, ret)
  OBVIOUS
<1>1. n.pc = "sync_read" /\ n.ret = ret /\ Slight(k, n)
  BY DEF Sync, Whole, Fields, Slight
<1> QED
  BY <1>1 DEF Calm, Off, RelCalls, Unsold, Voids, SyncCalls, ListCalls, Bare

LEMMA ListingCalm ==
    ASSUME NEW k, NEW open, NEW found \in Exits \cup {"sync_read"}, NEW missing \in Exits \cup {"sync_read"}, Whole(k),
           found = "sync_read" \/ missing = "sync_read" => k.ret \in Ends
    PROVE  Calm(k, Listing(k, open, found, missing))
<1> PICK n : n = Listing(k, open, found, missing)
  OBVIOUS
<1>1. n.pc = "list_read" /\ n.ret = k.ret /\ n.found = found /\ n.missing = missing /\ Slight(k, n)
  BY DEF Listing, Whole, Fields, Slight
<1> QED
  BY <1>1 DEF Calm, Off, RelCalls, Unsold, Voids, SyncCalls, ListCalls, Bare, Lists

-----------------------------------------------------------------------------
\* The second inductive invariant, of the rows

\* Paid orders show their payment, and so does every order on a row; only accounts that are
\* being deleted lose their orders
PaidInv == \A o \in Orders : orders[o].state \in {"Paid", "Fulfilled"} => orders[o].intent
IntentInv == \A u \in Users : \A x \in members[u].orders : orders[x].intent
LinkInv ==
    /\ \A o \in Orders : ~orders[o].linked => Buyer[o] \in course.delete
    /\ deleted \subseteq course.delete

\* What the worker k knows of its order, of the row it read and, in the loop of a release, of
\* the upgrades on that row; who deletes an account
Closed(x) == Settled(View(orders[x]))
Watched(k) ==
    k.pc \in Loop => \A x \in k.m.orders \ {k.o} :
        \/ x \in k.ups \/ k.waiting \/ Closed(x)
        \/ x = k.up /\ k.pc \in {"rel_refund", "rel_record"}
Known(k) ==
    /\ k.pc \notin Bare => /\ k.c.intent => orders[k.o].intent
                           /\ k.c.state \in {"Paid", "Fulfilled"} => k.c.intent
                           /\ ~k.c.linked => User(k) \in course.delete
    /\ \A x \in k.m.orders : orders[x].intent
    /\ Watched(k)
    /\ k.pc \in Deleting \cup {"del_read", "del_member"} \/ k.task = "delete" => User(k) \in course.delete
    /\ k.task = "delete" => \A x \in k.todo : Buyer[x] \in course.delete
KnownInv(w) == Routed(wk[w]) /\ Known(wk[w])

\* A number is a purchase's, which has no other
NumbersInv ==
    \A n \in Numbers : numbers[n].order # Free =>
        /\ IsNew(numbers[n].order)
        /\ \A m \in Numbers : numbers[m].order = numbers[n].order => m = n

\* The number of a row is of one of its orders; an order on a row is not voided
HeldInv(u) == u \notin crossed /\ members[u] # NoMember => numbers[members[u].number].order \in members[u].orders
OnRow(o) == Buyer[o] \notin crossed /\ Holds(members[Buyer[o]], o)
BoughtInv(o) == OnRow(o) => orders[o].reason = "None" /\ ~stripe[o].void

\* The number a worker has is its order's; before it is put back no row has it; who has still to
\* apply the order, or voids it, found it on no row
Unheld(o) ==
    \A u \in Users : u \notin crossed /\ members[u] # NoMember => numbers[members[u].number].order # o
Claims(k) ==
    /\ k.number # 0 => numbers[k.number].order = k.o
    /\ k.pc = "rel_put" => Unheld(k.o)
    /\ k.pc \in Unsold => ~OnRow(k.o)
ClaimInv(w) == wk[w].pc \notin Bare => Claims(wk[w])

Base == PaidInv /\ IntentInv /\ LinkInv
Rows == NumbersInv /\ (\A u \in Users : HeldInv(u)) /\ (\A o \in Orders : BoughtInv(o))
Held ==
    /\ Base /\ \A w \in Workers : KnownInv(w)
    /\ ~course.stalls => Rows /\ \A w \in Workers : ClaimInv(w)

\* A step, with what was shown of it already
Moving == Inv /\ Held /\ Keeps /\ Aside

\* No row goes with a purchase on it that is not settled; what is shown of every step
Gone ==
    \A u \in Users \ (course.delete \cup crossed') :
        members[u] # NoMember /\ members'[u] = NoMember =>
            \A o \in members[u].orders : ~IsNew(o) => orders[o].state \in {"Refunded", "Voided"}
Stays == Held' /\ Gone

\* Payments once seen are seen, settled orders stay settled
Grows ==
    /\ \A o \in Orders : orders[o].intent => orders'[o].intent
    /\ \A o \in Orders : Closed(o) => Closed(o)'

LEMMA ChangeGrows ==
    ASSUME NEW a \in StoredOrder, NEW b \in StoredOrder, Change(View(a), View(b)) \/ Unlink(View(a), View(b))
    PROVE  /\ a.intent => b.intent
           /\ Settled(View(a)) => Settled(View(b))
           /\ (a.state \in {"Paid", "Fulfilled"} => a.intent) => (b.state \in {"Paid", "Fulfilled"} => b.intent)
<1> PICK h : h = View(a)
  OBVIOUS
<1> PICK n : n = View(b)
  OBVIOUS
<1>1. /\ h.state = a.state /\ h.intent = a.intent /\ n.state = b.state /\ n.intent = b.intent
      /\ h.intent \in BOOLEAN /\ n.intent \in BOOLEAN
      /\ DOMAIN h = ViewFields
  BY DEF View, StoredOrder, ViewFields
<1>2. (h.intent => n.intent) /\ (Settled(h) => Settled(n))
      /\ ((h.state \in {"Paid", "Fulfilled"} => h.intent) => (n.state \in {"Paid", "Fulfilled"} => n.intent))
  <2>1. CASE Unlink(h, n)
    BY <1>1, <2>1 DEF Unlink, Settled, ViewFields
  <2>2. CASE StartSession(h, n) \/ Expire(h, n) \/ MarkPaid(h, n) \/ Fulfil(h, n)
    BY <1>1, <2>2 DEF StartSession, Expire, MarkPaid, Fulfil, Settled, ViewFields, Unpaid
  <2>3. CASE Void(h, n) \/ VoidUnpaid(h, n) \/ PayVoided(h, n)
    BY <1>1, <2>3 DEF Void, VoidUnpaid, PayVoided, Settled, ViewFields, Unpaid
  <2>4. CASE RecordReversal(h, n) \/ RecordDispute(h, n)
    BY <1>1, <2>4 DEF RecordReversal, RecordDispute, Settled, ViewFields, BeforeFulfilment, Unpaid
  <2>5. CASE MarkRefunded(h, n) \/ DropReversal(h, n) \/ Touch(h, n)
    BY <1>1, <2>5 DEF MarkRefunded, DropReversal, Touch, Settled, ViewFields
  <2> QED
    BY <2>1, <2>2, <2>3, <2>4, <2>5 DEF Change
<1> QED
  BY <1>1, <1>2

LEMMA MovingGrows ==
    ASSUME Moving
    PROVE  Grows /\ PaidInv'
<1>1. ASSUME NEW o \in Orders
      PROVE  /\ orders[o].intent => orders'[o].intent
             /\ Settled(View(orders[o])) => Settled(View(orders'[o]))
             /\ orders'[o].state \in {"Paid", "Fulfilled"} => orders'[o].intent
  <2>1. orders[o] \in StoredOrder /\ orders'[o] \in StoredOrder
    BY DEF Moving, Keeps, Inv, Tables
  <2>2. orders[o].state \in {"Paid", "Fulfilled"} => orders[o].intent
    BY DEF Moving, Held, Base, PaidInv
  <2>3. CASE orders'[o] = orders[o]
    BY <2>2, <2>3
  <2>4. CASE orders[o].state = "Absent" /\ View(orders'[o]) = NewOrder
    <3>1. ~orders[o].intent
      BY <2>4, <2>1 DEF Moving, Inv, OrderInv, Sound, StoredOrder
    <3>2. orders'[o].state = "Creating"
      BY <2>4 DEF View, NewOrder
    <3>3. ~Settled(View(orders[o]))
      BY <2>4 DEF View, Settled
    <3> QED
      BY <3>1, <3>2, <3>3
  <2>5. CASE Change(View(orders[o]), View(orders'[o])) \/ Unlink(View(orders[o]), View(orders'[o]))
    BY <2>1, <2>2, <2>5, ChangeGrows
  <2> QED
    BY <2>3, <2>4, <2>5 DEF Moving, Keeps, Life
<1> QED
  BY <1>1 DEF Grows, PaidInv, Closed

-----------------------------------------------------------------------------
\* Steps and the rows

\* Everybody else is where they were, a fence apart
Same(k, n) == n = k \/ n = [k EXCEPT !.mine = FALSE]
Alone(w) == \A v \in Workers \ {w} : Same(wk[v], wk'[v])

LEMMA SameSays ==
    ASSUME NEW k, NEW n, Row(k), Same(k, n)
    PROVE  /\ n.pc = k.pc /\ n.task = k.task /\ n.o = k.o /\ n.c = k.c /\ n.m = k.m /\ n.number = k.number
           /\ n.found = k.found /\ n.missing = k.missing /\ n.ret = k.ret /\ n.todo = k.todo
           /\ n.ups = k.ups /\ n.up = k.up /\ n.waiting = k.waiting
           /\ Routed(k) => Routed(n)
<1>1. /\ n.pc = k.pc /\ n.task = k.task /\ n.o = k.o /\ n.c = k.c /\ n.m = k.m /\ n.number = k.number
      /\ n.found = k.found /\ n.missing = k.missing /\ n.ret = k.ret /\ n.todo = k.todo
      /\ n.ups = k.ups /\ n.up = k.up /\ n.waiting = k.waiting
  BY DEF Same, Row, Fields
<1> QED
  BY <1>1 DEF Routed, InRelease, Lists

LEMMA StepAlone ==
    ASSUME Inv, NEW w \in Workers, NEW n, Step(w, n)
    PROVE  wk'[w] = n /\ Alone(w)
BY DEF Step, Alone, Same, Inv, Tables

LEMMA MovingSays ==
    ASSUME Moving
    PROVE  /\ Inv /\ Inv' /\ Held /\ Grows /\ PaidInv' /\ UNCHANGED course
           /\ crossed \subseteq crossed'
           /\ UNCHANGED members => crossed' = crossed
<1>1. UNCHANGED members => Crossing = {}
  BY DEF Crossing
<1> QED
  BY <1>1, MovingGrows DEF Moving, Keeps, Aside

LEMMA RowOf == ASSUME Inv, NEW w \in Workers PROVE Row(wk[w])
BY DEF Inv, WorkInv, Fine

LEMMA OtherKnown ==
    ASSUME Moving, NEW v \in Workers, Same(wk[v], wk'[v])
    PROVE  KnownInv(v)'
<1> PICK k : k = wk[v]
  OBVIOUS
<1> PICK n : n = wk'[v]
  OBVIOUS
<1>1. Grows /\ Inv /\ UNCHANGED course
  BY MovingSays
<1>2. Row(k) /\ Routed(k) /\ Known(k)
  BY <1>1, RowOf DEF Moving, Held, KnownInv
<1>3. /\ n.pc = k.pc /\ n.task = k.task /\ n.o = k.o /\ n.c = k.c /\ n.m = k.m /\ n.todo = k.todo
      /\ n.ups = k.ups /\ n.up = k.up /\ n.waiting = k.waiting
      /\ Routed(n)
  BY <1>2, SameSays
<1>4. k.pc \notin Bare => k.o \in Orders
  BY <1>1 DEF Inv, WorkInv, Fine, Ready
<1>5. k.m.orders \subseteq Orders
  BY <1>2 DEF Row, Membership, CipherMembership, NoMember
<1>6. k.pc \notin Bare => /\ k.c.intent => orders'[k.o].intent
                          /\ k.c.state \in {"Paid", "Fulfilled"} => k.c.intent
                          /\ ~k.c.linked => User(k) \in course'.delete
  BY <1>1, <1>2, <1>4 DEF Known, Grows
<1>7. \A x \in k.m.orders : orders'[x].intent
  BY <1>1, <1>2, <1>5 DEF Known, Grows
<1>8. Watched(n)'
  BY <1>1, <1>2, <1>3, <1>5 DEF Known, Watched, Grows
<1>9. /\ k.pc \in Deleting \cup {"del_read", "del_member"} \/ k.task = "delete" => User(k) \in course'.delete
      /\ k.task = "delete" => \A x \in k.todo : Buyer[x] \in course'.delete
  BY <1>1, <1>2 DEF Known
<1>10. Known(n)'
  BY <1>3, <1>6, <1>7, <1>8, <1>9 DEF Known, User
<1> QED
  BY <1>3, <1>10 DEF KnownInv

LEMMA OtherClaims ==
    ASSUME Moving, ~course.stalls, NEW v \in Workers, Same(wk[v], wk'[v]),
           wk[v].number # 0 /\ numbers[wk[v].number].order = wk[v].o => numbers'[wk[v].number].order = wk[v].o,
           wk[v].pc = "rel_put" /\ Unheld(wk[v].o) => Unheld(wk[v].o)',
           OnRow(wk[v].o)' => OnRow(wk[v].o)
    PROVE  ClaimInv(v)'
<1>1. Row(wk[v]) /\ ClaimInv(v)
  BY MovingSays, RowOf DEF Held
<1>2. /\ wk'[v].pc = wk[v].pc /\ wk'[v].number = wk[v].number /\ wk'[v].o = wk[v].o
  BY <1>1, SameSays
<1> QED
  BY <1>1, <1>2 DEF ClaimInv, Claims

\* What was found to be so of an order's links, and of its being void
LinksStill ==
    /\ \A o \in Orders : orders'[o].linked = orders[o].linked \/ Buyer[o] \in course.delete
    /\ deleted' \subseteq deleted \cup course.delete
VoidsStill == \A o \in Orders : OnRow(o) => orders'[o].reason = orders[o].reason /\ stripe'[o].void = stripe[o].void
NumbersStill == \A n \in Numbers : numbers'[n].order = numbers[n].order

LEMMA LinksKept ==
    ASSUME Moving, LinksStill
    PROVE  LinkInv'
BY MovingSays DEF LinksStill, LinkInv, Held, Base

LEMMA PlainHeld ==
    ASSUME Moving, NEW w, Alone(w), UNCHANGED members, LinksStill,
           ~course.stalls => VoidsStill /\ NumbersStill /\ (w \in Workers => ClaimInv(w)'),
           w \in Workers => KnownInv(w)'
    PROVE  Stays
<1>1. Inv /\ Inv' /\ Held /\ Grows /\ PaidInv' /\ UNCHANGED course /\ crossed' = crossed
  BY MovingSays
<1>2. LinkInv'
  BY LinksKept
<1>3. \A u \in Users : members[u].orders \subseteq Orders
  BY <1>1 DEF Inv, Tables, Membership, CipherMembership, NoMember
<1>4. IntentInv'
  BY <1>1, <1>3 DEF IntentInv, Held, Base, Grows
<1>5. \A v \in Workers : KnownInv(v)'
  BY OtherKnown DEF Alone
<1>6. ASSUME ~course.stalls PROVE Rows' /\ \A v \in Workers : ClaimInv(v)'
  <2>1. Rows /\ NumbersStill /\ VoidsStill /\ (w \in Workers => ClaimInv(w)')
    BY <1>1, <1>6 DEF Held
  <2>2. NumbersInv'
    BY <2>1 DEF NumbersInv, Rows, NumbersStill
  <2>3. \A u \in Users : members[u] # NoMember => members[u].number \in Numbers
    BY <1>1 DEF Inv, Tables, Membership, CipherMembership
  <2>4. \A u \in Users : HeldInv(u)'
    BY <1>1, <2>1, <2>3 DEF HeldInv, Rows, NumbersStill
  <2>5. \A o \in Orders : OnRow(o)' => OnRow(o)
    BY <1>1 DEF OnRow
  <2>6. \A o \in Orders : BoughtInv(o)'
    BY <2>1, <2>5 DEF BoughtInv, Rows, VoidsStill
  <2>7. \A o : Unheld(o) => Unheld(o)'
    BY <1>1, <2>1, <2>3 DEF Unheld, NumbersStill
  <2>8. ASSUME NEW v \in Workers, v # w PROVE ClaimInv(v)'
    <3>1. Same(wk[v], wk'[v]) /\ Row(wk[v])
      BY <1>1, <2>8, RowOf DEF Alone
    <3>2. wk[v].number # 0 => wk[v].number \in Numbers
      BY <3>1 DEF Row, Numbers
    <3>3. wk[v].number # 0 => numbers'[wk[v].number].order = numbers[wk[v].number].order
      BY <2>1, <3>2 DEF NumbersStill
    <3>4. wk'[v].o = wk[v].o
      BY <3>1, SameSays
    <3>5. OnRow(wk[v].o)' => OnRow(wk[v].o)
      BY <1>1, <3>4 DEF OnRow
    <3>6. Unheld(wk[v].o) => Unheld(wk[v].o)'
      BY <2>7, <3>4
    <3> QED
      BY <1>6, <3>1, <3>3, <3>5, <3>6, OtherClaims
  <2> QED
    BY <2>1, <2>2, <2>4, <2>6, <2>8 DEF Rows
<1>7. Gone
  BY DEF Gone
<1> QED
  BY <1>1, <1>2, <1>4, <1>5, <1>6, <1>7 DEF Held, Base, Stays

\* A call that needs nothing new of the tables
Sure(k, n) ==
    /\ n.o = k.o /\ n.task = k.task
    /\ n.number \in {0, k.number} \/ numbers[n.number].order = k.o
    /\ n.task = "delete" => n.todo \subseteq k.todo
    /\ Routed(n) /\ n.pc \notin {"rel_put"} \cup Bare
    /\ n.pc \in Unsold => k.pc \in Unsold \/ n.c.reason # "None" \/ ~OnRow(k.o)
    /\ n.pc \in {"del_read", "del_member"} => ~n.c.linked \/ User(k) \in course.delete
Safe(k, n) == Sure(k, n) /\ n.pc \notin Loop

\* The row in hand: as it was, none, or the one stored
Reads(k, n) == n.m \in {k.m, NoMember, members[User(k)]}

LEMMA CalmSafe ==
    ASSUME NEW k, NEW n, Calm(k, n)
    PROVE  Safe(k, n) /\ Reads(k, n) /\ n.c = k.c
<1>1. Routed(n) /\ ~InRelease(n)
  BY OffRouted DEF Calm
<1> QED
  BY <1>1 DEF Calm, Slight, Off, Sure, Safe, Reads, InRelease, Loop, RelCalls, Unsold

\* The same of a record whose copy was replaced
LEMMA CopySafe ==
    ASSUME NEW k, NEW x, NEW h, NEW q, Row(k), h \in {k, [k EXCEPT !.c = x]}, Calm(h, q),
           x.reason = k.c.reason, x.linked = k.c.linked
    PROVE  Safe(k, [q EXCEPT !.c = x]) /\ Reads(k, [q EXCEPT !.c = x]) /\ [q EXCEPT !.c = x].c = x
<1> PICK n : n = [q EXCEPT !.c = x]
  OBVIOUS
<1>1. /\ h.o = k.o /\ h.task = k.task /\ h.number = k.number /\ h.m = k.m /\ h.todo = k.todo
      /\ h.c.reason = x.reason /\ h.c.linked = x.linked
  BY DEF Row, Fields
<1>2. DOMAIN q = Fields
  BY DEF Calm, Slight
<1>3. /\ n.c = x /\ n.pc = q.pc /\ n.o = q.o /\ n.task = q.task /\ n.number = q.number /\ n.m = q.m /\ n.todo = q.todo
      /\ n.ret = q.ret /\ n.found = q.found /\ n.missing = q.missing
  BY <1>2 DEF Fields
<1>4. Off(n)
  BY <1>1, <1>3 DEF Calm, Slight, Off, Lists
<1>5. Routed(n) /\ ~InRelease(n)
  BY <1>4, OffRouted
<1>6. Safe(k, n) /\ Reads(k, n)
  BY <1>1, <1>3, <1>4, <1>5 DEF Calm, Slight, Off, Sure, Safe, Reads, InRelease, Loop, RelCalls, Unsold
<1> QED
  BY <1>3, <1>6

LEMMA SafeKnown ==
    ASSUME Moving, NEW w \in Workers, wk[w].pc \notin Bare, NEW n, n = wk'[w], Sure(wk[w], n), Reads(wk[w], n), Watched(n)',
           n.c = wk[w].c \/ n.c = orders'[n.o], LinkInv'
    PROVE  KnownInv(w)'
<1> PICK k : k = wk[w]
  OBVIOUS
<1>1. Grows /\ Inv /\ Held /\ UNCHANGED course /\ PaidInv'
  BY MovingSays
<1>2. Known(k) /\ k.o \in Orders /\ Row(k)
  BY <1>1, AtWork DEF Held, KnownInv
<1>3. n.o = k.o /\ User(n) = User(k)
  BY DEF Sure, User
<1>4. /\ n.c.intent => orders'[n.o].intent
      /\ n.c.state \in {"Paid", "Fulfilled"} => n.c.intent
      /\ ~n.c.linked => User(n) \in course.delete
  <2>1. CASE n.c = k.c
    BY <1>1, <1>2, <1>3, <2>1 DEF Known, Grows
  <2>2. CASE n.c = orders'[n.o]
    BY <1>1, <1>2, <1>3, <2>2 DEF PaidInv, LinkInv, User
  <2> QED
    BY <2>1, <2>2
<1>5. k.m.orders \subseteq Orders
  BY <1>2 DEF Row, Membership, CipherMembership, NoMember
<1>6. \A x \in n.m.orders : orders'[x].intent
  <2>1. CASE n.m = k.m
    BY <1>1, <1>2, <1>5, <2>1 DEF Known, Grows
  <2>2. CASE n.m = NoMember
    BY <2>2 DEF NoMember
  <2>3. CASE n.m = members[User(k)]
    <3>1. User(k) \in Users /\ members[User(k)] \in Membership
      BY <1>1, <1>2, CipherAssumption DEF User, Inv, Tables
    <3>2. members[User(k)].orders \subseteq Orders
      BY <3>1 DEF Membership, CipherMembership, NoMember
    <3> QED
      BY <1>1, <2>3, <3>1, <3>2 DEF Held, Base, IntentInv, Grows
  <2> QED
    BY <2>1, <2>2, <2>3 DEF Reads
<1>7. n.pc \notin Deleting
  BY DEF Sure, Bare, Deleting
<1>8. n.pc \in {"del_read", "del_member"} \/ n.task = "delete" => User(n) \in course.delete
  BY <1>2, <1>3, <1>4 DEF Sure, Known
<1>9. n.task = "delete" => \A x \in n.todo : Buyer[x] \in course.delete
  BY <1>2 DEF Sure, Known
<1>10. Known(n)'
  BY <1>1, <1>4, <1>6, <1>7, <1>8, <1>9 DEF Known, User
<1> QED
  BY <1>10 DEF KnownInv, Sure

LEMMA SafeClaims ==
    ASSUME Moving, ~course.stalls, NEW w \in Workers, wk[w].pc \notin Bare, NEW n, n = wk'[w], Sure(wk[w], n),
           NEW o, o = wk[w].o,
           n.number # 0 => numbers'[n.number].order = numbers[n.number].order,
           BoughtInv(o)', n.pc \in Unsold => (OnRow(o)' => OnRow(o))
    PROVE  ClaimInv(w)'
<1> PICK k : k = wk[w]
  OBVIOUS
<1>1. Inv /\ Inv' /\ Held /\ UNCHANGED course
  BY MovingSays
<1>2. Claims(k)
  BY <1>1 DEF Held, ClaimInv
<1>3. n.o = o /\ (n.number \in {0, k.number} \/ numbers[n.number].order = o) /\ n.pc # "rel_put" /\ n.pc \notin Bare
  BY DEF Sure
<1>4. n.number # 0 => numbers'[n.number].order = n.o
  BY <1>2, <1>3 DEF Claims
<1>5. n.pc \in Unsold => ~OnRow(o)'
  <2>1. CASE k.pc \in Unsold
    BY <1>2, <2>1 DEF Claims
  <2>3. CASE ~OnRow(o)
    BY <2>3
  <2>2. CASE n.c.reason # "None"
    <3>1. Tied(w)'
      BY <1>1 DEF Inv, WorkInv
    <3>2. orders'[o] = [n.c EXCEPT !.linked = orders'[o].linked]
      BY <1>1, <1>3, <3>1 DEF Tied
    <3>3. Row(wk[w])'
      BY <1>1 DEF Inv, WorkInv, Fine
    <3>4. n.c \in StoredOrder
      BY <3>3 DEF Row
    <3>5. orders'[o].reason = n.c.reason
      BY <3>2, <3>4 DEF StoredOrder
    <3> QED
      BY <2>2, <3>5 DEF BoughtInv
  <2> QED
    BY <2>1, <2>2, <2>3 DEF Sure
<1>6. Claims(n)'
  BY <1>3, <1>4, <1>5 DEF Claims
<1> QED
  BY <1>6 DEF ClaimInv

\* A handler goes on; of the tables at most marks, badges, and what Stripe knows of sessions,
\* disputes and its own refunds change
LEMMA GoesHeld ==
    ASSUME Moving, NEW w \in Workers, wk[w].pc \notin Bare, NEW n, n = wk'[w], Alone(w),
           Sure(wk[w], n), Reads(wk[w], n), Watched(n)', n.c = wk[w].c \/ n.c = orders'[n.o],
           UNCHANGED members, LinksStill, ~course.stalls => VoidsStill /\ NumbersStill
    PROVE  Stays
<1>1. Inv /\ Held /\ UNCHANGED course /\ crossed' = crossed
  BY MovingSays
<1>2. LinkInv'
  BY LinksKept
<1>3. KnownInv(w)'
  BY <1>2, SafeKnown
<1>4. ASSUME ~course.stalls PROVE ClaimInv(w)'
  <2> PICK o : o = wk[w].o
    OBVIOUS
  <2>1. Row(wk[w]) /\ o \in Orders
    BY <1>1, AtWork
  <2>2. OnRow(o)' => OnRow(o)
    BY <1>1 DEF OnRow
  <2>3. BoughtInv(o)'
    BY <1>1, <1>4, <2>1, <2>2 DEF BoughtInv, VoidsStill, Held, Rows
  <2>6. Row(wk[w])'
    BY MovingSays DEF Inv, WorkInv, Fine
  <2>4. n.number # 0 => n.number \in Numbers
    BY <2>6 DEF Row, Numbers
  <2>5. n.number # 0 => numbers'[n.number].order = numbers[n.number].order
    BY <1>4, <2>4 DEF NumbersStill
  <2> QED
    BY <1>4, <2>2, <2>3, <2>5, SafeClaims
<1> QED
  BY <1>3, <1>4, PlainHeld

LEMMA StepHeld ==
    ASSUME Moving, NEW w \in Workers, wk[w].pc \notin Bare, NEW n, Step(w, n),
           Safe(wk[w], n), Reads(wk[w], n), n.c = wk[w].c,
           UNCHANGED <<orders, members, deleted, stripe>>, NumbersStill
    PROVE  Stays
<1>1. wk'[w] = n /\ Alone(w)
  BY StepAlone DEF Moving
<1>2. LinksStill /\ VoidsStill
  BY DEF LinksStill, VoidsStill
<1>3. Sure(wk[w], n) /\ Watched(n)'
  BY DEF Safe, Watched
<1> QED
  BY <1>1, <1>2, <1>3, GoesHeld

LEMMA CalmHeld ==
    ASSUME Moving, NEW w \in Workers, wk[w].pc \notin Bare, NEW n, Step(w, n), Calm(wk[w], n),
           UNCHANGED <<orders, members, deleted, stripe>>, NumbersStill
    PROVE  Stays
BY CalmSafe, StepHeld

LEMMA NumbersSame == UNCHANGED numbers => NumbersStill
BY DEF NumbersStill

LEMMA WriteHeld ==
    ASSUME Moving, NEW w \in Workers, wk[w].pc \notin Bare, NEW x, NEW next, NEW refused,
           WriteOr(w, x, next, refused), Calm(wk[w], refused), x \in StoredOrder,
           UNCHANGED <<members, numbers, deleted, stripe>>,
           x.linked = wk[w].c.linked,
           ~course.stalls /\ x.reason # wk[w].c.reason => ~OnRow(wk[w].o),
           Sure(wk[w], [next EXCEPT !.c = x]), Reads(wk[w], [next EXCEPT !.c = x]), [next EXCEPT !.c = x].c = x,
           Watched([next EXCEPT !.c = x])'
    PROVE  Stays
<1> PICK k : k = wk[w]
  OBVIOUS
<1> PICK n : n = [next EXCEPT !.c = x]
  OBVIOUS
<1>9. Sure(k, n) /\ Reads(k, n) /\ n.c = x /\ Watched(n)'
  OBVIOUS
<1>0. Inv /\ k.o \in Orders /\ NumbersStill /\ WorkInv(w) /\ orders \in [Orders -> StoredOrder]
  BY AtWork, NumbersSame DEF Moving, Inv, Tables
<1>1. CASE k.mine
  <2>1. orders' = [orders EXCEPT ![k.o] = x] /\ Step(w, n)
    BY <1>1 DEF WriteOr
  <2>2. wk'[w] = n /\ Alone(w)
    BY <1>0, <2>1, StepAlone
  <2>3. orders[k.o] = k.c /\ orders'[k.o] = x /\ \A o \in Orders \ {k.o} : orders'[o] = orders[o]
    BY <1>0, <1>1, <2>1 DEF WorkInv, MineInv
  <2>4. LinksStill
    BY <2>3 DEF LinksStill
  <2>5. ~course.stalls => VoidsStill
    BY <2>3 DEF VoidsStill
  <2>6. n.c = orders'[n.o]
    BY <2>3 DEF Sure
  <2> QED
    BY <1>0, <1>9, <2>2, <2>4, <2>5, <2>6, GoesHeld
<1>2. CASE ~k.mine
  <2>1. UNCHANGED orders /\ Step(w, refused)
    BY <1>2 DEF WriteOr
  <2> QED
    BY <1>0, <2>1, CalmHeld
<1> QED
  BY <1>1, <1>2

\* A write that leaves link and reason alone, then a calm call
LEMMA CalmWriteHeld ==
    ASSUME Moving, NEW w \in Workers, wk[w].pc \notin Bare, NEW x, NEW next, NEW refused, NEW h,
           WriteOr(w, x, next, refused), Calm(wk[w], refused), x \in StoredOrder,
           UNCHANGED <<members, numbers, deleted, stripe>>,
           x.linked = wk[w].c.linked, x.reason = wk[w].c.reason,
           h \in {wk[w], [wk[w] EXCEPT !.c = x]}, Calm(h, next)
    PROVE  Stays
<1> PICK k : k = wk[w]
  OBVIOUS
<1> PICK n : n = [next EXCEPT !.c = x]
  OBVIOUS
<1>1. Row(k)
  BY AtWork DEF Moving
<1>2. Safe(k, n) /\ Reads(k, n) /\ n.c = x
  BY <1>1, CopySafe
<1>3. ~course.stalls /\ x.reason # k.c.reason => ~OnRow(k.o)
  OBVIOUS
<1>4. Sure(k, n) /\ Watched(n)'
  BY <1>2 DEF Safe, Watched
<1> QED
  BY <1>2, <1>3, <1>4, WriteHeld

-----------------------------------------------------------------------------
\* The continuations are calm

LEMMA MirrorCalm ==
    ASSUME NEW k, Whole(k)
    PROVE  Calm(k, Mirror(k))
<1> PICK n : n = Done(k)
  OBVIOUS
<1> PICK p : p = [n EXCEPT !.ret = k.then]
  OBVIOUS
<1>1. Calm(k, n) /\ DOMAIN n = Fields /\ n.then = k.then
  BY DoneCalm DEF Done, Whole, Fields
<1>2. p.ret = k.then /\ Whole(p) /\ Slight(n, p)
  BY <1>1 DEF Whole, Fields, Slight
<1>3. k.then \in Exits /\ p.ret \in Ends
  BY <1>2 DEF Whole, Exits, Ends
<1>4. Calm(p, Listing(p, Disputed(k.c), "sync_read", k.then))
  BY <1>2, <1>3, ListingCalm
<1>5. Mirror(k) \in {n, Listing(p, Disputed(k.c), "sync_read", k.then)}
  BY DEF Mirror
<1> QED
  BY <1>1, <1>2, <1>4, <1>5, SlightTwice, CalmTwice DEF Calm

LEMMA AfterRecordCalm ==
    ASSUME NEW k, Whole(k)
    PROVE  Calm(k, AfterRecord(k))
<1>1. "lost_fence" \notin Rough /\ "rel_check" \notin Rough
  BY DEF Rough, RelCalls, Unsold, Voids, SyncCalls, ListCalls, Bare
<1> QED
  BY <1>1, GoCalm DEF AfterRecord

LEMMA NoMembershipCalm ==
    ASSUME NEW k, Whole(k)
    PROVE  Calm(k, NoMembership(k))
<1>1. "clear" \notin Rough
  BY DEF Rough, RelCalls, Unsold, Voids, SyncCalls, ListCalls, Bare
<1> QED
  BY <1>1, GoCalm, DoneCalm DEF NoMembership

LEMMA AfterReverseCalm ==
    ASSUME NEW k, Whole(k)
    PROVE  Calm(k, AfterReverse(k))
BY SyncCalm DEF AfterReverse, Ends

LEMMA ReverseStartCalm ==
    ASSUME NEW k, NEW kind, NEW d, NEW full, Whole(k)
    PROVE  Calm(k, ReverseStart(k, kind, d, full))
<1> PICK n : n = [k EXCEPT !.kind = kind, !.d = d, !.full = full]
  OBVIOUS
<1>1. Whole(n) /\ Slight(k, n)
  BY DEF Whole, Fields, Slight
<1>2. "lar_read" \notin Rough /\ "rev_record" \notin Rough /\ "rec_write" \notin Rough
  BY DEF Rough, RelCalls, Unsold, Voids, SyncCalls, ListCalls, Bare
<1> PICK r : r = ReverseStart(k, kind, d, full)
  OBVIOUS
<1>3. r \in {Go(n, "lar_read"), Done(n), Mirror(n), Go(n, "rev_record"), AfterRecord(n), Go(n, "rec_write")}
  BY DEF ReverseStart
<1>4. Calm(n, r)
  BY <1>1, <1>2, <1>3, GoCalm, DoneCalm, MirrorCalm, AfterRecordCalm
<1> QED
  BY <1>1, <1>4, CalmTwice

LEMMA VoidStartSlight ==
    ASSUME NEW k, NEW reason, Whole(k)
    PROVE  Slight(k, VoidStart(k, reason)) /\ VoidStart(k, reason).pc \in Voids \cup {"release"}
<1> PICK n : n = [k EXCEPT !.reason = reason, !.prev = k.c.reason, !.m = NoMember, !.number = 0]
  OBVIOUS
<1>1. DOMAIN n = Fields /\ Slight(k, n)
  BY DEF Whole, Fields, Slight
<1> PICK r : r = VoidStart(k, reason)
  OBVIOUS
<1>2. r \in {Go(n, "void_write"), Go(n, "release"), Go(n, "void_refund"), Go(n, "void_mark")}
  BY DEF VoidStart, Stop
<1>3. ASSUME NEW pc \in Voids \cup {"release"} PROVE Slight(n, Go(n, pc)) /\ Go(n, pc).pc = pc
  BY <1>1 DEF Go, Fields, Slight
<1>4. Slight(n, r) /\ r.pc \in Voids \cup {"release"}
  BY <1>2, <1>3 DEF Voids
<1> QED
  BY <1>1, <1>4, SlightTwice

LEMMA VoidStartCalm ==
    ASSUME NEW k, NEW reason, Whole(k), k.c.reason # "None"
    PROVE  Calm(k, VoidStart(k, reason))
<1> PICK r : r = VoidStart(k, reason)
  OBVIOUS
<1>1. Slight(k, r) /\ r.pc \in Voids \cup {"release"} /\ r.c = k.c
  BY VoidStartSlight DEF Slight
<1> QED
  BY <1>1 DEF Calm, Off, RelCalls, Unsold, Voids, SyncCalls, ListCalls, Bare

\* A worker that knows its order to be on no row voids it
LEMMA VoidStartSafe ==
    ASSUME NEW k, NEW reason, Whole(k), k.pc \in Unsold
    PROVE  /\ Safe(k, VoidStart(k, reason)) /\ Reads(k, VoidStart(k, reason))
           /\ VoidStart(k, reason).c = k.c
<1> PICK r : r = VoidStart(k, reason)
  OBVIOUS
<1>1. Slight(k, r) /\ r.pc \in Voids \cup {"release"} /\ r.c = k.c
  BY VoidStartSlight DEF Slight
<1>2. Routed(r)
  BY <1>1 DEF Routed, InRelease, RelCalls, Voids, SyncCalls, ListCalls
<1> QED
  BY <1>1, <1>2 DEF Slight, Sure, Safe, Reads, Voids, Loop, Bare

LEMMA VoidDeletedCalm ==
    ASSUME NEW k, Whole(k), ~k.c.linked
    PROVE  Calm(k, VoidDeleted(k))
<1> PICK n : n = VoidDeleted(k)
  OBVIOUS
<1>1. n.pc = "del_read" /\ Slight(k, n)
  BY DEF VoidDeleted, Go, Whole, Fields, Slight
<1>2. n.c = k.c
  BY <1>1 DEF Slight
<1> QED
  BY <1>1, <1>2 DEF Calm, Off, RelCalls, Unsold, Voids, SyncCalls, ListCalls, Bare

LEMMA FulfilPaidCalm ==
    ASSUME NEW k, Whole(k)
    PROVE  Calm(k, FulfilPaid(k))
<1>1. "judge" \notin Rough
  BY DEF Rough, RelCalls, Unsold, Voids, SyncCalls, ListCalls, Bare
<1> QED
  BY <1>1, GoCalm, VoidStartCalm, VoidDeletedCalm DEF FulfilPaid

LEMMA ReversePendingCalm ==
    ASSUME NEW k, Whole(k)
    PROVE  Calm(k, ReversePending(k))
BY StopCalm, ReverseStartCalm DEF ReversePending

LEMMA FinishFulfilledCalm ==
    ASSUME NEW k, Whole(k)
    PROVE  Calm(k, FinishFulfilled(k))
<1> PICK n : n = [k EXCEPT !.ret = "finish"]
  OBVIOUS
<1>1. Whole(n) /\ Slight(k, n) /\ n.ret = "finish" /\ "finish" \in Ends
  BY DEF Whole, Fields, Slight, Ends
<1>2. Calm(n, Listing(n, TRUE, "sync_read", "sync_read"))
  BY <1>1, ListingCalm
<1>3. Calm(k, Listing(n, TRUE, "sync_read", "sync_read"))
  BY <1>1, <1>2, CalmTwice
<1>4. Calm(k, Sync(k, "finish"))
  BY <1>1, SyncCalm
<1> QED
  BY <1>3, <1>4, ReversePendingCalm DEF FinishFulfilled

LEMMA LatePaymentCalm ==
    ASSUME NEW k, Whole(k)
    PROVE  Calm(k, LatePayment(k))
<1>1. "late_paid" \notin Rough /\ "late_refund" \notin Rough
  BY DEF Rough, RelCalls, Unsold, Voids, SyncCalls, ListCalls, Bare
<1> QED
  BY <1>1, GoCalm, StopCalm DEF LatePayment

LEMMA FulfilStartCalm ==
    ASSUME NEW k, Whole(k)
    PROVE  Calm(k, FulfilStart(k))
<1>1. "paid" \notin Rough
  BY DEF Rough, RelCalls, Unsold, Voids, SyncCalls, ListCalls, Bare
<1> QED
  BY <1>1, GoCalm, StopCalm, FinishFulfilledCalm, LatePaymentCalm, FulfilPaidCalm DEF FulfilStart

LEMMA RecheckStartCalm ==
    ASSUME NEW k, Whole(k), k.task # "delete"
    PROVE  Calm(k, RecheckStart(k))
<1> PICK n : n = RecheckStart(k)
  OBVIOUS
<1>1. n.pc = "recheck" /\ Slight(k, n)
  BY DEF RecheckStart, Whole, Fields, Slight
<1> QED
  BY <1>1, PlainCalm, RoughSays

LEMMA ResumeStartCalm ==
    ASSUME NEW k, Whole(k), k.task # "delete"
    PROVE  Calm(k, ResumeStart(k))
BY RecheckStartCalm, FulfilStartCalm DEF ResumeStart

LEMMA PublishingCalm ==
    ASSUME NEW k, Whole(k)
    PROVE  Calm(k, Publishing(k))
<1> PICK n : n = Publishing(k)
  OBVIOUS
<1>1. n.pc = "publish" /\ Slight(k, n)
  BY DEF Publishing, Whole, Fields, Slight
<1>2. "publish" \notin Rough
  BY DEF Rough, RelCalls, Unsold, Voids, SyncCalls, ListCalls, Bare
<1> QED
  BY <1>1, <1>2, PlainCalm

LEMMA ListEndCalm ==
    ASSUME NEW k, NEW pc \in Exits \cup {"sync_read"}, Whole(k), pc = "sync_read" => k.ret \in Ends
    PROVE  Calm(k, ListEnd(k, pc))
<1> PICK n : n = ListEnd(k, pc)
  OBVIOUS
<1>1. n.pc = pc /\ n.ret = k.ret /\ Slight(k, n)
  BY DEF ListEnd, Whole, Fields, Slight
<1> QED
  BY <1>1 DEF Calm, Off, Exits, RelCalls, Unsold, Voids, SyncCalls, ListCalls, Bare

-----------------------------------------------------------------------------
\* Handlers that go on, one by one

LEMMA Worker ==
    ASSUME Moving, NEW w \in Workers, wk[w].pc \notin Bare
    PROVE  /\ Inv /\ Row(wk[w]) /\ Whole(wk[w]) /\ wk[w].o \in Orders /\ wk[w].c \in StoredOrder
           /\ Routed(wk[w]) /\ Known(wk[w]) /\ (~course.stalls => Claims(wk[w]))
<1>1. Inv /\ Held
  BY DEF Moving
<1>2. Row(wk[w]) /\ wk[w].o \in Orders
  BY <1>1, AtWork
<1> QED
  BY <1>1, <1>2, RowWhole DEF Held, KnownInv, ClaimInv, Row

\* A badge sync goes on
LEMMA SyncOnHeld ==
    ASSUME Moving, NEW w \in Workers, wk[w].pc \in SyncCalls, NEW n, Step(w, n),
           DOMAIN n = Fields, \A f \in Fields \ {"pc", "show"} : n[f] = wk[w][f], n.pc \in SyncCalls,
           UNCHANGED <<orders, members, numbers, deleted, stripe>>
    PROVE  Stays
<1> PICK k : k = wk[w]
  OBVIOUS
<1>0. k.pc \notin Bare
  BY DEF SyncCalls, Bare
<1>1. Routed(k)
  BY <1>0, Worker
<1>2. /\ n.o = k.o /\ n.task = k.task /\ n.number = k.number /\ n.todo = k.todo /\ n.m = k.m /\ n.c = k.c /\ n.ret = k.ret
  BY DEF Fields
<1>3. Routed(n)
  BY <1>1, <1>2 DEF Routed, InRelease, SyncCalls, ListCalls, RelCalls
<1>4. Safe(k, n) /\ Reads(k, n)
  BY <1>2, <1>3 DEF Sure, Safe, Reads, SyncCalls, Loop, Bare, Unsold, Voids
<1> QED
  BY <1>0, <1>2, <1>4, StepHeld, NumbersSame

LEMMA SyncReadHeld ==
    ASSUME Moving, NEW w \in Workers, SyncRead(w)
    PROVE  Stays
<1> PICK n : n = [wk[w] EXCEPT !.pc = "sync_user", !.show = PublicBadge(Read(wk[w]))]
  OBVIOUS
<1>0. wk[w].pc \in SyncCalls /\ wk[w].pc \notin Bare
  BY DEF SyncRead, At, SyncCalls, Bare
<1>1. n.pc \in SyncCalls /\ DOMAIN n = Fields /\ \A f \in Fields \ {"pc", "show"} : n[f] = wk[w][f]
  BY <1>0, Worker DEF Whole, Fields, SyncCalls
<1> QED
  BY <1>0, <1>1, SyncOnHeld DEF SyncRead

LEMMA SyncWriteHeld ==
    ASSUME Moving, NEW w \in Workers, SyncWrite(w)
    PROVE  Stays
<1> PICK n : n = [wk[w] EXCEPT !.pc = "sync_read", !.show = <<>>]
  OBVIOUS
<1>0. wk[w].pc \in SyncCalls /\ wk[w].pc \notin Bare
  BY DEF SyncWrite, At, SyncCalls, Bare
<1>1. n.pc \in SyncCalls /\ DOMAIN n = Fields /\ \A f \in Fields \ {"pc", "show"} : n[f] = wk[w][f]
  BY <1>0, Worker DEF Whole, Fields, SyncCalls
<1> QED
  BY <1>0, <1>1, SyncOnHeld DEF SyncWrite

LEMMA SyncUserHeld ==
    ASSUME Moving, NEW w \in Workers, SyncUser(w)
    PROVE  Stays
<1> PICK k : k = wk[w]
  OBVIOUS
<1>0. k.pc = "sync_user" /\ k.pc \in SyncCalls /\ k.pc \notin Bare
  BY DEF SyncUser, At, SyncCalls, Bare
<1>1. Whole(k) /\ Routed(k)
  BY <1>0, Worker
<1>2. UNCHANGED <<orders, members, numbers, deleted, stripe>>
  BY DEF SyncUser
<1> PICK n : n = [k EXCEPT !.pc = k.ret, !.show = <<>>, !.ret = "none"]
  OBVIOUS
<1>3. ASSUME Step(w, n) PROVE Stays
  <2>1. n.pc = k.ret /\ Slight(k, n) /\ n.c = k.c /\ n.o = k.o /\ n.number = k.number
    BY <1>1 DEF Whole, Fields, Slight
  <2>2. k.ret \in Ends \cup {"rel_read", "rel_mark", "rel_free"}
    BY <1>0, <1>1 DEF Routed
  <2>3. n.pc \in {"rel_read", "rel_mark", "rel_free"} => n.number # 0 /\ IsNew(n.o)
    BY <1>0, <1>1, <2>1 DEF Routed, InRelease, RelCalls
  <2>4. Routed(n)
    BY <2>1, <2>2, <2>3 DEF Routed, InRelease, Ends, RelCalls, SyncCalls, ListCalls
  <2>5. Safe(k, n) /\ Reads(k, n)
    BY <2>1, <2>2, <2>4 DEF Slight, Sure, Safe, Reads, Ends, Loop, Bare, Unsold, Voids
  <2> QED
    BY <1>0, <1>2, <1>3, <2>1, <2>5, StepHeld, NumbersSame
<1>4. ASSUME NEW want, Step(w, [k EXCEPT !.pc = "sync_write", !.show = want]) PROVE Stays
  <2> PICK p : p = [k EXCEPT !.pc = "sync_write", !.show = want]
    OBVIOUS
  <2>1. p.pc \in SyncCalls /\ DOMAIN p = Fields /\ \A f \in Fields \ {"pc", "show"} : p[f] = wk[w][f]
    BY <1>1 DEF Whole, Fields, SyncCalls
  <2> QED
    BY <1>0, <1>2, <1>4, <2>1, SyncOnHeld
<1> QED
  BY <1>3, <1>4 DEF SyncUser

\* A membership is read on the way
LEMMA ReadingHeld ==
    ASSUME Moving, NEW w \in Workers, wk[w].pc \notin Bare, NEW pc, NEW m \in {wk[w].m, NoMember, members[User(wk[w])]},
           NEW n, n = [wk[w] EXCEPT !.pc = pc, !.m = m], Step(w, n), Routed(n),
           pc \notin Loop \cup {"rel_put", "del_read", "del_member"} \cup Bare,
           pc \in Unsold => wk[w].pc \in Unsold \/ ~OnRow(wk[w].o),
           UNCHANGED <<orders, members, numbers, deleted, stripe>>
    PROVE  Stays
<1>1. Whole(wk[w])
  BY Worker
<1>2. n.pc = pc /\ n.m = m /\ Slight(wk[w], [n EXCEPT !.m = NoMember]) /\ n.c = wk[w].c
  BY <1>1 DEF Whole, Fields, Slight
<1>3. n.o = wk[w].o /\ n.task = wk[w].task /\ n.number = wk[w].number /\ n.todo = wk[w].todo
  BY <1>1 DEF Whole, Fields
<1>4. Safe(wk[w], n) /\ Reads(wk[w], n)
  BY <1>2, <1>3 DEF Sure, Safe, Reads
<1> QED
  BY <1>2, <1>4, StepHeld, NumbersSame

LEMMA RowReadHeld ==
    ASSUME Moving, NEW w \in Workers, wk[w].pc \notin Bare, NEW pc,
           NEW n, n = [wk[w] EXCEPT !.pc = pc, !.m = members[User(wk[w])]], Step(w, n), n.pc = pc, Routed(n),
           pc \notin Loop \cup {"rel_put", "del_read", "del_member"} \cup Bare,
           pc \in Unsold => wk[w].pc \in Unsold \/ ~OnRow(wk[w].o),
           UNCHANGED <<orders, members, numbers, deleted, stripe>>
    PROVE  Stays
<1> PICK m : m = members[User(wk[w])]
  OBVIOUS
<1> QED
  BY ReadingHeld

\* The same call to be made with the same record
LEMMA GoingHeld ==
    ASSUME Moving, NEW w \in Workers, wk[w].pc \notin Bare, NEW pc, Step(w, Go(wk[w], pc)), Routed(Go(wk[w], pc)),
           pc \notin Loop \cup {"rel_put"} \cup Bare, pc \in Unsold => wk[w].pc \in Unsold \/ ~OnRow(wk[w].o),
           pc \in {"del_read", "del_member"} => User(wk[w]) \in course.delete,
           UNCHANGED <<orders, members, numbers, deleted, stripe>>
    PROVE  Stays
<1> PICK n : n = Go(wk[w], pc)
  OBVIOUS
<1>1. Whole(wk[w])
  BY Worker
<1>2. n.pc = pc /\ n.m = wk[w].m /\ n.c = wk[w].c
  BY <1>1 DEF Go, Whole, Fields
<1>3. n.o = wk[w].o /\ n.task = wk[w].task /\ n.number = wk[w].number /\ n.todo = wk[w].todo
  BY <1>1 DEF Go, Whole, Fields
<1>4. Safe(wk[w], n) /\ Reads(wk[w], n)
  BY <1>2, <1>3 DEF Sure, Safe, Reads
<1> QED
  BY <1>2, <1>4, StepHeld, NumbersSame

LEMMA ListReadHeld ==
    ASSUME Moving, NEW w \in Workers, ListRead(w)
    PROVE  Stays
<1> PICK k : k = wk[w]
  OBVIOUS
<1>0. k.pc = "list_read" /\ k.pc \in ListCalls /\ k.pc \notin Bare
  BY DEF ListRead, At, ListCalls, Bare
<1>1. Whole(k) /\ Routed(k) /\ Lists(k)
  BY <1>0, Worker DEF Routed
<1>2. UNCHANGED <<orders, members, numbers, deleted, stripe>>
  BY DEF ListRead
<1>3. Calm(k, ListEnd(k, k.missing)) /\ Calm(k, ListEnd(k, k.found))
  BY <1>1, ListEndCalm DEF Lists
<1>4. Step(w, ListEnd(k, k.missing)) \/ Step(w, ListEnd(k, k.found)) => Stays
  BY <1>0, <1>2, <1>3, CalmHeld, NumbersSame
<1> PICK n : n = [k EXCEPT !.pc = "list_cas", !.m = members[User(k)]]
  OBVIOUS
<1>5. n.pc = "list_cas" /\ n.found = k.found /\ n.missing = k.missing /\ n.ret = k.ret
  BY <1>1 DEF Whole, Fields
<1>6. Lists(n)
  BY <1>1, <1>5 DEF Lists
<1>7. Routed(n)
  BY <1>5, <1>6 DEF Routed, InRelease, RelCalls, SyncCalls, ListCalls
<1>8. Step(w, n) => Stays
  BY <1>0, <1>2, <1>5, <1>7, RowReadHeld DEF Loop, Bare, Unsold, Voids
<1> QED
  BY <1>4, <1>8 DEF ListRead, Read

-----------------------------------------------------------------------------
\* Calm steps

LEMMA ToldHeld ==
    ASSUME Moving, NEW w \in Workers, wk[w].pc \notin Bare, NEW n, Step(w, n), Calm(wk[w], n),
           UNCHANGED <<orders, members, numbers, deleted, stripe>>
    PROVE  Stays
BY CalmHeld, NumbersSame

LEMMA RecheckHeld ==
    ASSUME Moving, NEW w \in Workers, Recheck(w)
    PROVE  Stays
<1> PICK k : k = wk[w]
  OBVIOUS
<1>0. k.pc \notin Bare /\ UNCHANGED <<orders, members, numbers, deleted, stripe>>
  BY DEF Recheck, At, Bare
<1>1. Whole(k)
  BY <1>0, Worker
<1>2. ASSUME NEW d, NEW kind, Step(w, ReverseStart([k EXCEPT !.todo = @ \ {d}], kind, {d}, FALSE))
      PROVE  Stays
  <2> PICK h : h = [k EXCEPT !.todo = @ \ {d}]
    OBVIOUS
  <2>1. Whole(h) /\ Slight(k, h)
    BY <1>1 DEF Whole, Fields, Slight
  <2>2. Calm(k, ReverseStart(h, kind, {d}, FALSE))
    BY <2>1, ReverseStartCalm, CalmTwice
  <2> QED
    BY <1>0, <1>2, <2>2, ToldHeld
<1> PICK h : h = [k EXCEPT !.then = "release", !.todo = {}]
  OBVIOUS
<1>3. Whole(h) /\ Slight(k, h)
  BY <1>1 DEF Whole, Fields, Slight
<1>4. Calm(k, Stop(h)) /\ Calm(k, FulfilStart(h))
  BY <1>3, StopCalm, FulfilStartCalm, CalmTwice
<1>5. Step(w, Stop(h)) \/ Step(w, FulfilStart(h)) => Stays
  BY <1>0, <1>4, ToldHeld
<1> QED
  BY <1>2, <1>5 DEF Recheck

LEMMA DisputeReadHeld ==
    ASSUME Moving, NEW w \in Workers, DisputeRead(w)
    PROVE  Stays
<1> PICK k : k = wk[w]
  OBVIOUS
<1>0. k.pc \notin Bare /\ UNCHANGED <<orders, members, numbers, deleted, stripe>>
  BY DEF DisputeRead, At, Bare
<1>1. Whole(k)
  BY <1>0, Worker
<1> PICK h : h = [k EXCEPT !.todo = {}]
  OBVIOUS
<1>2. Whole(h) /\ Slight(k, h)
  BY <1>1 DEF Whole, Fields, Slight
<1>3. ASSUME NEW d, NEW kind, Step(w, ReverseStart(h, kind, {d}, FALSE)) PROVE Stays
  <2>1. Calm(k, ReverseStart(h, kind, {d}, FALSE))
    BY <1>2, ReverseStartCalm, CalmTwice
  <2> QED
    BY <1>0, <1>3, <2>1, ToldHeld
<1> QED
  BY <1>3 DEF DisputeRead

LEMMA RevDoneHeld ==
    ASSUME Moving, NEW w \in Workers, RevDone(w)
    PROVE  Stays
<1>0. wk[w].pc \notin Bare /\ UNCHANGED <<orders, members, numbers, deleted, stripe>>
  BY DEF RevDone, At, Bare
<1>1. Calm(wk[w], Done(wk[w]))
  BY <1>0, Worker, DoneCalm
<1> QED
  BY <1>0, <1>1, ToldHeld DEF RevDone

LEMMA FinishHeld ==
    ASSUME Moving, NEW w \in Workers, Finish(w)
    PROVE  Stays
<1>0. wk[w].pc \notin Bare /\ UNCHANGED <<orders, members, numbers, deleted, stripe>>
  BY DEF Finish, At, Bare
<1>1. Calm(wk[w], ReversePending(wk[w]))
  BY <1>0, Worker, ReversePendingCalm
<1> QED
  BY <1>0, <1>1, ToldHeld DEF Finish

LEMMA PublishLostHeld ==
    ASSUME Moving, NEW w \in Workers, PublishLost(w)
    PROVE  Stays
<1> PICK k : k = wk[w]
  OBVIOUS
<1>0. k.pc \notin Bare /\ UNCHANGED <<orders, members, numbers, deleted, stripe>>
  BY DEF PublishLost, At, Bare
<1>1. Whole(k) /\ "release" \in Exits
  BY <1>0, Worker DEF Exits
<1>2. Calm(k, Stop(k)) /\ Calm(k, Listing(k, TRUE, "release", "release"))
  BY <1>1, StopCalm, ListingCalm
<1> QED
  BY <1>0, <1>2, ToldHeld DEF PublishLost

LEMMA LarReadHeld ==
    ASSUME Moving, NEW w \in Workers, LarRead(w)
    PROVE  Stays
<1> PICK k : k = wk[w]
  OBVIOUS
<1>0. k.pc \notin Bare /\ UNCHANGED <<orders, members, numbers, deleted, stripe>>
  BY DEF LarRead, At, Bare
<1>1. Whole(k)
  BY <1>0, Worker
<1>2. Step(w, Done(k)) => Stays
  BY <1>0, <1>1, DoneCalm, ToldHeld
<1> PICK n : n = [k EXCEPT !.pc = "lar_cas", !.m = members[User(k)]]
  OBVIOUS
<1>3. n.pc = "lar_cas"
  BY <1>1 DEF Whole, Fields
<1>4. Routed(n)
  BY <1>3 DEF Routed, InRelease, RelCalls, SyncCalls, ListCalls
<1>5. Step(w, n) => Stays
  BY <1>0, <1>3, <1>4, RowReadHeld DEF Loop, Bare, Unsold, Voids
<1> QED
  BY <1>2, <1>5 DEF LarRead, Read

LEMMA RevReadHeld ==
    ASSUME Moving, NEW w \in Workers, RevRead(w)
    PROVE  Stays
<1> PICK k : k = wk[w]
  OBVIOUS
<1>0. k.pc \notin Bare /\ UNCHANGED <<orders, members, numbers, deleted, stripe>>
  BY DEF RevRead, At, Bare
<1>1. Whole(k) /\ "refunded" \in Ends
  BY <1>0, Worker DEF Ends
<1>2. Calm(k, Sync(k, "refunded")) /\ Calm(k, NoMembership(k)) /\ Calm(k, AfterReverse(k))
  BY <1>1, SyncCalm, NoMembershipCalm, AfterReverseCalm
<1>3. Step(w, Sync(k, "refunded")) \/ Step(w, NoMembership(k)) \/ Step(w, AfterReverse(k)) => Stays
  BY <1>0, <1>2, ToldHeld
<1> PICK n : n = [k EXCEPT !.pc = "rev_cas", !.m = members[User(k)]]
  OBVIOUS
<1>4. n.pc = "rev_cas"
  BY <1>1 DEF Whole, Fields
<1>5. Routed(n)
  BY <1>4 DEF Routed, InRelease, RelCalls, SyncCalls, ListCalls
<1>6. Step(w, n) => Stays
  BY <1>0, <1>4, <1>5, RowReadHeld DEF Loop, Bare, Unsold, Voids
<1> QED
  BY <1>3, <1>6 DEF RevRead, Read

LEMMA RefundPlanHeld ==
    ASSUME Moving, NEW w \in Workers, RefundPlan(w)
    PROVE  Stays
<1> PICK k : k = wk[w]
  OBVIOUS
<1>0. k.pc \notin Bare /\ UNCHANGED <<orders, members, numbers, deleted, stripe>>
  BY DEF RefundPlan, At, Bare
<1>1. Whole(k)
  BY <1>0, Worker
<1>2. "rev_read" \notin Rough /\ "refunded" \notin Rough /\ "plan_fence" \notin Rough
  BY DEF Rough, RelCalls, Unsold, Voids, SyncCalls, ListCalls, Bare
<1>3. Step(w, Go(k, "rev_read")) \/ Step(w, Go(k, "refunded")) \/ Step(w, Go(k, "plan_fence")) => Stays
  BY <1>0, <1>1, <1>2, GoCalm, ToldHeld
<1> PICK n : n = [k EXCEPT !.pc = "down_cas", !.m = members[User(k)]]
  OBVIOUS
<1>4. n.pc = "down_cas" /\ n.o = k.o
  BY <1>1 DEF Whole, Fields
<1>5. ~IsNew(k.o) => Routed(n)
  BY <1>4 DEF Routed, InRelease, RelCalls, SyncCalls, ListCalls
<1>6. Step(w, n) /\ ~IsNew(k.o) => Stays
  BY <1>0, <1>4, <1>5, RowReadHeld DEF Loop, Bare, Unsold, Voids
<1>7. ASSUME NEW undo, Plan(k, Read(k), undo) = "downgrade" PROVE ~IsNew(k.o)
  BY <1>7 DEF Plan
<1>8. \A undo : Plan(k, Read(k), undo) \in {"revoke", "refund_only", "release", "downgrade"}
  BY DEF Plan
<1> QED
  BY <1>3, <1>6, <1>7, <1>8 DEF RefundPlan, Read

-----------------------------------------------------------------------------
\* Calm writes

LEMMA StoreHeld ==
    ASSUME Moving, NEW w \in Workers, wk[w].pc \notin Bare, NEW x, NEW next, NEW h, Write(w, x, next),
           x \in StoredOrder, x.linked = wk[w].c.linked, x.reason = wk[w].c.reason,
           h \in {wk[w], [wk[w] EXCEPT !.c = x]}, Calm(h, next),
           UNCHANGED <<members, numbers, deleted, stripe>>
    PROVE  Stays
<1>1. Calm(wk[w], Abort(wk[w]))
  BY Worker, AbortCalm
<1> QED
  BY <1>1, CalmWriteHeld DEF Write

LEMMA CopyWhole == ASSUME NEW k, NEW x, Whole(k) PROVE Whole([k EXCEPT !.c = x])
BY DEF Whole, Fields

LEMMA PaidHeld ==
    ASSUME Moving, NEW w \in Workers, Paid(w)
    PROVE  Stays
<1> PICK k : k = wk[w]
  OBVIOUS
<1> PICK x : x = AsPaid(k.c)
  OBVIOUS
<1>0. k.pc \notin Bare /\ Write(w, x, FulfilPaid([k EXCEPT !.c = x])) /\ UNCHANGED <<members, numbers, deleted, stripe>>
  BY DEF Paid, At, Bare
<1>1. Whole(k) /\ k.c \in StoredOrder
  BY <1>0, Worker
<1>2. x \in StoredOrder /\ x.linked = k.c.linked /\ x.reason = k.c.reason
  BY <1>1 DEF AsPaid, StoredOrder, OrderState
<1>3. Calm([k EXCEPT !.c = x], FulfilPaid([k EXCEPT !.c = x]))
  BY <1>1, CopyWhole, FulfilPaidCalm
<1> QED
  BY <1>0, <1>2, <1>3, StoreHeld

LEMMA LatePaidHeld ==
    ASSUME Moving, NEW w \in Workers, LatePaid(w)
    PROVE  Stays
<1> PICK k : k = wk[w]
  OBVIOUS
<1> PICK x : x = AsPaid(k.c)
  OBVIOUS
<1>0. k.pc \notin Bare /\ Write(w, x, RecheckStart([k EXCEPT !.c = x])) /\ UNCHANGED <<members, numbers, deleted, stripe>>
  BY DEF LatePaid, At, Bare
<1>1. Whole(k) /\ k.c \in StoredOrder
  BY <1>0, Worker
<1>2. x \in StoredOrder /\ x.linked = k.c.linked /\ x.reason = k.c.reason
  BY <1>1 DEF AsPaid, StoredOrder, OrderState
<1>3. k.task # "delete"
  BY <1>0, AtWork DEF Moving, LatePaid, At, Fits
<1>4. [k EXCEPT !.c = x].task # "delete"
  BY <1>1, <1>3 DEF Whole, Fields
<1>5. Calm([k EXCEPT !.c = x], RecheckStart([k EXCEPT !.c = x]))
  BY <1>1, <1>4, CopyWhole, RecheckStartCalm
<1> QED
  BY <1>0, <1>2, <1>5, StoreHeld

LEMMA FulfilledHeld ==
    ASSUME Moving, NEW w \in Workers, Fulfilled(w)
    PROVE  Stays
<1> PICK k : k = wk[w]
  OBVIOUS
<1> PICK x : x = [k.c EXCEPT !.state = "Fulfilled"]
  OBVIOUS
<1>0. k.pc \notin Bare /\ Write(w, x, ReversePending([k EXCEPT !.c = x])) /\ UNCHANGED <<members, numbers, deleted, stripe>>
  BY DEF Fulfilled, At, Bare
<1>1. Whole(k) /\ k.c \in StoredOrder
  BY <1>0, Worker
<1>2. x \in StoredOrder /\ x.linked = k.c.linked /\ x.reason = k.c.reason
  BY <1>1 DEF StoredOrder, OrderState
<1>3. Calm([k EXCEPT !.c = x], ReversePending([k EXCEPT !.c = x]))
  BY <1>1, CopyWhole, ReversePendingCalm
<1> QED
  BY <1>0, <1>2, <1>3, StoreHeld

LEMMA RecWriteHeld ==
    ASSUME Moving, NEW w \in Workers, RecWrite(w)
    PROVE  Stays
<1> PICK k : k = wk[w]
  OBVIOUS
<1> PICK x : x = Recorded(k)
  OBVIOUS
<1>0. k.pc \notin Bare /\ Write(w, x, Mirror([k EXCEPT !.c = x])) /\ UNCHANGED <<members, numbers, deleted, stripe>>
  BY DEF RecWrite, At, Bare
<1>1. Whole(k) /\ k.c \in StoredOrder /\ Row(k)
  BY <1>0, Worker
<1>2. DisputesAfter(k) \in SUBSET Disputes
  BY <1>1, DisputesAfterType
<1>3. x \in StoredOrder /\ x.linked = k.c.linked /\ x.reason = k.c.reason
  BY <1>1, <1>2 DEF Recorded, StoredOrder, Reversal
<1>4. Calm([k EXCEPT !.c = x], Mirror([k EXCEPT !.c = x]))
  BY <1>1, CopyWhole, MirrorCalm
<1> QED
  BY <1>0, <1>3, <1>4, StoreHeld

LEMMA RevRecordHeld ==
    ASSUME Moving, NEW w \in Workers, RevRecord(w)
    PROVE  Stays
<1> PICK k : k = wk[w]
  OBVIOUS
<1> PICK x : x = [k.c EXCEPT !.open = DisputesAfter(k)]
  OBVIOUS
<1>0. k.pc \notin Bare /\ Write(w, x, AfterRecord([k EXCEPT !.c = x])) /\ UNCHANGED <<members, numbers, deleted, stripe>>
  BY DEF RevRecord, At, Bare
<1>1. Whole(k) /\ k.c \in StoredOrder /\ Row(k)
  BY <1>0, Worker
<1>2. DisputesAfter(k) \in SUBSET Disputes
  BY <1>1, DisputesAfterType
<1>3. x \in StoredOrder /\ x.linked = k.c.linked /\ x.reason = k.c.reason
  BY <1>1, <1>2 DEF StoredOrder
<1>4. Calm([k EXCEPT !.c = x], AfterRecord([k EXCEPT !.c = x]))
  BY <1>1, CopyWhole, AfterRecordCalm
<1> QED
  BY <1>0, <1>3, <1>4, StoreHeld

\* The other writes go on from the record as it was
LEMMA GoStoreHeld ==
    ASSUME Moving, NEW w \in Workers, wk[w].pc \notin Bare, NEW x, NEW next, Write(w, x, next),
           x \in StoredOrder, x.linked = wk[w].c.linked, x.reason = wk[w].c.reason, Calm(wk[w], next),
           UNCHANGED <<members, numbers, deleted, stripe>>
    PROVE  Stays
BY StoreHeld

LEMMA LateWriteHeld ==
    ASSUME Moving, NEW w \in Workers, LateWrite(w)
    PROVE  Stays
<1> PICK k : k = wk[w]
  OBVIOUS
<1> PICK x : x = [k.c EXCEPT !.intent = TRUE]
  OBVIOUS
<1>0. k.pc \notin Bare /\ Write(w, x, Stop(k)) /\ UNCHANGED <<members, numbers, deleted, stripe>>
  BY DEF LateWrite, At, Bare
<1>1. Whole(k) /\ k.c \in StoredOrder
  BY <1>0, Worker
<1>2. x \in StoredOrder /\ x.linked = k.c.linked /\ x.reason = k.c.reason
  BY <1>1 DEF StoredOrder
<1> QED
  BY <1>0, <1>1, <1>2, StopCalm, GoStoreHeld

LEMMA ExpireWriteHeld ==
    ASSUME Moving, NEW w \in Workers, ExpireWrite(w)
    PROVE  Stays
<1> PICK k : k = wk[w]
  OBVIOUS
<1> PICK x : x = [k.c EXCEPT !.state = "Expired"]
  OBVIOUS
<1>0. k.pc \notin Bare /\ Write(w, x, Stop(k)) /\ UNCHANGED <<members, numbers, deleted, stripe>>
  BY DEF ExpireWrite, At, Bare
<1>1. Whole(k) /\ k.c \in StoredOrder
  BY <1>0, Worker
<1>2. x \in StoredOrder /\ x.linked = k.c.linked /\ x.reason = k.c.reason
  BY <1>1 DEF StoredOrder, OrderState
<1> QED
  BY <1>0, <1>1, <1>2, StopCalm, GoStoreHeld

LEMMA ClearHeld ==
    ASSUME Moving, NEW w \in Workers, Clear(w)
    PROVE  Stays
<1> PICK k : k = wk[w]
  OBVIOUS
<1> PICK x : x = [k.c EXCEPT !.pending = "None"]
  OBVIOUS
<1>0. k.pc \notin Bare /\ Write(w, x, Done(k)) /\ UNCHANGED <<members, numbers, deleted, stripe>>
  BY DEF Clear, At, Bare
<1>1. Whole(k) /\ k.c \in StoredOrder
  BY <1>0, Worker
<1>2. x \in StoredOrder /\ x.linked = k.c.linked /\ x.reason = k.c.reason
  BY <1>1 DEF StoredOrder, Reversal
<1> QED
  BY <1>0, <1>1, <1>2, DoneCalm, GoStoreHeld

LEMMA AsRefundedSame ==
    ASSUME NEW c \in StoredOrder
    PROVE  AsRefunded(c) \in StoredOrder /\ AsRefunded(c).linked = c.linked /\ AsRefunded(c).reason = c.reason
BY DEF AsRefunded, StoredOrder, Reversal, OrderState

LEMMA RefundedHeld ==
    ASSUME Moving, NEW w \in Workers, Refunded(w)
    PROVE  Stays
<1> PICK k : k = wk[w]
  OBVIOUS
<1>0. k.pc \notin Bare /\ Write(w, AsRefunded(k.c), Done(k)) /\ UNCHANGED <<members, numbers, deleted, stripe>>
  BY DEF Refunded, At, Bare
<1>1. Whole(k) /\ k.c \in StoredOrder
  BY <1>0, Worker
<1> QED
  BY <1>0, <1>1, AsRefundedSame, DoneCalm, GoStoreHeld

LEMMA KeepMarkHeld ==
    ASSUME Moving, NEW w \in Workers, KeepMark(w)
    PROVE  Stays
<1> PICK k : k = wk[w]
  OBVIOUS
<1>0. k.pc \notin Bare /\ Write(w, AsRefunded(k.c), Go(k, "keep_cancel")) /\ UNCHANGED <<members, numbers, deleted, stripe>>
  BY DEF KeepMark, At, Bare
<1>1. Whole(k) /\ k.c \in StoredOrder
  BY <1>0, Worker
<1>2. "keep_cancel" \notin Rough
  BY DEF Rough, RelCalls, Unsold, Voids, SyncCalls, ListCalls, Bare
<1> QED
  BY <1>0, <1>1, <1>2, AsRefundedSame, GoCalm, GoStoreHeld

LEMMA PlanFenceHeld ==
    ASSUME Moving, NEW w \in Workers, PlanFence(w)
    PROVE  Stays
<1> PICK k : k = wk[w]
  OBVIOUS
<1>0. k.pc \notin Bare /\ Write(w, k.c, Go(k, "plan_mark")) /\ UNCHANGED <<members, numbers, deleted, stripe>>
  BY DEF PlanFence, At, Bare, Fence
<1>1. Whole(k) /\ k.c \in StoredOrder
  BY <1>0, Worker
<1>2. "plan_mark" \notin Rough
  BY DEF Rough, RelCalls, Unsold, Voids, SyncCalls, ListCalls, Bare
<1> QED
  BY <1>0, <1>1, <1>2, GoCalm, GoStoreHeld

LEMMA LostFenceHeld ==
    ASSUME Moving, NEW w \in Workers, LostFence(w)
    PROVE  Stays
<1> PICK k : k = wk[w]
  OBVIOUS
<1>0. /\ k.pc \notin Bare /\ UNCHANGED <<members, numbers, deleted, stripe>>
      /\ Write(w, k.c, Go(k, "lost_cancel")) \/ (Step(w, Go(k, "rel_check")) /\ UNCHANGED orders)
  BY DEF LostFence, At, Bare, Fence
<1>1. Whole(k) /\ k.c \in StoredOrder
  BY <1>0, Worker
<1>2. "lost_cancel" \notin Rough /\ "rel_check" \notin Rough
  BY DEF Rough, RelCalls, Unsold, Voids, SyncCalls, ListCalls, Bare
<1>3. Calm(k, Go(k, "lost_cancel")) /\ Calm(k, Go(k, "rel_check"))
  BY <1>1, <1>2, GoCalm
<1> QED
  BY <1>0, <1>1, <1>3, GoStoreHeld, ToldHeld

LEMMA PublishHeld ==
    ASSUME Moving, NEW w \in Workers, Publish(w)
    PROVE  Stays
<1> PICK k : k = wk[w]
  OBVIOUS
<1>0. /\ k.pc \notin Bare /\ UNCHANGED <<members, numbers, deleted, stripe>>
      /\ WriteOr(w, k.c, Sync(k, "fulfilled"), Go(k, "publish_lost"))
  BY DEF Publish, At, Bare
<1>1. Whole(k) /\ k.c \in StoredOrder
  BY <1>0, Worker
<1>2. "publish_lost" \notin Rough /\ "fulfilled" \in Ends
  BY DEF Rough, RelCalls, Unsold, Voids, SyncCalls, ListCalls, Bare, Ends
<1>3. Calm(k, Sync(k, "fulfilled")) /\ Calm(k, Go(k, "publish_lost"))
  BY <1>1, <1>2, GoCalm, SyncCalm
<1> QED
  BY <1>0, <1>1, <1>3, CalmWriteHeld

\* Marks on the numbers are no claims
LEMMA MarksStill ==
    ASSUME Inv, NEW o, NEW mark,
           numbers' = [n \in Numbers |-> IF numbers[n].order = o THEN [numbers[n] EXCEPT !.mark = mark] ELSE numbers[n]]
    PROVE  NumbersStill
BY DEF NumbersStill, Inv, Tables, NumberRow

LEMMA LostCancelHeld ==
    ASSUME Moving, NEW w \in Workers, LostCancel(w)
    PROVE  Stays
<1>0. wk[w].pc \notin Bare /\ UNCHANGED <<orders, members, deleted, stripe>> /\ Step(w, Go(wk[w], "rel_check"))
  BY DEF LostCancel, At, Bare
<1>1. Inv /\ Whole(wk[w])
  BY <1>0, Worker
<1>2. NumbersStill
  BY <1>1, MarksStill DEF LostCancel, CancelRelease
<1>3. "rel_check" \notin Rough
  BY DEF Rough, RelCalls, Unsold, Voids, SyncCalls, ListCalls, Bare
<1> QED
  BY <1>0, <1>1, <1>2, <1>3, GoCalm, CalmHeld

LEMMA KeepCancelHeld ==
    ASSUME Moving, NEW w \in Workers, KeepCancel(w)
    PROVE  Stays
<1>0. wk[w].pc \notin Bare /\ UNCHANGED <<orders, members, deleted, stripe>> /\ Step(w, Done(wk[w]))
  BY DEF KeepCancel, At, Bare
<1>1. Inv /\ Whole(wk[w])
  BY <1>0, Worker
<1>2. NumbersStill
  BY <1>1, MarksStill DEF KeepCancel, CancelRelease
<1> QED
  BY <1>0, <1>1, <1>2, DoneCalm, CalmHeld

LEMMA PlanMarkHeld ==
    ASSUME Moving, NEW w \in Workers, PlanMark(w)
    PROVE  Stays
<1> PICK k : k = wk[w]
  OBVIOUS
<1>0. k.pc \notin Bare /\ UNCHANGED <<orders, members, deleted, stripe>>
  BY DEF PlanMark, At, Bare
<1>1. Inv /\ Whole(k)
  BY <1>0, Worker
<1>2. NumbersStill
  BY <1>1, MarksStill DEF PlanMark
<1>3. "rev_read" \notin Rough /\ "rel_check" \notin Rough
  BY DEF Rough, RelCalls, Unsold, Voids, SyncCalls, ListCalls, Bare
<1> PICK n : n = [k EXCEPT !.pc = "rel_check", !.planned = TRUE]
  OBVIOUS
<1>4. n.pc = "rel_check" /\ Slight(k, n)
  BY <1>1 DEF Whole, Fields, Slight
<1>5. Calm(k, n) /\ Calm(k, Go(k, "rev_read"))
  BY <1>1, <1>3, <1>4, PlainCalm, GoCalm
<1> QED
  BY <1>0, <1>2, <1>5, CalmHeld DEF PlanMark

-----------------------------------------------------------------------------
\* Orders that are to be applied, or voided

\* Calls that Routed asks little of
LEMMA UnsoldRouted ==
    ASSUME NEW n, n.pc \in Unsold \cup {"del_read", "del_member"}, n.pc \in {"number", "claim"} => IsNew(n.o)
    PROVE  Routed(n)
BY DEF Routed, InRelease, RelCalls, Unsold, Voids, SyncCalls, ListCalls

LEMMA UserInUsers ==
    ASSUME Moving, NEW w \in Workers, wk[w].pc \notin Bare
    PROVE  User(wk[w]) \in Users /\ members[User(wk[w])] \in Membership
BY Worker, CipherAssumption DEF User, Inv, Tables

LEMMA VoidingHeld ==
    ASSUME Moving, NEW w \in Workers, wk[w].pc \in Unsold, NEW reason, Step(w, VoidStart(wk[w], reason)),
           UNCHANGED <<orders, members, numbers, deleted, stripe>>
    PROVE  Stays
<1>1. wk[w].pc \notin Bare
  BY DEF Unsold, Voids, Bare
<1>2. Whole(wk[w])
  BY <1>1, Worker
<1> QED
  BY <1>1, <1>2, VoidStartSafe, StepHeld, NumbersSame

LEMMA JudgeHeld ==
    ASSUME Moving, NEW w \in Workers, Judge(w)
    PROVE  Stays
<1> PICK k : k = wk[w]
  OBVIOUS
<1>0. k.pc \notin Bare /\ UNCHANGED <<orders, members, numbers, deleted, stripe>>
  BY DEF Judge, At, Bare
<1>1. Whole(k) /\ "publish" \in Exits
  BY <1>0, Worker DEF Exits
<1>2. ASSUME User(k) \in deleted, Step(w, Go(k, "del_read")) PROVE Stays
  <2>1. User(k) \in course.delete
    BY <1>2 DEF Moving, Held, Base, LinkInv
  <2>2. Go(k, "del_read").pc = "del_read"
    BY <1>1 DEF Go, Whole, Fields
  <2>3. Routed(Go(k, "del_read"))
    BY <2>2, UnsoldRouted
  <2> QED
    BY <1>0, <1>2, <2>1, <2>3, GoingHeld DEF Loop, Bare, Unsold, Voids
<1>3. Step(w, Listing(k, Disputed(k.c), "publish", "publish")) => Stays
  BY <1>0, <1>1, ListingCalm, ToldHeld
<1> PICK n : n = [k EXCEPT !.pc = "decide", !.m = members[User(k)]]
  OBVIOUS
<1>4. n.pc = "decide"
  BY <1>1 DEF Whole, Fields
<1>5. Routed(n)
  BY <1>4, UnsoldRouted DEF Unsold
<1>6. ~Holds(members[User(k)], k.o) => ~OnRow(k.o)
  BY DEF OnRow, User
<1>7. ~Holds(members[User(k)], k.o) /\ Step(w, n) => Stays
  BY <1>0, <1>4, <1>5, <1>6, RowReadHeld DEF Loop, Bare
<1> QED
  BY <1>2, <1>3, <1>7 DEF Judge, Read, VoidDeleted

LEMMA DecideHeld ==
    ASSUME Moving, NEW w \in Workers, Decide(w)
    PROVE  Stays
<1> PICK k : k = wk[w]
  OBVIOUS
<1>0. k.pc \notin Bare /\ k.pc \in Unsold /\ UNCHANGED <<orders, members, numbers, deleted, stripe>>
  BY DEF Decide, At, Bare, Unsold
<1>1. Whole(k)
  BY <1>0, Worker
<1>2. \A reason : Step(w, VoidStart(k, reason)) => Stays
  BY <1>0, VoidingHeld
<1>3. ASSUME NEW pc \in {"number", "upgrade_read"}, pc = "number" => IsNew(k.o),
             Step(w, [k EXCEPT !.m = NoMember, !.pc = pc])
      PROVE  Stays
  <2> PICK n : n = [k EXCEPT !.m = NoMember, !.pc = pc]
    OBVIOUS
  <2>1. n.pc = pc /\ n.o = k.o /\ n = [k EXCEPT !.pc = pc, !.m = NoMember]
    BY <1>1 DEF Whole, Fields
  <2>2. Routed(n)
    BY <1>3, <2>1, UnsoldRouted DEF Unsold
  <2> QED
    BY <1>0, <1>3, <2>1, <2>2, ReadingHeld DEF Loop, Bare
<1>4. \/ \E reason : Step(w, VoidStart(k, reason))
      \/ Step(w, [k EXCEPT !.m = NoMember, !.pc = IF IsNew(k.o) THEN "number" ELSE "upgrade_read"])
  BY DEF Decide
<1> QED
  BY <1>2, <1>3, <1>4

LEMMA InsertReadHeld ==
    ASSUME Moving, NEW w \in Workers, InsertRead(w)
    PROVE  Stays
<1> PICK k : k = wk[w]
  OBVIOUS
<1>0. k.pc \notin Bare /\ k.pc \in Unsold /\ UNCHANGED <<orders, members, numbers, deleted, stripe>>
  BY DEF InsertRead, At, Bare, Unsold
<1>1. Whole(k)
  BY <1>0, Worker
<1>2. Step(w, VoidStart(k, "Stale")) => Stays
  BY <1>0, VoidingHeld
<1>3. Step(w, Publishing(k)) => Stays
  BY <1>0, <1>1, PublishingCalm, ToldHeld
<1>4. Go(k, "insert").pc = "insert"
  BY <1>1 DEF Go, Whole, Fields
<1>5. Routed(Go(k, "insert"))
  BY <1>4, UnsoldRouted DEF Unsold
<1>6. Step(w, Go(k, "insert")) => Stays
  BY <1>0, <1>5, GoingHeld DEF Loop, Bare
<1> PICK n : n = [k EXCEPT !.pc = "replace", !.m = members[User(k)]]
  OBVIOUS
<1>7. n.pc = "replace"
  BY <1>1 DEF Whole, Fields
<1>8. Routed(n)
  BY <1>7, UnsoldRouted DEF Unsold
<1>9. Step(w, n) => Stays
  BY <1>0, <1>7, <1>8, RowReadHeld DEF Loop, Bare
<1> QED
  BY <1>2, <1>3, <1>6, <1>9 DEF InsertRead, Read

LEMMA UpgradeReadHeld ==
    ASSUME Moving, NEW w \in Workers, UpgradeRead(w)
    PROVE  Stays
<1> PICK k : k = wk[w]
  OBVIOUS
<1>0. k.pc \notin Bare /\ k.pc \in Unsold /\ UNCHANGED <<orders, members, numbers, deleted, stripe>>
  BY DEF UpgradeRead, At, Bare, Unsold
<1>1. Whole(k)
  BY <1>0, Worker
<1>2. \A reason : Step(w, VoidStart(k, reason)) => Stays
  BY <1>0, VoidingHeld
<1>3. Step(w, Publishing(k)) => Stays
  BY <1>0, <1>1, PublishingCalm, ToldHeld
<1> PICK n : n = [k EXCEPT !.pc = "upgrade_cas", !.m = members[User(k)]]
  OBVIOUS
<1>7. n.pc = "upgrade_cas"
  BY <1>1 DEF Whole, Fields
<1>8. Routed(n)
  BY <1>7, UnsoldRouted DEF Unsold
<1>9. Step(w, n) => Stays
  BY <1>0, <1>7, <1>8, RowReadHeld DEF Loop, Bare
<1> QED
  BY <1>2, <1>3, <1>9 DEF UpgradeRead, Read

LEMMA NumberStepHeld ==
    ASSUME Moving, NEW w \in Workers, Number(w)
    PROVE  Stays
<1> PICK k : k = wk[w]
  OBVIOUS
<1>0. k.pc \notin Bare /\ k.pc = "number" /\ k.pc \in Unsold /\ UNCHANGED <<orders, members, numbers, deleted, stripe>>
  BY DEF Number, At, Bare, Unsold
<1>1. Whole(k) /\ Routed(k)
  BY <1>0, Worker
<1>2. Step(w, VoidStart(k, "Stale")) => Stays
  BY <1>0, VoidingHeld
<1>3. Go(k, "claim").pc = "claim" /\ Go(k, "claim").o = k.o
  BY <1>1 DEF Go, Whole, Fields
<1>4. Routed(Go(k, "claim"))
  BY <1>0, <1>1, <1>3, UnsoldRouted DEF Unsold, Routed
<1>5. Step(w, Go(k, "claim")) => Stays
  BY <1>0, <1>4, GoingHeld DEF Loop, Bare
<1>6. ASSUME NEW i \in NumberOf(k.o), Step(w, [k EXCEPT !.pc = "insert", !.number = i]) PROVE Stays
  <2> PICK n : n = [k EXCEPT !.pc = "insert", !.number = i]
    OBVIOUS
  <2>1. /\ n.pc = "insert" /\ n.number = i /\ n.o = k.o /\ n.c = k.c /\ n.m = k.m /\ n.task = k.task /\ n.todo = k.todo
    BY <1>1 DEF Whole, Fields
  <2>2. numbers[i].order = k.o
    BY <1>6 DEF NumberOf
  <2>3. Routed(n)
    BY <2>1, UnsoldRouted DEF Unsold
  <2>4. Safe(k, n) /\ Reads(k, n)
    BY <1>0, <2>1, <2>2, <2>3 DEF Sure, Safe, Reads, Loop, Bare
  <2> QED
    BY <1>0, <1>6, <2>1, <2>4, StepHeld, NumbersSame
<1>7. NumberOf(k.o) # {} => (CHOOSE n \in NumberOf(k.o) : TRUE) \in NumberOf(k.o)
  OBVIOUS
<1> QED
  BY <1>2, <1>5, <1>6, <1>7 DEF Number

LEMMA DelReadHeld ==
    ASSUME Moving, NEW w \in Workers, DelRead(w)
    PROVE  Stays
<1> PICK k : k = wk[w]
  OBVIOUS
<1>0. k.pc \notin Bare /\ k.pc = "del_read" /\ UNCHANGED <<orders, members, numbers, deleted, stripe>>
  BY DEF DelRead, At, Bare
<1>1. Whole(k) /\ Known(k)
  BY <1>0, Worker
<1>2. Go(k, "del_member").pc = "del_member"
  BY <1>1 DEF Go, Whole, Fields
<1>3. Routed(Go(k, "del_member")) /\ User(k) \in course.delete
  BY <1>0, <1>1, <1>2, UnsoldRouted DEF Known
<1>4. Step(w, Go(k, "del_member")) => Stays
  BY <1>0, <1>3, GoingHeld DEF Loop, Bare, Unsold, Voids
<1>5. ASSUME ~Holds(members[User(k)], k.o), Step(w, VoidStart(k, "AccountDeleted")) PROVE Stays
  <2> PICK r : r = VoidStart(k, "AccountDeleted")
    OBVIOUS
  <2>1. Slight(k, r) /\ r.pc \in Voids \cup {"release"} /\ r.c = k.c
    BY <1>1, VoidStartSlight DEF Slight
  <2>2. Routed(r)
    BY <2>1 DEF Routed, InRelease, RelCalls, Voids, SyncCalls, ListCalls
  <2>3. ~OnRow(k.o)
    BY <1>5 DEF OnRow, User
  <2>4. Safe(k, r) /\ Reads(k, r)
    BY <2>1, <2>2, <2>3 DEF Slight, Sure, Safe, Reads, Voids, Loop, Bare
  <2> QED
    BY <1>0, <1>5, <2>1, <2>4, StepHeld, NumbersSame
<1> QED
  BY <1>4, <1>5 DEF DelRead, Read

\* A write of an order on no row
LEMMA VoidStoreHeld ==
    ASSUME Moving, NEW w \in Workers, wk[w].pc \notin Bare, NEW x, NEW pc, Write(w, x, Go(wk[w], pc)),
           x \in StoredOrder, x.linked = wk[w].c.linked,
           ~course.stalls => ~OnRow(wk[w].o), pc \in {"void_refund", "release"}, pc # "release" => wk[w].pc \in Unsold,
           UNCHANGED <<members, numbers, deleted, stripe>>
    PROVE  Stays
<1> PICK k : k = wk[w]
  OBVIOUS
<1> PICK n : n = [Go(k, pc) EXCEPT !.c = x]
  OBVIOUS
<1>1. Whole(k)
  BY Worker
<1>2. Calm(k, Abort(k))
  BY <1>1, AbortCalm
<1>3. /\ n.pc = pc /\ n.o = k.o /\ n.c = x /\ n.m = k.m /\ n.task = k.task /\ n.todo = k.todo /\ n.number = k.number
  BY <1>1 DEF Go, Whole, Fields
<1>4. Routed(n)
  BY <1>3 DEF Routed, InRelease, RelCalls, SyncCalls, ListCalls
<1>5. Sure(k, n) /\ Reads(k, n) /\ Watched(n)'
  BY <1>3, <1>4 DEF Sure, Reads, Bare, Watched, Loop, Unsold, Voids
<1>6. ~course.stalls /\ x.reason # k.c.reason => ~OnRow(k.o)
  OBVIOUS
<1>7. WriteOr(w, x, Go(k, pc), Abort(k))
  BY DEF Write
<1> QED
  BY <1>2, <1>3, <1>5, <1>6, <1>7, WriteHeld

LEMMA UnsoldOff ==
    ASSUME Moving, NEW w \in Workers, wk[w].pc \in Unsold
    PROVE  wk[w].pc \notin Bare /\ (~course.stalls => ~OnRow(wk[w].o))
<1>1. wk[w].pc \notin Bare
  BY DEF Unsold, Voids, Bare
<1> QED
  BY <1>1, Worker DEF Claims

LEMMA VoidMarkHeld ==
    ASSUME Moving, NEW w \in Workers, VoidMark(w)
    PROVE  Stays
<1> PICK k : k = wk[w]
  OBVIOUS
<1>0. /\ k.pc \in Unsold /\ UNCHANGED <<members, numbers, deleted, stripe>>
      /\ Write(w, [k.c EXCEPT !.reason = k.reason], Go(k, "void_refund"))
  BY DEF VoidMark, At, Unsold, Voids
<1>1. Row(k) /\ k.c \in StoredOrder
  BY <1>0, UnsoldOff, Worker
<1>2. [k.c EXCEPT !.reason = k.reason] \in StoredOrder /\ [k.c EXCEPT !.reason = k.reason].linked = k.c.linked
  BY <1>1 DEF Row, StoredOrder
<1> QED
  BY <1>0, <1>2, UnsoldOff, VoidStoreHeld

LEMMA VoidUnmarkHeld ==
    ASSUME Moving, NEW w \in Workers, VoidUnmark(w)
    PROVE  Stays
<1> PICK k : k = wk[w]
  OBVIOUS
<1>0. /\ k.pc \in Unsold /\ UNCHANGED <<members, numbers, deleted, stripe>>
      /\ Write(w, [k.c EXCEPT !.reason = k.prev], Go(k, "release"))
  BY DEF VoidUnmark, At, Unsold, Voids, Stop
<1>1. Row(k) /\ k.c \in StoredOrder
  BY <1>0, UnsoldOff, Worker
<1>2. [k.c EXCEPT !.reason = k.prev] \in StoredOrder /\ [k.c EXCEPT !.reason = k.prev].linked = k.c.linked
  BY <1>1 DEF Row, StoredOrder
<1> QED
  BY <1>0, <1>2, UnsoldOff, VoidStoreHeld

LEMMA VoidWriteHeld ==
    ASSUME Moving, NEW w \in Workers, VoidWrite(w)
    PROVE  Stays
<1> PICK k : k = wk[w]
  OBVIOUS
<1> PICK x : x = [k.c EXCEPT !.state = "Voided", !.reason = k.reason, !.pending = "None"]
  OBVIOUS
<1>0. /\ k.pc \in Unsold /\ UNCHANGED <<members, numbers, deleted, stripe>>
      /\ Write(w, x, Go(k, "release"))
  BY DEF VoidWrite, At, Unsold, Voids, Stop
<1>1. Row(k) /\ k.c \in StoredOrder
  BY <1>0, UnsoldOff, Worker
<1>2. x \in StoredOrder /\ x.linked = k.c.linked
  BY <1>1 DEF Row, StoredOrder, OrderState, Reversal
<1> QED
  BY <1>0, <1>2, UnsoldOff, VoidStoreHeld

-----------------------------------------------------------------------------
\* Refunds, and the release of a number

\* A refund of a void is asked for
LEMMA AskedHeld ==
    ASSUME Moving, NEW w \in Workers, wk[w].pc \notin Bare, NEW n, NEW p, RefundAsked(w, wk[w].o, n, p),
           ~course.stalls => ~OnRow(wk[w].o), Safe(wk[w], n), Reads(wk[w], n), n.c = wk[w].c,
           Safe(wk[w], p), Reads(wk[w], p), p.c = wk[w].c, UNCHANGED <<orders, members, numbers, deleted>>
    PROVE  Stays
<1>1. Inv /\ wk[w].o \in Orders /\ stripe \in [Orders -> StripeOrder]
  BY Worker DEF Inv, Tables
<1>2. LinksStill /\ NumbersStill
  BY NumbersSame DEF LinksStill
<1>3. ~course.stalls => VoidsStill
  <2>1. \A o \in Orders \ {wk[w].o} : stripe'[o] = stripe[o]
    BY <1>1 DEF RefundAsked
  <2> QED
    BY <1>1, <2>1 DEF VoidsStill
<1>4. PICK q \in {n, p} : Step(w, q)
  BY DEF RefundAsked
<1>5. wk'[w] = q /\ Alone(w)
  BY <1>1, <1>4, StepAlone
<1>6. Sure(wk[w], q) /\ Reads(wk[w], q) /\ Watched(q)' /\ q.c = wk[w].c
  BY <1>4 DEF Safe, Watched
<1> QED
  BY <1>2, <1>3, <1>5, <1>6, GoesHeld

LEMMA GoSafe ==
    ASSUME NEW k, NEW pc, Whole(k), Routed(Go(k, pc)),
           pc \notin Loop \cup {"rel_put", "del_read", "del_member"} \cup Bare, pc \in Unsold => k.pc \in Unsold
    PROVE  Safe(k, Go(k, pc)) /\ Reads(k, Go(k, pc)) /\ Go(k, pc).c = k.c
<1> PICK n : n = Go(k, pc)
  OBVIOUS
<1>1. n.pc = pc /\ n.m = k.m /\ n.c = k.c
  BY DEF Go, Whole, Fields
<1>2. n.o = k.o /\ n.task = k.task /\ n.number = k.number /\ n.todo = k.todo
  BY DEF Go, Whole, Fields
<1> QED
  BY <1>1, <1>2 DEF Sure, Safe, Reads

LEMMA VoidRefundHeld ==
    ASSUME Moving, NEW w \in Workers, VoidRefund(w)
    PROVE  Stays
<1> PICK k : k = wk[w]
  OBVIOUS
<1>0. k.pc \in Unsold /\ UNCHANGED <<orders, members, numbers, deleted>>
  BY DEF VoidRefund, At, Unsold, Voids
<1>1. k.pc \notin Bare /\ (~course.stalls => ~OnRow(k.o)) /\ Whole(k)
  BY <1>0, UnsoldOff, Worker
<1>2. ASSUME NEW pc \in {"void_write", "void_unmark", "release"}
      PROVE  Safe(k, Go(k, pc)) /\ Reads(k, Go(k, pc)) /\ Go(k, pc).c = k.c
  <2>1. Go(k, pc).pc = pc
    BY <1>1 DEF Go, Whole, Fields
  <2>2. Routed(Go(k, pc))
    BY <2>1 DEF Routed, InRelease, RelCalls, SyncCalls, ListCalls
  <2> QED
    BY <1>0, <1>1, <2>2, GoSafe DEF Loop, Bare, Unsold, Voids
<1>3. \/ RefundAsked(w, k.o, Go(k, "void_write"), Go(k, "void_unmark"))
      \/ RefundAsked(w, k.o, Go(k, "void_write"), Go(k, "release"))
  BY DEF VoidRefund, Stop
<1> QED
  BY <1>0, <1>1, <1>2, <1>3, AskedHeld

\* What is stored of an order, for a worker within its lease
LEMMA StoredSays ==
    ASSUME Moving, ~course.stalls, NEW w \in Workers, wk[w].pc \notin Bare
    PROVE  /\ wk[w].o \in Orders /\ OrderInv(wk[w].o)
           /\ orders[wk[w].o].state = wk[w].c.state /\ orders[wk[w].o].reason = wk[w].c.reason
<1>1. Inv /\ wk[w].o \in Orders /\ wk[w].c \in StoredOrder
  BY Worker
<1>2. orders[wk[w].o] = [wk[w].c EXCEPT !.linked = orders[wk[w].o].linked]
  BY <1>1 DEF Inv, WorkInv, Tied
<1> QED
  BY <1>1, <1>2 DEF Inv, StoredOrder

LEMMA LateRefundHeld ==
    ASSUME Moving, NEW w \in Workers, LateRefund(w)
    PROVE  Stays
<1> PICK k : k = wk[w]
  OBVIOUS
<1>0. k.pc \notin Bare /\ k.pc = "late_refund" /\ UNCHANGED <<orders, members, numbers, deleted>>
  BY DEF LateRefund, At, Bare
<1>1. Whole(k) /\ Inv /\ k.c.state = "Voided"
  BY <1>0, Worker, AtWork DEF Fits
<1>2. ~course.stalls => ~OnRow(k.o)
  <2>1. SUFFICES ASSUME ~course.stalls PROVE ~OnRow(k.o)
    OBVIOUS
  <2>2. k.o \in Orders /\ orders[k.o].reason # "None"
    BY <1>0, <1>1, <2>1, StoredSays DEF OrderInv, Sound
  <2>3. BoughtInv(k.o)
    BY <2>1, <2>2 DEF Moving, Held, Rows
  <2> QED
    BY <2>2, <2>3 DEF BoughtInv
<1>3. ASSUME NEW pc \in {"late_write", "release"}
      PROVE  Safe(k, Go(k, pc)) /\ Reads(k, Go(k, pc)) /\ Go(k, pc).c = k.c
  <2>1. Go(k, pc).pc = pc
    BY <1>1 DEF Go, Whole, Fields
  <2>2. Routed(Go(k, pc))
    BY <2>1 DEF Routed, InRelease, RelCalls, SyncCalls, ListCalls
  <2> QED
    BY <1>0, <1>1, <2>2, GoSafe DEF Loop, Bare, Unsold, Voids
<1>4. RefundAsked(w, k.o, Go(k, "late_write"), Go(k, "release"))
  BY DEF LateRefund, Stop
<1> QED
  BY <1>0, <1>2, <1>3, <1>4, AskedHeld

\* An order that shows no payment is on no row
LEMMA UnpaidOff ==
    ASSUME Moving, ~course.stalls, NEW w \in Workers, wk[w].pc \notin Bare, wk[w].c.state \in Unpaid
    PROVE  ~OnRow(wk[w].o)
<1> PICK o : o = wk[w].o
  OBVIOUS
<1>1. o \in Orders /\ orders[o].state \in Unpaid /\ OrderInv(o)
  BY StoredSays
<1>2. ~orders[o].intent
  BY <1>1 DEF OrderInv, Sound, Unpaid
<1>3. Buyer[o] \in Users
  BY <1>1, CipherAssumption
<1> QED
  BY <1>2, <1>3 DEF OnRow, Holds, Moving, Held, Base, IntentInv

LEMMA VoidUnpaidWriteHeld ==
    ASSUME Moving, NEW w \in Workers, VoidUnpaidWrite(w)
    PROVE  Stays
<1> PICK k : k = wk[w]
  OBVIOUS
<1> PICK x : x = [k.c EXCEPT !.state = "Voided", !.reason = "AccountDeleted"]
  OBVIOUS
<1>0. /\ k.pc \notin Bare /\ k.pc = "void_unpaid" /\ UNCHANGED <<members, numbers, deleted, stripe>>
      /\ Write(w, x, Go(k, "release"))
  BY DEF VoidUnpaidWrite, At, Bare, Stop
<1>1. Inv /\ k.c \in StoredOrder /\ k.c.state \in Unpaid
  BY <1>0, Worker, AtWork DEF Fits
<1>2. x \in StoredOrder /\ x.linked = k.c.linked
  BY <1>1 DEF StoredOrder, OrderState, VoidReasons
<1>3. ~course.stalls => ~OnRow(k.o)
  BY <1>0, <1>1, UnpaidOff
<1> QED
  BY <1>0, <1>2, <1>3, VoidStoreHeld

LEMMA RelOrderPlace == \A k : Whole(k) => RelOrder(k).pc \in {"rel_mark", "rel_free"}
BY DEF RelOrder, Go, Whole, Fields

\* Calls in a release
LEMMA RelRouted ==
    ASSUME NEW n, n.number # 0, IsNew(n.o),
           n.pc \in RelCalls \/ (n.pc \in SyncCalls /\ n.ret \in {"rel_read", "rel_mark", "rel_free"}),
           n.pc \in {"rel_fence2", "rel_delete"} => n.ups = {} /\ ~n.waiting
    PROVE  Routed(n)
BY DEF Routed, InRelease, RelCalls, SyncCalls, ListCalls

LEMMA RelSyncSafe ==
    ASSUME NEW k, NEW ret \in {"rel_read", "rel_mark", "rel_free"}, Whole(k), k.number # 0, IsNew(k.o)
    PROVE  Safe(k, Sync(k, ret)) /\ Reads(k, Sync(k, ret)) /\ Sync(k, ret).c = k.c
<1> PICK n : n = Sync(k, ret)
  OBVIOUS
<1>1. n.pc = "sync_read" /\ n.m = NoMember /\ n.c = k.c /\ n.ret = ret
  BY DEF Sync, Whole, Fields
<1>2. n.o = k.o /\ n.task = k.task /\ n.number = k.number /\ n.todo = k.todo
  BY DEF Sync, Whole, Fields
<1>3. Routed(n)
  BY <1>1, <1>2, RelRouted DEF SyncCalls
<1> QED
  BY <1>1, <1>2, <1>3 DEF Sure, Safe, Reads, Loop, Bare, Unsold, Voids

LEMMA RelReadHeld ==
    ASSUME Moving, NEW w \in Workers, RelRead(w)
    PROVE  Stays
<1> PICK k : k = wk[w]
  OBVIOUS
<1>0. k.pc \notin Bare /\ k.pc = "rel_read" /\ UNCHANGED <<orders, members, numbers, deleted, stripe>>
  BY DEF RelRead, At, Bare
<1>1. Whole(k) /\ k.number # 0 /\ IsNew(k.o)
  BY <1>0, Worker DEF Routed, InRelease, RelCalls
<1>2. Step(w, Sync(k, RelOrder(k).pc)) => Stays
  BY <1>0, <1>1, RelOrderPlace, RelSyncSafe, StepHeld, NumbersSame
<1>3. "keep_mark" \notin Rough /\ "keep_cancel" \notin Rough
  BY DEF Rough, RelCalls, Unsold, Voids, SyncCalls, ListCalls, Bare
<1>4. Step(w, Go(k, "keep_mark")) \/ Step(w, Go(k, "keep_cancel")) => Stays
  BY <1>0, <1>1, <1>3, GoCalm, ToldHeld
<1>5. ASSUME NEW pc \in {"rel_revoke", "rel_fence"}, Step(w, [k EXCEPT !.pc = pc, !.m = members[User(k)]]) PROVE Stays
  <2> PICK n : n = [k EXCEPT !.pc = pc, !.m = members[User(k)]]
    OBVIOUS
  <2>1. n.pc = pc /\ n.number = k.number /\ n.o = k.o
    BY <1>1 DEF Whole, Fields
  <2>2. Routed(n)
    BY <1>1, <2>1, RelRouted DEF RelCalls
  <2> QED
    BY <1>0, <1>5, <2>1, <2>2, RowReadHeld DEF Loop, Bare, Unsold, Voids
<1>6. \/ Step(w, Sync(k, RelOrder(k).pc)) \/ Step(w, Go(k, "keep_mark")) \/ Step(w, Go(k, "keep_cancel"))
      \/ Step(w, [k EXCEPT !.pc = "rel_revoke", !.m = members[User(k)]])
      \/ Step(w, [k EXCEPT !.pc = "rel_fence", !.m = members[User(k)]])
  BY DEF RelRead, Read
<1> QED
  BY <1>2, <1>4, <1>5, <1>6

LEMMA ZeroNoNumber == 0 \notin Numbers
BY CipherAssumption DEF Numbers

LEMMA RelCheckHeld ==
    ASSUME Moving, NEW w \in Workers, RelCheck(w)
    PROVE  Stays
<1> PICK k : k = wk[w]
  OBVIOUS
<1>0. k.pc \notin Bare /\ UNCHANGED <<orders, members, numbers, deleted, stripe>>
  BY DEF RelCheck, At, Bare
<1>1. Whole(k)
  BY <1>0, Worker
<1>2. "plan" \notin Rough /\ "rev_read" \notin Rough
  BY DEF Rough, RelCalls, Unsold, Voids, SyncCalls, ListCalls, Bare
<1>3. Step(w, Go(k, "plan")) \/ Step(w, Go(k, "rev_read")) \/ Step(w, Stop(k)) \/ Step(w, NoMembership(k)) => Stays
  BY <1>0, <1>1, <1>2, GoCalm, StopCalm, NoMembershipCalm, ToldHeld
<1>4. ASSUME IsNew(k.o), ReleaseMarked(k.o), Step(w, RelEnter(k)) PROVE Stays
  <2> PICK i : i = CHOOSE n \in NumberOf(k.o) : TRUE
    OBVIOUS
  <2>1. i \in Numbers /\ numbers[i].order = k.o
    BY <1>4 DEF ReleaseMarked, NumberOf
  <2>2. i # 0
    BY <2>1, ZeroNoNumber
  <2> PICK p : p = [k EXCEPT !.number = i]
    OBVIOUS
  <2>3. p.number = i /\ p.o = k.o /\ p.c = k.c /\ p.m = k.m /\ p.task = k.task /\ p.todo = k.todo /\ Whole(p)
    BY <1>1 DEF Whole, Fields
  <2> PICK n : n = RelEnter(k)
    OBVIOUS
  <2>4. n \in {Go(p, "rel_read"), RelOrder(p)}
    BY DEF RelEnter
  <2>5. /\ n.pc \in {"rel_read", "rel_mark", "rel_free"} /\ n.number = i /\ n.o = k.o /\ n.c = k.c /\ n.m \in {k.m, NoMember}
        /\ n.task = k.task /\ n.todo = k.todo
    BY <2>3, <2>4 DEF RelOrder, Go, Whole, Fields
  <2>6. Routed(n)
    BY <1>4, <2>2, <2>5, RelRouted DEF RelCalls
  <2>7. Safe(k, n) /\ Reads(k, n)
    BY <2>1, <2>5, <2>6 DEF Sure, Safe, Reads, Loop, Bare, Unsold, Voids
  <2> QED
    BY <1>0, <1>4, <2>5, <2>7, StepHeld, NumbersSame
<1> QED
  BY <1>3, <1>4 DEF RelCheck

LEMMA RelMarkHeld ==
    ASSUME Moving, NEW w \in Workers, RelMark(w)
    PROVE  Stays
<1> PICK k : k = wk[w]
  OBVIOUS
<1> PICK x : x = AsRefunded(k.c)
  OBVIOUS
<1>0. /\ k.pc \notin Bare /\ k.pc = "rel_mark" /\ UNCHANGED <<members, numbers, deleted, stripe>>
      /\ WriteOr(w, x, Go(k, "rel_free"), Abort(k))
  BY DEF RelMark, At, Bare, Write
<1>1. Whole(k) /\ k.number # 0 /\ IsNew(k.o) /\ k.c \in StoredOrder
  BY <1>0, Worker DEF Routed, InRelease, RelCalls
<1>2. x \in StoredOrder /\ x.linked = k.c.linked /\ x.reason = k.c.reason
  BY <1>1, AsRefundedSame
<1> PICK n : n = [Go(k, "rel_free") EXCEPT !.c = x]
  OBVIOUS
<1>3. n.pc = "rel_free" /\ n.c = x /\ n.o = k.o /\ n.m = k.m /\ n.number = k.number /\ n.task = k.task /\ n.todo = k.todo
  BY <1>1 DEF Go, Whole, Fields
<1>4. Routed(n)
  BY <1>1, <1>3, RelRouted DEF RelCalls
<1>5. Sure(k, n) /\ Reads(k, n) /\ Watched(n)'
  BY <1>3, <1>4 DEF Sure, Reads, Watched, Loop, Bare, Unsold, Voids
<1>6. Calm(k, Abort(k))
  BY <1>1, AbortCalm
<1> QED
  BY <1>0, <1>2, <1>3, <1>5, <1>6, WriteHeld

\* The loop over the upgrades of the row, before and after one is looked at
LEMMA LoopHeld ==
    ASSUME Moving, NEW w \in Workers, wk[w].pc \in Loop \cup {"rel_fence"}, NEW n, n = wk'[w], Alone(w),
           n.pc \in Loop, n.o = wk[w].o, n.c = wk[w].c, n.m = wk[w].m, n.task = wk[w].task, n.todo = wk[w].todo,
           n.number = wk[w].number, n.pc \in {"rel_fence2", "rel_delete"} => n.ups = {} /\ ~n.waiting, Watched(n)',
           UNCHANGED <<members, numbers, deleted>>, \A o \in Orders : stripe'[o].void = stripe[o].void,
           \A o \in Orders : orders'[o].linked = orders[o].linked /\ orders'[o].reason = orders[o].reason
    PROVE  Stays
<1> PICK k : k = wk[w]
  OBVIOUS
<1>0. k.pc \notin Bare /\ k.pc \in RelCalls /\ n.pc \in RelCalls
  BY DEF Loop, Bare, RelCalls
<1>1. Routed(k)
  BY <1>0, Worker
<1>2. Routed(n)
  BY <1>0, <1>1, RelRouted DEF Routed, InRelease
<1>3. Sure(k, n) /\ Reads(k, n)
  BY <1>2 DEF Sure, Reads, Loop, Bare, Unsold, Voids
<1>4. LinksStill /\ VoidsStill /\ NumbersStill
  BY NumbersSame DEF LinksStill, VoidsStill
<1> QED
  BY <1>0, <1>3, <1>4, GoesHeld

LEMMA RelFenceHeld ==
    ASSUME Moving, NEW w \in Workers, RelFence(w)
    PROVE  Stays
<1> PICK k : k = wk[w]
  OBVIOUS
<1> PICK p : p = [k EXCEPT !.pc = "rel_up", !.waiting = FALSE, !.ups = k.m.orders \ {k.o}]
  OBVIOUS
<1>0. /\ k.pc \notin Bare /\ k.pc = "rel_fence" /\ UNCHANGED <<members, numbers, deleted, stripe>>
      /\ WriteOr(w, k.c, p, Abort(k))
  BY DEF RelFence, At, Bare, Write, Fence
<1>1. Whole(k) /\ k.number # 0 /\ IsNew(k.o) /\ k.c \in StoredOrder
  BY <1>0, Worker DEF Routed, InRelease, RelCalls
<1> PICK n : n = [p EXCEPT !.c = k.c]
  OBVIOUS
<1>2. /\ n.pc = "rel_up" /\ n.c = k.c /\ n.o = k.o /\ n.m = k.m /\ n.number = k.number /\ n.task = k.task /\ n.todo = k.todo
      /\ n.ups = k.m.orders \ {k.o}
  BY <1>1 DEF Whole, Fields
<1>3. Routed(n)
  BY <1>1, <1>2, RelRouted DEF RelCalls
<1>4. Sure(k, n) /\ Reads(k, n) /\ Watched(n)'
  BY <1>2, <1>3 DEF Sure, Reads, Watched, Bare, Unsold, Voids
<1>5. Calm(k, Abort(k))
  BY <1>1, AbortCalm
<1> QED
  BY <1>0, <1>1, <1>2, <1>4, <1>5, WriteHeld

LEMMA RelFence2Held ==
    ASSUME Moving, NEW w \in Workers, RelFence2(w)
    PROVE  Stays
<1> PICK k : k = wk[w]
  OBVIOUS
<1>0. /\ k.pc \notin Bare /\ k.pc = "rel_fence2" /\ UNCHANGED <<members, numbers, deleted, stripe>>
      /\ WriteOr(w, k.c, Go(k, "rel_delete"), Abort(k))
  BY DEF RelFence2, At, Bare, Write, Fence
<1>1. Whole(k) /\ Row(k) /\ Known(k) /\ k.number # 0 /\ IsNew(k.o) /\ k.c \in StoredOrder /\ k.ups = {} /\ ~k.waiting
  BY <1>0, Worker DEF Routed, InRelease, RelCalls
<1> PICK n : n = [Go(k, "rel_delete") EXCEPT !.c = k.c]
  OBVIOUS
<1>2. /\ n.pc = "rel_delete" /\ n.c = k.c /\ n.o = k.o /\ n.m = k.m /\ n.number = k.number /\ n.task = k.task /\ n.todo = k.todo
      /\ n.ups = k.ups /\ n.waiting = k.waiting
  BY <1>1 DEF Go, Whole, Fields
<1>3. Routed(n)
  BY <1>1, <1>2, RelRouted DEF RelCalls
<1>4. \A x \in k.m.orders \ {k.o} : x \in Orders /\ Closed(x)
  BY <1>0, <1>1 DEF Known, Watched, Loop, Row, Membership, CipherMembership, NoMember
<1>5. \A x \in n.m.orders \ {n.o} : Closed(x)'
  BY <1>2, <1>4, MovingSays DEF Grows
<1>6. Sure(k, n) /\ Reads(k, n) /\ Watched(n)'
  BY <1>2, <1>3, <1>5 DEF Sure, Reads, Watched, Bare, Unsold, Voids
<1>7. Calm(k, Abort(k))
  BY <1>1, AbortCalm
<1> QED
  BY <1>0, <1>1, <1>2, <1>6, <1>7, WriteHeld

\* What the loop knows when it looks at the next upgrade
LEMMA RelUpHeld ==
    ASSUME Moving, NEW w \in Workers, RelUp(w)
    PROVE  Stays
<1> PICK k : k = wk[w]
  OBVIOUS
<1>0. k.pc \notin Bare /\ k.pc = "rel_up" /\ UNCHANGED <<orders, members, numbers, deleted, stripe>>
  BY DEF RelUp, At, Bare
<1>1. Inv /\ Whole(k) /\ Row(k) /\ Known(k)
  BY <1>0, Worker
<1>2. \A x \in k.m.orders \ {k.o} : x \in Orders /\ orders[x].intent /\ (x \in k.ups \/ k.waiting \/ Closed(x))
  BY <1>0, <1>1 DEF Known, Watched, Loop, Row, Membership, CipherMembership, NoMember
<1>3. ASSUME NEW n, Step(w, n), n.pc \in Loop, n.o = k.o, n.c = k.c, n.m = k.m, n.task = k.task, n.todo = k.todo,
             n.number = k.number, n.pc \in {"rel_fence2", "rel_delete"} => n.ups = {} /\ ~n.waiting,
             \A x \in k.m.orders \ {k.o} : \/ x \in n.ups \/ n.waiting \/ Closed(x)
                                           \/ x = n.up /\ n.pc \in {"rel_refund", "rel_record"}
      PROVE  Stays
  <2>1. wk'[w] = n /\ Alone(w)
    BY <1>1, <1>3, StepAlone
  <2>2. Watched(n)'
    BY <1>0, <1>3 DEF Watched, Closed
  <2> QED
    BY <1>0, <1>3, <2>1, <2>2, LoopHeld DEF Loop
<1>4. ASSUME NEW u \in k.ups, orders[u].state \in {"Refunded", "Voided"}, Step(w, [k EXCEPT !.ups = @ \ {u}])
      PROVE  Stays
  <2> PICK n : n = [k EXCEPT !.ups = @ \ {u}]
    OBVIOUS
  <2>1. /\ n.pc = "rel_up" /\ n.o = k.o /\ n.c = k.c /\ n.m = k.m /\ n.task = k.task /\ n.todo = k.todo
        /\ n.number = k.number /\ n.ups = k.ups \ {u} /\ n.waiting = k.waiting
    BY <1>0, <1>1 DEF Whole, Fields
  <2>2. u \in k.m.orders \ {k.o} => Closed(u)
    BY <1>2, <1>4 DEF Closed, Settled, View
  <2>3. \A x \in k.m.orders \ {k.o} : x \in n.ups \/ n.waiting \/ Closed(x)
    BY <1>2, <2>1, <2>2
  <2> QED
    BY <1>3, <1>4, <2>1, <2>3 DEF Loop
<1>5. ASSUME NEW u \in k.ups, Step(w, [[k EXCEPT !.ups = @ \ {u}] EXCEPT !.waiting = TRUE])
      PROVE  Stays
  <2> PICK n : n = [[k EXCEPT !.ups = @ \ {u}] EXCEPT !.waiting = TRUE]
    OBVIOUS
  <2>1. /\ n.pc = "rel_up" /\ n.o = k.o /\ n.c = k.c /\ n.m = k.m /\ n.task = k.task /\ n.todo = k.todo
        /\ n.number = k.number /\ n.waiting
    BY <1>0, <1>1 DEF Whole, Fields
  <2> QED
    BY <1>3, <1>5, <2>1 DEF Loop
<1>6. ASSUME NEW u \in k.ups, Step(w, [[k EXCEPT !.ups = @ \ {u}] EXCEPT !.pc = "rel_refund", !.up = u])
      PROVE  Stays
  <2> PICK n : n = [[k EXCEPT !.ups = @ \ {u}] EXCEPT !.pc = "rel_refund", !.up = u]
    OBVIOUS
  <2>1. /\ n.pc = "rel_refund" /\ n.o = k.o /\ n.c = k.c /\ n.m = k.m /\ n.task = k.task /\ n.todo = k.todo
        /\ n.number = k.number /\ n.ups = k.ups \ {u} /\ n.waiting = k.waiting /\ n.up = u
    BY <1>0, <1>1 DEF Whole, Fields
  <2>2. \A x \in k.m.orders \ {k.o} : x \in n.ups \/ n.waiting \/ Closed(x) \/ x = n.up
    BY <1>2, <2>1
  <2> QED
    BY <1>3, <1>6, <2>1, <2>2 DEF Loop
<1>7. Step(w, Done(k)) => Stays
  BY <1>0, <1>1, DoneCalm, ToldHeld
<1>8. ASSUME k.ups = {}, ~k.waiting, Step(w, Go(k, "rel_fence2")) PROVE Stays
  <2> PICK n : n = Go(k, "rel_fence2")
    OBVIOUS
  <2>1. /\ n.pc = "rel_fence2" /\ n.o = k.o /\ n.c = k.c /\ n.m = k.m /\ n.task = k.task /\ n.todo = k.todo
        /\ n.number = k.number /\ n.ups = k.ups /\ n.waiting = k.waiting
    BY <1>1 DEF Go, Whole, Fields
  <2> QED
    BY <1>2, <1>3, <1>8, <2>1 DEF Loop
<1> QED
  BY <1>4, <1>5, <1>6, <1>7, <1>8 DEF RelUp

LEMMA RelRefundHeld ==
    ASSUME Moving, NEW w \in Workers, RelRefund(w)
    PROVE  Stays
<1> PICK k : k = wk[w]
  OBVIOUS
<1>0. k.pc \notin Bare /\ k.pc = "rel_refund" /\ UNCHANGED <<orders, members, numbers, deleted>>
  BY DEF RelRefund, At, Bare
<1>1. Inv /\ Whole(k) /\ Row(k) /\ Known(k) /\ k.up \in Orders /\ stripe \in [Orders -> StripeOrder]
  BY <1>0, Worker DEF Row, Inv, Tables
<1>2. \A o \in Orders : stripe'[o].void = stripe[o].void
  <2>1. ASSUME NEW r \in Taken(k.up), stripe' = [stripe EXCEPT ![k.up] = [WithRefund(@, r) EXCEPT !.upgrade = TRUE]]
        PROVE  \A o \in Orders : stripe'[o].void = stripe[o].void
    <3> PICK t : t = WithRefund(stripe[k.up], r)
      OBVIOUS
    <3>1. t \in StripeOrder /\ t.void = stripe[k.up].void
      BY <1>1, TakenStands, RefundShape
    <3>2. [t EXCEPT !.upgrade = TRUE].void = t.void
      BY <3>1 DEF StripeOrder
    <3> QED
      BY <1>1, <2>1, <3>1, <3>2
  <2> QED
    BY <2>1 DEF RelRefund
<1>3. ASSUME Step(w, Go(k, "rel_record")) PROVE Stays
  <2> PICK n : n = Go(k, "rel_record")
    OBVIOUS
  <2>1. /\ n.pc = "rel_record" /\ n.o = k.o /\ n.c = k.c /\ n.m = k.m /\ n.task = k.task /\ n.todo = k.todo
        /\ n.number = k.number /\ n.ups = k.ups /\ n.waiting = k.waiting /\ n.up = k.up
    BY <1>1 DEF Go, Whole, Fields
  <2>2. Watched(n)'
    BY <1>0, <1>1, <2>1 DEF Known, Watched, Closed, Loop
  <2>3. wk'[w] = n /\ Alone(w)
    BY <1>1, <1>3, StepAlone
  <2> QED
    BY <1>0, <1>2, <2>1, <2>2, <2>3, LoopHeld DEF Loop
<1>4. ASSUME Step(w, [k EXCEPT !.pc = "rel_up", !.up = Free, !.waiting = TRUE]) PROVE Stays
  <2> PICK n : n = [k EXCEPT !.pc = "rel_up", !.up = Free, !.waiting = TRUE]
    OBVIOUS
  <2>1. /\ n.pc = "rel_up" /\ n.o = k.o /\ n.c = k.c /\ n.m = k.m /\ n.task = k.task /\ n.todo = k.todo
        /\ n.number = k.number /\ n.waiting
    BY <1>1 DEF Whole, Fields
  <2>2. Watched(n)'
    BY <2>1 DEF Watched
  <2>3. wk'[w] = n /\ Alone(w)
    BY <1>1, <1>4, StepAlone
  <2> QED
    BY <1>0, <1>2, <2>1, <2>2, <2>3, LoopHeld DEF Loop
<1> QED
  BY <1>3, <1>4 DEF RelRefund

LEMMA RelRecordHeld ==
    ASSUME Moving, NEW w \in Workers, RelRecord(w)
    PROVE  Stays
<1> PICK k : k = wk[w]
  OBVIOUS
<1> PICK q : q = [k EXCEPT !.pc = "rel_up", !.up = Free]
  OBVIOUS
<1>0. k.pc \notin Bare /\ k.pc = "rel_record" /\ UNCHANGED <<members, numbers, deleted, stripe>>
  BY DEF RelRecord, At, Bare
<1>1. Inv /\ Whole(k) /\ Row(k) /\ Known(k) /\ k.up \in Orders /\ orders \in [Orders -> StoredOrder]
  BY <1>0, Worker DEF Row, Inv, Tables
<1>2. \/ Step(w, [q EXCEPT !.waiting = TRUE]) /\ UNCHANGED orders
      \/ /\ orders' = IF orders[k.up].state \in {"Refunded", "Voided"} THEN orders
                      ELSE [orders EXCEPT ![k.up] = AsRefunded(@)]
         /\ wk' = [v \in Workers |-> IF v = w THEN q ELSE Outdated(wk[v], k.up)]
  BY DEF RelRecord
<1>3. CASE Step(w, [q EXCEPT !.waiting = TRUE]) /\ UNCHANGED orders
  <2> PICK n : n = [q EXCEPT !.waiting = TRUE]
    OBVIOUS
  <2>1. /\ n.pc = "rel_up" /\ n.o = k.o /\ n.c = k.c /\ n.m = k.m /\ n.task = k.task /\ n.todo = k.todo
        /\ n.number = k.number /\ n.waiting
    BY <1>1 DEF Whole, Fields
  <2>2. Watched(n)'
    BY <2>1 DEF Watched
  <2>3. wk'[w] = n /\ Alone(w)
    BY <1>1, <1>3, StepAlone
  <2> QED
    BY <1>0, <1>3, <2>1, <2>2, <2>3, LoopHeld DEF Loop
<1>4. CASE /\ orders' = IF orders[k.up].state \in {"Refunded", "Voided"} THEN orders
                        ELSE [orders EXCEPT ![k.up] = AsRefunded(@)]
           /\ wk' = [v \in Workers |-> IF v = w THEN q ELSE Outdated(wk[v], k.up)]
  <2>1. wk'[w] = q /\ Alone(w)
    BY <1>4 DEF Alone, Same, Outdated
  <2>2. \A o \in Orders : orders'[o].linked = orders[o].linked /\ orders'[o].reason = orders[o].reason
    BY <1>1, <1>4, AsRefundedSame
  <2>3. /\ q.pc = "rel_up" /\ q.o = k.o /\ q.c = k.c /\ q.m = k.m /\ q.task = k.task /\ q.todo = k.todo
        /\ q.number = k.number /\ q.ups = k.ups /\ q.waiting = k.waiting
    BY <1>1 DEF Whole, Fields
  <2>4. orders'[k.up].state \in {"Refunded", "Voided"}
    BY <1>1, <1>4, AsRefundedState
  <2>5. \A x \in k.m.orders : x \in Orders /\ orders[x].intent
    BY <1>1 DEF Known, Row, Membership, CipherMembership, NoMember
  <2>6. k.up \in k.m.orders => Closed(k.up)'
    BY <1>1, <2>4, <2>5, MovingSays DEF Closed, Settled, View, Grows
  <2>7. \A x \in k.m.orders \ {k.o} : x \in k.ups \/ k.waiting \/ Closed(x) \/ x = k.up
    BY <1>0, <1>1 DEF Known, Watched, Loop
  <2>8. \A x \in k.m.orders \ {k.o} : x \in k.ups \/ k.waiting \/ Closed(x)'
    BY <2>5, <2>6, <2>7, MovingSays DEF Grows
  <2>9. Watched(q)'
    BY <2>3, <2>8 DEF Watched
  <2> QED
    BY <1>0, <2>1, <2>2, <2>3, <2>9, LoopHeld DEF Loop
<1> QED
  BY <1>2, <1>3, <1>4

\* The number is looked for on every row
LEMMA RelFreeHeld ==
    ASSUME Moving, NEW w \in Workers, RelFree(w)
    PROVE  Stays
<1> PICK k : k = wk[w]
  OBVIOUS
<1>0. k.pc \notin Bare /\ k.pc = "rel_free" /\ UNCHANGED <<orders, members, numbers, deleted, stripe>>
  BY DEF RelFree, At, Bare
<1>1. Inv /\ Whole(k) /\ Row(k) /\ Known(k) /\ k.number # 0
  BY <1>0, Worker DEF Routed, InRelease, RelCalls
<1>2. Step(w, Abort(k)) => Stays
  BY <1>0, <1>1, AbortCalm, ToldHeld
<1>3. ASSUME \A u \in Users : members[u].number # k.number, Step(w, Go(k, "rel_put")) PROVE Stays
  <2> PICK n : n = Go(k, "rel_put")
    OBVIOUS
  <2>1. /\ n.pc = "rel_put" /\ n.o = k.o /\ n.c = k.c /\ n.m = k.m /\ n.task = k.task /\ n.todo = k.todo
        /\ n.number = k.number
    BY <1>1 DEF Go, Whole, Fields
  <2>2. wk'[w] = n /\ Alone(w)
    BY <1>1, <1>3, StepAlone
  <2>3. LinksStill /\ VoidsStill /\ NumbersStill /\ crossed' = crossed /\ UNCHANGED course
    BY <1>0, NumbersSame, MovingSays DEF LinksStill, VoidsStill
  <2>4. Routed(n)
    BY <2>1 DEF Routed, InRelease, RelCalls, SyncCalls, ListCalls
  <2>5. Known(n)'
    BY <1>0, <1>1, <2>1, <2>3 DEF Known, Watched, Loop, Bare, Deleting, User
  <2>6. KnownInv(w)'
    BY <2>2, <2>4, <2>5 DEF KnownInv
  <2>7. ASSUME ~course.stalls PROVE ClaimInv(w)'
    <3>1. numbers[k.number].order = k.o /\ k.number \in Numbers /\ NumbersInv
      BY <1>0, <1>1, <2>7, Worker DEF Claims, Row, Numbers, Moving, Held, Rows
    <3>2. \A u \in Users : members[u] # NoMember => members[u].number \in Numbers
      BY <1>1 DEF Inv, Tables, Membership, CipherMembership
    <3>3. k.o # Free
      BY <1>0, Worker, CipherAssumption
    <3>4. Unheld(k.o)
      BY <1>3, <3>1, <3>2, <3>3 DEF Unheld, NumbersInv
    <3>5. Unheld(n.o)'
      BY <1>0, <2>1, <2>3, <3>4 DEF Unheld
    <3>6. Claims(n)'
      BY <1>0, <2>1, <3>1, <3>5 DEF Claims, Unsold, Voids
    <3> QED
      BY <2>2, <3>6 DEF ClaimInv
  <2> QED
    BY <1>0, <2>2, <2>3, <2>6, <2>7, PlainHeld
<1> QED
  BY <1>2, <1>3 DEF RelFree

-----------------------------------------------------------------------------
\* Workers without an order, and starts

LEMMA BareHeld ==
    ASSUME Moving, NEW w \in Workers, NEW n, n = wk'[w], Alone(w), n.pc \in Bare, n.pc = "create" => n.number = 0,
           n.m \in {wk[w].m, NoMember},
           n.pc \in Deleting \/ n.task = "delete" => User(n) \in course.delete,
           n.task = "delete" => \A x \in n.todo : Buyer[x] \in course.delete,
           UNCHANGED members, LinksStill, ~course.stalls => VoidsStill /\ NumbersStill
    PROVE  Stays
<1>1. Inv /\ Held /\ Grows /\ UNCHANGED course
  BY MovingSays
<1>2. Row(wk[w]) /\ Known(wk[w])
  BY <1>1, RowOf DEF Held, KnownInv
<1>3. wk[w].m.orders \subseteq Orders
  BY <1>2 DEF Row, Membership, CipherMembership, NoMember
<1>4. \A x \in n.m.orders : orders'[x].intent
  BY <1>1, <1>2, <1>3 DEF Known, Grows, NoMember
<1>5. n.pc \notin Loop /\ n.pc \notin {"del_read", "del_member"}
  BY DEF Bare, Loop
<1>6. Known(n)'
  BY <1>1, <1>4, <1>5 DEF Known, Watched, User
<1>7. Routed(n)
  BY DEF Routed, InRelease, RelCalls, SyncCalls, ListCalls, Bare
<1>8. KnownInv(w)' /\ ClaimInv(w)'
  BY <1>6, <1>7 DEF KnownInv, ClaimInv
<1> QED
  BY <1>8, PlainHeld

LEMMA StartHeld ==
    ASSUME Moving, NEW w \in Workers, NEW n, n = wk'[w], Alone(w), NEW o \in Orders,
           n.o = o, n.c = orders[o], n.m = NoMember, n.number = 0, Routed(n),
           n.pc \notin Bare \cup Loop \cup {"rel_put"} \cup (Unsold \ Voids), n.pc \in Voids => n.c.reason # "None",
           n.pc \in {"del_read", "del_member"} => ~n.c.linked \/ Buyer[o] \in course.delete,
           n.task = "delete" => Buyer[o] \in course.delete /\ \A x \in n.todo : Buyer[x] \in course.delete,
           UNCHANGED <<orders, members, numbers, deleted, stripe>>
    PROVE  Stays
<1>1. Inv /\ Held /\ Grows /\ UNCHANGED course /\ crossed' = crossed
  BY MovingSays
<1>2. /\ n.c.state \in {"Paid", "Fulfilled"} => n.c.intent
      /\ ~n.c.linked => Buyer[o] \in course.delete
  BY <1>1 DEF Held, Base, PaidInv, LinkInv
<1>3. Known(n)'
  BY <1>1, <1>2 DEF Known, Watched, User, NoMember, Bare, Deleting
<1>4. ASSUME ~course.stalls PROVE Claims(n)'
  <2>1. BoughtInv(o)
    BY <1>1, <1>4 DEF Held, Rows
  <2>2. n.pc \in Unsold => ~OnRow(o)
    BY <2>1 DEF BoughtInv
  <2>3. n.pc \in Unsold => ~OnRow(n.o)'
    BY <1>1, <2>2 DEF OnRow
  <2> QED
    BY <2>3 DEF Claims
<1>5. KnownInv(w)' /\ (~course.stalls => ClaimInv(w)')
  BY <1>3, <1>4 DEF KnownInv, ClaimInv
<1>6. LinksStill /\ VoidsStill /\ NumbersStill
  BY NumbersSame DEF LinksStill, VoidsStill
<1> QED
  BY <1>5, <1>6, PlainHeld

LEMMA HoldingSays ==
    ASSUME NEW o, NEW task, NEW h, h = Holding(o, task)
    PROVE  /\ Whole(h) /\ h.o = o /\ h.c = orders[o] /\ h.m = NoMember /\ h.number = 0 /\ h.task = task /\ h.todo = {}
BY DEF Holding, Idle, Whole, Fields

LEMMA TakeAlone ==
    ASSUME NEW w \in Workers, NEW o, NEW n, TakeLease(w, o, n)
    PROVE  wk'[w] = n /\ Alone(w)
BY DEF TakeLease, Alone, Same, Outdated

\* A start of something calm
LEMMA CalmStartHeld ==
    ASSUME Moving, NEW w \in Workers, NEW o \in Orders, NEW task, task # "delete", NEW h, NEW n,
           h.o = o, h.c = orders[o], h.m = NoMember, h.number = 0, h.task = task, Calm(h, n), Starts(w, o, n)
    PROVE  Stays
<1>1. wk'[w] = n /\ Alone(w)
  BY TakeAlone DEF Starts
<1>2. Routed(n) /\ n.pc \notin Bare \cup Loop \cup {"rel_put"} \cup (Unsold \ Voids)
  BY OffRouted DEF Calm, Off, Loop, RelCalls
<1>3. /\ n.o = o /\ n.c = orders[o] /\ n.m = NoMember /\ n.number = 0 /\ n.task # "delete"
      /\ n.pc \in Voids => n.c.reason # "None"
      /\ n.pc \in {"del_read", "del_member"} => ~n.c.linked
  BY DEF Calm, Slight, Off
<1>4. UNCHANGED <<orders, members, numbers, deleted, stripe>>
  BY DEF Starts
<1> QED
  BY <1>1, <1>2, <1>3, <1>4, StartHeld

LEMMA EventHeld ==
    ASSUME Moving, NEW w \in Workers, NEW o \in Orders, Event(w, o)
    PROVE  Stays
<1>1. ASSUME FulfilOrder(w, o) PROVE Stays
  <2> PICK h : h = Holding(o, "fulfil")
    OBVIOUS
  <2>1. Whole(h) /\ h.o = o /\ h.c = orders[o] /\ h.m = NoMember /\ h.number = 0 /\ h.task = "fulfil"
    BY HoldingSays
  <2>2. Calm(h, FulfilStart(h)) /\ Starts(w, o, FulfilStart(h))
    BY <1>1, <2>1, FulfilStartCalm DEF FulfilOrder
  <2> QED
    BY <2>1, <2>2, CalmStartHeld
<1>2. ASSUME ExpireOrder(w, o) PROVE Stays
  <2> PICK h : h = Holding(o, "expire")
    OBVIOUS
  <2>1. Whole(h) /\ h.o = o /\ h.c = orders[o] /\ h.m = NoMember /\ h.number = 0 /\ h.task = "expire"
    BY HoldingSays
  <2>2. "expire" \notin Rough /\ "release" \notin Rough
    BY DEF Rough, RelCalls, Unsold, Voids, SyncCalls, ListCalls, Bare
  <2>3. PICK pc \in {"expire", "release"} : Starts(w, o, Go(h, pc))
    BY <1>2 DEF ExpireOrder
  <2>4. Calm(h, Go(h, pc))
    BY <2>1, <2>2, GoCalm
  <2> QED
    BY <2>1, <2>3, <2>4, CalmStartHeld
<1>3. ASSUME ReverseDispute(w, o) PROVE Stays
  <2> PICK h : h = Holding(o, "dispute")
    OBVIOUS
  <2>1. Whole(h) /\ h.o = o /\ h.c = orders[o] /\ h.m = NoMember /\ h.number = 0 /\ h.task = "dispute"
    BY HoldingSays
  <2>2. PICK d : Starts(w, o, [h EXCEPT !.pc = "dispute_read", !.todo = {d}])
    BY <1>3 DEF ReverseDispute
  <2> PICK n : n = [h EXCEPT !.pc = "dispute_read", !.todo = {d}]
    OBVIOUS
  <2>3. n.pc = "dispute_read" /\ Slight(h, n)
    BY <2>1 DEF Whole, Fields, Slight
  <2>4. "dispute_read" \notin Rough
    BY DEF Rough, RelCalls, Unsold, Voids, SyncCalls, ListCalls, Bare
  <2>5. Calm(h, n)
    BY <2>3, <2>4, PlainCalm
  <2> QED
    BY <2>1, <2>2, <2>5, CalmStartHeld
<1>4. ASSUME RefundOrder(w, o) PROVE Stays
  <2> PICK h : h = Holding(o, "refund")
    OBVIOUS
  <2>1. Whole(h) /\ h.o = o /\ h.c = orders[o] /\ h.m = NoMember /\ h.number = 0 /\ h.task = "refund"
    BY HoldingSays
  <2> PICK n : n = ReverseStart(h, "Refund", {}, RefundedInFull(o))
    OBVIOUS
  <2>2. Calm(h, n) /\ Starts(w, o, n)
    BY <1>4, <2>1, ReverseStartCalm DEF RefundOrder
  <2> QED
    BY <2>1, <2>2, CalmStartHeld
<1> QED
  BY <1>1, <1>2, <1>3, <1>4 DEF Event

LEMMA SweepHeld ==
    ASSUME Moving, NEW w \in Workers, NEW o \in Orders, Sweep(w, o)
    PROVE  Stays
<1>1. ASSUME ResumeOrder(w, o) PROVE Stays
  <2> PICK h : h = Holding(o, "resume")
    OBVIOUS
  <2>1. Whole(h) /\ h.o = o /\ h.c = orders[o] /\ h.m = NoMember /\ h.number = 0 /\ h.task = "resume"
    BY HoldingSays
  <2>2. Calm(h, ResumeStart(h)) /\ Starts(w, o, ResumeStart(h))
    BY <1>1, <2>1, ResumeStartCalm DEF ResumeOrder
  <2> QED
    BY <2>1, <2>2, CalmStartHeld
<1>2. ASSUME RecheckDisputes(w, o) PROVE Stays
  <2> PICK h : h = Holding(o, "recheck")
    OBVIOUS
  <2>1. Whole(h) /\ h.o = o /\ h.c = orders[o] /\ h.m = NoMember /\ h.number = 0 /\ h.task = "recheck"
    BY HoldingSays
  <2>2. Calm(h, RecheckStart(h)) /\ Starts(w, o, RecheckStart(h))
    BY <1>2, <2>1, RecheckStartCalm DEF RecheckDisputes
  <2> QED
    BY <2>1, <2>2, CalmStartHeld
<1>3. ASSUME ApplyPending(w, o) PROVE Stays
  <2> PICK h : h = Holding(o, "pending")
    OBVIOUS
  <2>1. Whole(h) /\ h.o = o /\ h.c = orders[o] /\ h.m = NoMember /\ h.number = 0 /\ h.task = "pending"
    BY HoldingSays
  <2> PICK n : n = ReverseStart(h, orders[o].pending, {}, FALSE)
    OBVIOUS
  <2>2. Calm(h, n) /\ Starts(w, o, n)
    BY <1>3, <2>1, ReverseStartCalm DEF ApplyPending
  <2> QED
    BY <2>1, <2>2, CalmStartHeld
<1>4. ASSUME FinishNumberRelease(w, o) PROVE Stays
  <2> PICK h : h = Holding(o, "release")
    OBVIOUS
  <2>1. Whole(h) /\ h.o = o /\ h.c = orders[o] /\ h.m = NoMember /\ h.number = 0 /\ h.task = "release"
    BY HoldingSays
  <2>2. "rel_check" \notin Rough
    BY DEF Rough, RelCalls, Unsold, Voids, SyncCalls, ListCalls, Bare
  <2>3. Calm(h, Go(h, "rel_check")) /\ Starts(w, o, Go(h, "rel_check"))
    BY <1>4, <2>1, <2>2, GoCalm DEF FinishNumberRelease
  <2> QED
    BY <2>1, <2>3, CalmStartHeld
<1> QED
  BY <1>1, <1>2, <1>3, <1>4 DEF Sweep

LEMMA IdleSays == Idle.pc = "idle" /\ Idle.task = "none" /\ Idle.m = NoMember /\ Idle.number = 0 /\ DOMAIN Idle = Fields
BY DEF Idle, Fields

LEMMA IdleHeld ==
    ASSUME Moving, NEW w \in Workers, Step(w, Idle),
           UNCHANGED members, LinksStill, ~course.stalls => VoidsStill /\ NumbersStill
    PROVE  Stays
<1>1. wk'[w] = Idle /\ Alone(w)
  BY MovingSays, StepAlone
<1> QED
  BY <1>1, IdleSays, BareHeld DEF Bare, Deleting

LEMMA StillSays ==
    ASSUME UNCHANGED <<orders, numbers, deleted, stripe>>
    PROVE  LinksStill /\ VoidsStill /\ NumbersStill
BY DEF LinksStill, VoidsStill, NumbersStill

LEMMA CrashHeld ==
    ASSUME Moving, NEW w \in Workers, Crash(w)
    PROVE  Stays
BY IdleHeld, StillSays DEF Crash

LEMMA FailHeld ==
    ASSUME Moving, NEW w \in Workers, Fail(w)
    PROVE  Stays
<1>1. Inv /\ UNCHANGED <<orders, members, numbers, deleted, stripe>>
  BY DEF Fail, Moving
<1>2. CASE wk[w].c = AbsentOrder
  BY <1>1, <1>2, IdleHeld, StillSays DEF Fail
<1>3. CASE wk[w].c # AbsentOrder
  <2>1. wk[w].pc \notin Bare
    BY <1>1, <1>3 DEF Inv, WorkInv, Fine
  <2>2. Calm(wk[w], Abort(wk[w]))
    BY <2>1, Worker, AbortCalm
  <2> QED
    BY <1>1, <1>3, <2>1, <2>2, ToldHeld DEF Fail
<1> QED
  BY <1>2, <1>3

LEMMA ReleaseHeld ==
    ASSUME Moving, NEW w \in Workers, Release(w)
    PROVE  Stays
<1> PICK k : k = wk[w]
  OBVIOUS
<1>0. k.pc \notin Bare /\ UNCHANGED <<orders, members, numbers, deleted, stripe>>
  BY DEF Release, At, Bare
<1>1. CASE k.task # "delete"
  BY <1>0, <1>1, IdleHeld, StillSays DEF Release
<1>2. CASE k.task = "delete"
  <2> PICK n : n = [Idle EXCEPT !.pc = "account", !.task = "delete", !.o = k.o, !.todo = k.todo]
    OBVIOUS
  <2>1. n.pc = "account" /\ n.task = "delete" /\ n.o = k.o /\ n.todo = k.todo /\ n.m = NoMember
    BY IdleSays DEF Fields
  <2>2. wk'[w] = n /\ Alone(w)
    BY <1>2, MovingSays, StepAlone DEF Release
  <2>3. Known(k)
    BY <1>0, Worker
  <2>4. User(n) \in course.delete /\ \A x \in n.todo : Buyer[x] \in course.delete
    BY <1>2, <2>1, <2>3 DEF Known, User
  <2> QED
    BY <1>0, <2>1, <2>2, <2>4, StillSays, BareHeld DEF Bare
<1> QED
  BY <1>1, <1>2

LEMMA CheckoutHeld ==
    ASSUME Moving, NEW w \in Workers, NEW o \in Orders, Checkout(w, o)
    PROVE  Stays
<1> PICK n : n = [Idle EXCEPT !.pc = "create", !.task = "checkout", !.o = o]
  OBVIOUS
<1>1. n.pc = "create" /\ n.task = "checkout" /\ n.m = NoMember /\ n.number = 0
  BY IdleSays DEF Fields
<1>2. wk'[w] = n /\ Alone(w)
  BY MovingSays, StepAlone DEF Checkout
<1>3. UNCHANGED <<orders, members, numbers, deleted, stripe>>
  BY DEF Checkout
<1> QED
  BY <1>1, <1>2, <1>3, StillSays, BareHeld DEF Bare, Deleting

LEMMA DeleteAccountHeld ==
    ASSUME Moving, NEW w \in Workers, NEW u \in Users, DeleteAccount(w, u)
    PROVE  Stays
<1> PICK x : x = CHOOSE o \in Orders : Buyer[o] = u
  OBVIOUS
<1> PICK n : n = [Idle EXCEPT !.pc = "account", !.task = "delete", !.o = x, !.todo = OpenOrders(u)]
  OBVIOUS
<1>0. u \in course.delete /\ Step(w, n) /\ UNCHANGED <<orders, members, numbers, deleted, stripe>>
  BY DEF DeleteAccount
<1>1. n.pc = "account" /\ n.task = "delete" /\ n.o = x /\ n.todo = OpenOrders(u) /\ n.m = NoMember
  BY IdleSays DEF Fields
<1>2. wk'[w] = n /\ Alone(w)
  BY <1>0, MovingSays, StepAlone
<1>3. course \in Courses
  BY DEF Moving, Inv, Tables
<1>4. \E o \in Orders : Buyer[o] = u
  BY <1>0, <1>3, CoursesAssumption
<1>5. User(n) = u
  BY <1>1, <1>4 DEF User
<1>6. \A o \in n.todo : Buyer[o] \in course.delete
  BY <1>0, <1>1 DEF OpenOrders
<1> QED
  BY <1>0, <1>1, <1>2, <1>5, <1>6, StillSays, BareHeld DEF Bare

LEMMA DeleteNextHeld ==
    ASSUME Moving, NEW w \in Workers, DeleteNext(w)
    PROVE  Stays
<1> PICK k : k = wk[w]
  OBVIOUS
<1>0. k.pc = "account" /\ UNCHANGED <<orders, members, numbers, deleted, stripe>>
  BY DEF DeleteNext, At
<1>1. Inv /\ Row(k) /\ Known(k) /\ k.task = "delete"
  BY <1>0, RowOf DEF Moving, Held, KnownInv, Inv, WorkInv, Fine, Bare, Deleting
<1>2. User(k) \in course.delete /\ \A x \in k.todo : x \in Orders /\ Buyer[x] \in course.delete
  BY <1>1 DEF Known, Row
<1>3. PICK o \in k.todo :
        \/ TakeLease(w, o, VoidForDeletion([Holding(o, "delete") EXCEPT !.todo = k.todo \ {o}]))
        \/ Step(w, [k EXCEPT !.todo = k.todo \ {o}])
  BY DEF DeleteNext
<1>4. CASE TakeLease(w, o, VoidForDeletion([Holding(o, "delete") EXCEPT !.todo = k.todo \ {o}]))
  <2> PICK h : h = [Holding(o, "delete") EXCEPT !.todo = k.todo \ {o}]
    OBVIOUS
  <2>1. /\ Whole(h) /\ h.o = o /\ h.c = orders[o] /\ h.m = NoMember /\ h.number = 0 /\ h.task = "delete"
        /\ h.todo = k.todo \ {o}
    BY HoldingSays DEF Whole, Fields
  <2> PICK n : n = VoidForDeletion(h)
    OBVIOUS
  <2>2. n \in {Go(h, "del_read"), Go(h, "void_unpaid"), Go(h, "release")}
    BY DEF VoidForDeletion, VoidDeleted, Stop
  <2>3. /\ n.pc \in {"del_read", "void_unpaid", "release"} /\ n.o = o /\ n.c = orders[o] /\ n.m = NoMember
        /\ n.number = 0 /\ n.todo = k.todo \ {o}
    <3>1. ASSUME NEW pc \in {"del_read", "void_unpaid", "release"}, n = Go(h, pc)
          PROVE  n.pc = pc /\ n.o = h.o /\ n.c = h.c /\ n.m = h.m /\ n.number = h.number /\ n.todo = h.todo
      BY <2>1, <3>1 DEF Go, Whole, Fields
    <3> QED
      BY <2>1, <2>2, <3>1
  <2>4. wk'[w] = n /\ Alone(w)
    BY <1>4, TakeAlone
  <2>5. Routed(n)
    BY <2>3 DEF Routed, InRelease, RelCalls, SyncCalls, ListCalls
  <2>6. n.pc \notin Bare \cup Loop \cup {"rel_put"} \cup Unsold
    BY <2>3 DEF Bare, Loop, Unsold, Voids
  <2>7. n.pc \notin Voids
    BY <2>6 DEF Unsold
  <2>8. o \in Orders /\ Buyer[o] \in course.delete /\ \A x \in n.todo : Buyer[x] \in course.delete
    BY <1>2, <1>3, <2>3
  <2> QED
    BY <1>0, <2>3, <2>4, <2>5, <2>6, <2>7, <2>8, StartHeld
<1>5. CASE Step(w, [k EXCEPT !.todo = k.todo \ {o}])
  <2> PICK n : n = [k EXCEPT !.todo = k.todo \ {o}]
    OBVIOUS
  <2>1. n.pc = "account" /\ n.o = k.o /\ n.m = k.m /\ n.todo = k.todo \ {o}
    BY <1>0, <1>1 DEF Row, Fields
  <2>2. wk'[w] = n /\ Alone(w)
    BY <1>1, <1>5, StepAlone
  <2>3. User(n) \in course.delete /\ \A x \in n.todo : Buyer[x] \in course.delete
    BY <1>2, <2>1 DEF User
  <2> QED
    BY <1>0, <2>1, <2>2, <2>3, StillSays, BareHeld DEF Bare
<1> QED
  BY <1>3, <1>4, <1>5

LEMMA UnlinkOrdersHeld ==
    ASSUME Moving, NEW w \in Workers, UnlinkOrders(w)
    PROVE  Stays
<1> PICK k : k = wk[w]
  OBVIOUS
<1> PICK mine : mine = {o \in Orders : Buyer[o] = User(k) /\ orders[o].linked /\ orders[o].state # "Absent"}
  OBVIOUS
<1>0. /\ k.pc = "account" /\ UNCHANGED <<members, numbers, deleted, stripe>>
      /\ orders' = [o \in Orders |-> IF o \in mine THEN [orders[o] EXCEPT !.linked = FALSE] ELSE orders[o]]
      /\ wk' = [v \in Workers |-> IF v = w THEN Go(k, "del_row")
                                  ELSE IF wk[v].o \in mine THEN [wk[v] EXCEPT !.mine = FALSE] ELSE wk[v]]
  BY DEF UnlinkOrders, At
<1>1. Inv /\ Row(k) /\ Known(k) /\ orders \in [Orders -> StoredOrder]
  BY RowOf DEF Moving, Held, KnownInv, Inv, Tables
<1>2. User(k) \in course.delete
  BY <1>0, <1>1 DEF Known, Deleting
<1> PICK n : n = Go(k, "del_row")
  OBVIOUS
<1>3. wk'[w] = n /\ Alone(w)
  BY <1>0 DEF Alone, Same
<1>4. n.pc = "del_row" /\ n.o = k.o /\ n.m = k.m /\ n.todo = k.todo /\ n.task = k.task
  BY <1>1 DEF Go, Row, Fields
<1>5. LinksStill
  BY <1>0, <1>2 DEF LinksStill
<1>6. VoidsStill /\ NumbersStill
  BY <1>0, <1>1, NumbersSame DEF VoidsStill, StoredOrder
<1>7. User(n) \in course.delete /\ (n.task = "delete" => \A x \in n.todo : Buyer[x] \in course.delete)
  BY <1>1, <1>2, <1>4 DEF Known, User
<1> QED
  BY <1>0, <1>3, <1>4, <1>5, <1>6, <1>7, BareHeld DEF Bare

LEMMA DeleteUserHeld ==
    ASSUME Moving, NEW w \in Workers, DeleteUser(w)
    PROVE  Stays
<1> PICK k : k = wk[w]
  OBVIOUS
<1>0. k.pc = "del_user" /\ UNCHANGED <<orders, members, numbers, stripe>> /\ deleted' = deleted \cup {User(k)} /\ Step(w, Idle)
  BY DEF DeleteUser, At
<1>1. User(k) \in course.delete
  BY <1>0 DEF Moving, Held, KnownInv, Known, Deleting
<1>2. LinksStill /\ VoidsStill /\ NumbersStill
  BY <1>0, <1>1, NumbersSame DEF LinksStill, VoidsStill
<1> QED
  BY <1>0, <1>2, IdleHeld

LEMMA CreateHeld ==
    ASSUME Moving, NEW w \in Workers, Create(w)
    PROVE  Stays
<1> PICK k : k = wk[w]
  OBVIOUS
<1> PICK c : c = [AbsentOrder EXCEPT !.state = "Creating"]
  OBVIOUS
<1> PICK n : n = [k EXCEPT !.pc = "session", !.c = c, !.mine = TRUE]
  OBVIOUS
<1>0. k.pc = "create" /\ UNCHANGED <<members, numbers, deleted, stripe>> /\ orders' = [orders EXCEPT ![k.o] = c] /\ Step(w, n)
  BY DEF Create, At
<1>1. Inv /\ Row(k) /\ Known(k) /\ Routed(k) /\ orders \in [Orders -> StoredOrder] /\ WorkInv(w)
  BY RowOf DEF Moving, Held, KnownInv, Inv, Tables
<1>2. k.o \in Orders /\ orders[k.o].state = "Absent" /\ k.number = 0
  BY <1>0, <1>1 DEF WorkInv, Fine, CreateInv, Bare, Routed
<1>3. ~orders[k.o].intent
  BY <1>1, <1>2 DEF Inv, OrderInv, Sound
<1>4. ~Holds(members[Buyer[k.o]], k.o)
  BY <1>2, <1>3, CipherAssumption DEF Holds, Moving, Held, Base, IntentInv
<1>5. wk'[w] = n /\ Alone(w)
  BY <1>0, <1>1, StepAlone
<1>6. /\ n.pc = "session" /\ n.o = k.o /\ n.c = c /\ n.m = k.m /\ n.number = 0 /\ n.todo = k.todo /\ n.task = k.task
  BY <1>1, <1>2 DEF Row, Fields
<1>7. c.linked /\ c.state = "Creating" /\ ~c.intent
  BY DEF AbsentOrder
<1>8. orders'[k.o] = c /\ \A o \in Orders \ {k.o} : orders'[o] = orders[o]
  BY <1>0, <1>1, <1>2
<1>9. LinksStill
  BY <1>0, <1>1, <1>2, <1>7, <1>8 DEF LinksStill, StoredOrder, Moving, Held, Base, LinkInv
<1>10. VoidsStill /\ NumbersStill
  BY <1>0, <1>4, <1>8, NumbersSame DEF VoidsStill, OnRow
<1>11. Grows /\ UNCHANGED course
  BY MovingSays
<1>12. \A x \in n.m.orders : orders'[x].intent
  BY <1>1, <1>6, <1>11 DEF Known, Grows, Row, Membership, CipherMembership, NoMember
<1>13. Known(n)'
  BY <1>1, <1>6, <1>7, <1>11, <1>12 DEF Known, Watched, User, Loop, Deleting
<1>14. Routed(n)
  BY <1>6 DEF Routed, InRelease, RelCalls, SyncCalls, ListCalls
<1>15. Claims(n)'
  BY <1>6 DEF Claims, Unsold, Voids
<1>16. KnownInv(w)' /\ ClaimInv(w)'
  BY <1>5, <1>13, <1>14, <1>15 DEF KnownInv, ClaimInv
<1> QED
  BY <1>0, <1>5, <1>9, <1>10, <1>16, PlainHeld

LEMMA StartSessionStepHeld ==
    ASSUME Moving, NEW w \in Workers, StartSessionStep(w)
    PROVE  Stays
<1> PICK k : k = wk[w]
  OBVIOUS
<1>0. k.pc \notin Bare /\ UNCHANGED <<members, numbers, deleted>>
  BY DEF StartSessionStep, At, Bare
<1>1. Inv /\ Whole(k) /\ k.o \in Orders /\ k.c \in StoredOrder /\ stripe \in [Orders -> StripeOrder] /\ WorkInv(w)
      /\ orders \in [Orders -> StoredOrder]
  BY <1>0, Worker DEF Inv, Tables
<1>2. PICK state \in {"Pending", "SessionFailed"} :
        /\ Write(w, [k.c EXCEPT !.state = state], Stop(k))
        /\ IF k.mine THEN stripe' = [stripe EXCEPT ![k.o].session = "open"] \/ UNCHANGED stripe ELSE UNCHANGED stripe
  BY DEF StartSessionStep
<1> PICK x : x = [k.c EXCEPT !.state = state]
  OBVIOUS
<1>3. x.linked = k.c.linked /\ x.reason = k.c.reason
  BY <1>1 DEF StoredOrder
<1>4. CASE ~k.mine
  <2>1. Step(w, Abort(k)) /\ UNCHANGED <<orders, members, numbers, deleted, stripe>>
    BY <1>0, <1>2, <1>4 DEF Write, WriteOr
  <2> QED
    BY <1>0, <1>1, <2>1, AbortCalm, ToldHeld
<1>5. CASE k.mine
  <2> PICK n : n = [Stop(k) EXCEPT !.c = x]
    OBVIOUS
  <2>1. orders' = [orders EXCEPT ![k.o] = x] /\ Step(w, n)
    BY <1>2, <1>5 DEF Write, WriteOr
  <2>2. wk'[w] = n /\ Alone(w)
    BY <1>1, <2>1, StepAlone
  <2>3. orders[k.o] = k.c /\ orders'[k.o] = x /\ \A o \in Orders \ {k.o} : orders'[o] = orders[o]
    BY <1>1, <1>5, <2>1 DEF WorkInv, MineInv
  <2>4. \A o \in Orders : stripe'[o].void = stripe[o].void
    BY <1>1, <1>2 DEF StripeOrder
  <2>5. LinksStill /\ VoidsStill /\ NumbersStill
    BY <1>0, <1>3, <2>3, <2>4, NumbersSame DEF LinksStill, VoidsStill
  <2>6. n.pc = "release" /\ n.o = k.o /\ n.c = x /\ n.m = k.m /\ n.task = k.task /\ n.todo = k.todo /\ n.number = k.number
    BY <1>1 DEF Stop, Go, Whole, Fields
  <2>7. Routed(n)
    BY <2>6 DEF Routed, InRelease, RelCalls, SyncCalls, ListCalls
  <2>8. Sure(k, n) /\ Reads(k, n) /\ Watched(n)' /\ n.c = orders'[n.o]
    BY <2>3, <2>6, <2>7 DEF Sure, Reads, Watched, Loop, Bare, Unsold, Voids
  <2> QED
    BY <1>0, <2>2, <2>5, <2>8, GoesHeld
<1> QED
  BY <1>4, <1>5

\* Nobody of the server moves
LEMMA AsideHeld ==
    ASSUME Moving, UNCHANGED <<orders, members, numbers, deleted, wk>>,
           \A o \in Orders : stripe'[o].void = stripe[o].void
    PROVE  Stays
<1>1. Alone(Free) /\ Free \notin Workers
  BY CipherAssumption DEF Alone, Same
<1>2. LinksStill /\ VoidsStill /\ NumbersStill
  BY NumbersSame DEF LinksStill, VoidsStill
<1> QED
  BY <1>1, <1>2, PlainHeld

LEMMA LeaseRunsOutHeld ==
    ASSUME Moving, NEW o \in Orders, LeaseRunsOut(o, course.stalls)
    PROVE  Stays
BY AsideHeld DEF LeaseRunsOut

LEMMA ProviderHeld ==
    ASSUME Moving, NEW o \in Orders, Provider(o)
    PROVE  Stays
<1>1. stripe \in [Orders -> StripeOrder]
  BY DEF Moving, Inv, Tables
<1>2. stripe[o] \in StripeOrder
  BY <1>1
<1>3. PICK s : Money(o, s) /\ s.void = stripe[o].void
  <2>1. CASE Pay(o)
    BY <1>2, <2>1 DEF Pay, StripeOrder
  <2>2. CASE SessionExpires(o)
    BY <1>2, <2>2 DEF SessionExpires, StripeOrder
  <2>3. CASE DisputeMoves(o)
    BY <1>2, <2>3 DEF DisputeMoves, StripeOrder
  <2>4. CASE OwnerRefunds(o)
    <3>1. CASE Money(o, [stripe[o] EXCEPT !.partial = TRUE])
      BY <1>2, <3>1 DEF StripeOrder
    <3>2. CASE \E r \in Taken(o) : Money(o, WithRefund(stripe[o], r))
      BY <1>2, <3>2, TakenStands, RefundShape
    <3> QED
      BY <2>4, <3>1, <3>2 DEF OwnerRefunds
  <2>5. CASE RefundSettles(o)
    BY <1>2, <2>5, RefundShape DEF RefundSettles
  <2> QED
    BY <2>1, <2>2, <2>3, <2>4, <2>5 DEF Provider
<1>4. \A x \in Orders : stripe'[x].void = stripe[x].void
  BY <1>1, <1>3 DEF Money
<1> QED
  BY <1>3, <1>4, AsideHeld DEF Money

-----------------------------------------------------------------------------
\* A row is written

\* The row a worker with the record k writes for u keeps u's number, or has the worker's own;
\* its orders were on the row, but for the worker's
Kept(u, row) ==
    members[u] # NoMember /\ row.number = members[u].number /\ numbers[row.number].order \in row.orders
Own(k, row) == k.number # 0 /\ row.number = k.number /\ k.o \in row.orders
Bought(k, x) == x = k.o /\ orders[x].reason = "None" /\ ~stripe[x].void
Suits(k, u, row) ==
    /\ row # NoMember => Kept(u, row) \/ (k.pc \notin Bare /\ Own(k, row))
    /\ \A x \in row.orders : x \in members[u].orders \/ (k.pc \notin Bare /\ Bought(k, x))

\* What the row goes with
Closing(u) == \A o \in members[u].orders : ~IsNew(o) => orders[o].state \in {"Refunded", "Voided"}

\* Two workers at work have different orders
LEMMA OrdersApart ==
    ASSUME Inv, ~course.stalls, NEW w \in Workers, NEW v \in Workers, v # w, wk[w].pc \notin Bare, wk[v].pc \notin Bare
    PROVE  wk[v].o # wk[w].o
<1>1. Tied(v) /\ Tied(w)
  BY DEF Inv, WorkInv
<1>2. lease[wk[v].o] = v /\ lease[wk[w].o] = w
  BY <1>1 DEF Tied
<1> QED
  BY <1>2

LEMMA RowRows ==
    ASSUME Moving, ~course.stalls, NEW w \in Workers, NEW u \in Users, NEW row,
           members' = [members EXCEPT ![u] = row], UNCHANGED <<orders, numbers, stripe>>,
           u \notin crossed' => Suits(wk[w], u, row)
    PROVE  Rows'
<1> PICK k : k = wk[w]
  OBVIOUS
<1>1. Inv /\ Inv' /\ Held /\ UNCHANGED course /\ crossed \subseteq crossed'
  BY MovingSays
<1>2. members \in [Users -> Membership]
  BY <1>1 DEF Inv, Tables
<1>3. Rows /\ (k.pc \notin Bare => Claims(k))
  BY <1>1 DEF Held, ClaimInv
<1>4. members'[u] = row /\ \A v \in Users \ {u} : members'[v] = members[v]
  BY <1>2
<1>5. NumbersInv'
  BY <1>3 DEF Rows, NumbersInv
<1>6. ASSUME NEW v \in Users PROVE HeldInv(v)'
  <2>1. CASE v # u
    BY <1>1, <1>3, <1>4, <2>1 DEF HeldInv, Rows
  <2>2. CASE v = u
    <3>1. SUFFICES ASSUME u \notin crossed', row # NoMember PROVE numbers'[row.number].order \in row.orders
      BY <1>4, <2>2 DEF HeldInv
    <3>2. CASE Kept(u, row)
      BY <3>2 DEF Kept
    <3>3. CASE k.pc \notin Bare /\ Own(k, row)
      BY <1>3, <3>3 DEF Own, Claims
    <3> QED
      BY <3>1, <3>2, <3>3 DEF Suits
  <2> QED
    BY <2>1, <2>2
<1>7. ASSUME NEW o \in Orders PROVE BoughtInv(o)'
  <2>0. Buyer[o] \in Users
    BY CipherAssumption
  <2>1. CASE Buyer[o] # u
    <3>1. OnRow(o)' => OnRow(o)
      BY <1>1, <1>4, <2>0, <2>1 DEF OnRow
    <3> QED
      BY <1>3, <3>1 DEF BoughtInv, Rows
  <2>2. CASE Buyer[o] = u
    <3>1. SUFFICES ASSUME u \notin crossed', Holds(row, o) PROVE orders'[o].reason = "None" /\ ~stripe'[o].void
      BY <1>4, <2>2 DEF BoughtInv, OnRow
    <3>2. CASE o \in members[u].orders
      <4>1. members[u] # NoMember
        BY <3>2 DEF NoMember
      <4>2. OnRow(o)
        BY <1>1, <2>2, <3>1, <3>2, <4>1 DEF OnRow, Holds
      <4> QED
        BY <1>3, <4>2 DEF BoughtInv, Rows
    <3>3. CASE Bought(k, o)
      BY <3>3 DEF Bought
    <3> QED
      BY <3>1, <3>2, <3>3 DEF Suits, Holds
  <2> QED
    BY <2>1, <2>2
<1> QED
  BY <1>5, <1>6, <1>7 DEF Rows

LEMMA RowOthers ==
    ASSUME Moving, ~course.stalls, NEW w \in Workers, NEW u \in Users, NEW row, Alone(w),
           members' = [members EXCEPT ![u] = row], UNCHANGED <<orders, numbers, stripe>>,
           u \notin crossed' => Suits(wk[w], u, row), NEW v \in Workers, v # w
    PROVE  ClaimInv(v)'
<1> PICK k : k = wk[w]
  OBVIOUS
<1> PICK o : o = wk[v].o
  OBVIOUS
<1>1. Inv /\ Inv' /\ Held /\ UNCHANGED course /\ crossed \subseteq crossed'
  BY MovingSays
<1>2. members \in [Users -> Membership]
  BY <1>1 DEF Inv, Tables
<1>3. Rows /\ (k.pc \notin Bare => Claims(k))
  BY <1>1 DEF Held, ClaimInv
<1>4. members'[u] = row /\ \A x \in Users \ {u} : members'[x] = members[x]
  BY <1>2
<1>5. Same(wk[v], wk'[v]) /\ Row(wk[v])
  BY <1>1, RowOf DEF Alone
<1>6. wk'[v].o = o /\ wk'[v].pc = wk[v].pc
  BY <1>5, SameSays
<1>7. CASE wk[v].pc \in Bare
  BY <1>6, <1>7 DEF ClaimInv
<1>8. CASE wk[v].pc \notin Bare
  <2>1. k.pc \notin Bare => k.o # o
    BY <1>1, <1>8, OrdersApart
  <2>2. o \in Orders /\ Buyer[o] \in Users
    BY <1>1, <1>8, AtWork, CipherAssumption
  <2>3. OnRow(o)' => OnRow(o)
    <3>1. CASE Buyer[o] # u
      BY <1>1, <1>4, <2>2, <3>1 DEF OnRow
    <3>2. CASE Buyer[o] = u
      <4>1. SUFFICES ASSUME u \notin crossed', Holds(row, o) PROVE OnRow(o)
        BY <1>4, <3>2 DEF OnRow
      <4>2. o \in members[u].orders
        BY <2>1, <4>1 DEF Suits, Bought, Holds
      <4>3. members[u] # NoMember
        BY <4>2 DEF NoMember
      <4> QED
        BY <1>1, <3>2, <4>1, <4>2, <4>3 DEF OnRow, Holds
    <3> QED
      BY <3>1, <3>2
  <2>4. Unheld(o) => Unheld(o)'
    <3>1. SUFFICES ASSUME Unheld(o), NEW x \in Users, x \notin crossed', members'[x] # NoMember
                   PROVE  numbers'[members'[x].number].order # o
      BY DEF Unheld
    <3>2. CASE x # u
      BY <1>1, <1>4, <3>1, <3>2 DEF Unheld
    <3>3. CASE x = u
      <4>1. CASE Kept(u, row)
        BY <1>1, <1>4, <3>1, <3>3, <4>1 DEF Kept, Unheld
      <4>2. CASE k.pc \notin Bare /\ Own(k, row)
        BY <1>3, <1>4, <2>1, <3>3, <4>2 DEF Own, Claims
      <4> QED
        BY <1>4, <3>1, <3>3, <4>1, <4>2 DEF Suits
    <3> QED
      BY <3>2, <3>3
  <2>5. OnRow(wk[v].o)' => OnRow(wk[v].o)
    BY <1>6, <2>3
  <2>6. Unheld(wk[v].o) => Unheld(wk[v].o)'
    BY <1>6, <2>4
  <2> QED
    BY <1>5, <2>5, <2>6, OtherClaims
<1> QED
  BY <1>7, <1>8

LEMMA RowHeld ==
    ASSUME Moving, NEW w \in Workers, NEW u \in Users, NEW row, Alone(w),
           members' = [members EXCEPT ![u] = row], UNCHANGED <<orders, numbers, deleted, stripe>>,
           \A x \in row.orders : orders[x].intent, KnownInv(w)',
           ~course.stalls /\ u \notin crossed' => Suits(wk[w], u, row),
           ~course.stalls /\ Rows' => ClaimInv(w)',
           row = NoMember => u \in course.delete \cup crossed' \/ Closing(u)
    PROVE  Stays
<1>1. Inv /\ Inv' /\ Held /\ PaidInv' /\ UNCHANGED course
  BY MovingSays
<1>2. members \in [Users -> Membership]
  BY <1>1 DEF Inv, Tables
<1>3. members'[u] = row /\ \A v \in Users \ {u} : members'[v] = members[v]
  BY <1>2
<1>4. LinkInv'
  BY LinksKept DEF LinksStill
<1>5. IntentInv'
  BY <1>1, <1>3 DEF IntentInv, Held, Base
<1>6. \A v \in Workers : KnownInv(v)'
  BY OtherKnown DEF Alone
<1>7. ASSUME ~course.stalls PROVE Rows' /\ \A v \in Workers : ClaimInv(v)'
  <2>1. Rows'
    BY <1>7, RowRows
  <2>2. ClaimInv(w)'
    BY <1>7, <2>1
  <2>3. \A v \in Workers \ {w} : ClaimInv(v)'
    BY <1>7, RowOthers
  <2> QED
    BY <2>1, <2>2, <2>3
<1>8. Gone
  BY <1>3 DEF Gone, Closing
<1> QED
  BY <1>1, <1>4, <1>5, <1>6, <1>7, <1>8 DEF Held, Base, Stays

\* The worker goes on with its order, and what it needs of the tables
LEMMA RowGoHeld ==
    ASSUME Moving, NEW w \in Workers, wk[w].pc \notin Bare, NEW row, NEW n, Step(w, n),
           members' = [members EXCEPT ![User(wk[w])] = row], UNCHANGED <<orders, numbers, deleted, stripe>>,
           \A x \in row.orders : orders[x].intent,
           Safe(wk[w], n), Reads(wk[w], n), n.c = wk[w].c, n.pc \notin Unsold,
           ~course.stalls /\ User(wk[w]) \notin crossed' => Suits(wk[w], User(wk[w]), row),
           row = NoMember => User(wk[w]) \in course.delete \cup crossed' \/ Closing(User(wk[w]))
    PROVE  Stays
<1> PICK o : o = wk[w].o
  OBVIOUS
<1> PICK u : u = User(wk[w])
  OBVIOUS
<1>1. wk'[w] = n /\ Alone(w) /\ Inv'
  BY StepAlone, MovingSays DEF Moving
<1>2. u \in Users /\ o \in Orders
  BY Worker, CipherAssumption DEF User
<1>3. Sure(wk[w], n) /\ Watched(n)'
  BY DEF Safe, Watched
<1>4. LinkInv'
  BY LinksKept DEF LinksStill
<1>5. KnownInv(w)'
  BY <1>1, <1>3, <1>4, SafeKnown
<1>6. ASSUME ~course.stalls, Rows' PROVE ClaimInv(w)'
  <2>1. BoughtInv(o)'
    BY <1>2, <1>6 DEF Rows
  <2> QED
    BY <1>1, <1>3, <1>6, <2>1, SafeClaims
<1> QED
  BY <1>1, <1>2, <1>5, <1>6, RowHeld

-----------------------------------------------------------------------------
\* A row is compared and swapped

\* A call that needs no row
Moves(k, n) == DOMAIN n = Fields /\ Safe(k, n) /\ n.c = k.c

LEMMA CalmMoves == ASSUME NEW k, NEW n, Calm(k, n) PROVE Moves(k, n)
BY CalmSafe DEF Moves, Calm, Slight

LEMMA DropMoves ==
    ASSUME NEW k, NEW r, Moves(k, r)
    PROVE  LET n == [r EXCEPT !.m = NoMember] IN Safe(k, n) /\ Reads(k, n) /\ n.c = k.c /\ n.pc = r.pc
<1> PICK n : n = [r EXCEPT !.m = NoMember]
  OBVIOUS
<1>1. /\ n.pc = r.pc /\ n.o = r.o /\ n.c = r.c /\ n.task = r.task /\ n.number = r.number /\ n.todo = r.todo /\ n.m = NoMember
      /\ n.ret = r.ret /\ n.found = r.found /\ n.missing = r.missing /\ n.ups = r.ups /\ n.waiting = r.waiting
  BY DEF Moves, Fields
<1>2. Routed(r) => Routed(n)
  BY <1>1 DEF Routed, InRelease, Lists
<1>3. Safe(k, n)
  BY <1>1, <1>2 DEF Moves, Safe, Sure
<1> QED
  BY <1>1, <1>3 DEF Moves, Reads

LEMMA CasHeld ==
    ASSUME Moving, NEW w \in Workers, wk[w].pc \notin Bare, wk[w].pc \in Swaps, NEW row \in CipherMembership, NEW next, NEW again,
           Cas(w, row, next, again), UNCHANGED <<orders, numbers, deleted, stripe>>,
           Moves(wk[w], next), next.pc \notin Swaps \cup Unsold, Moves(wk[w], again),
           \A x \in row.orders : orders[x].intent,
           ~course.stalls /\ User(wk[w]) \notin crossed /\ wk[w].m = members[User(wk[w])] =>
               Suits(wk[w], User(wk[w]), row)
    PROVE  Stays
<1> PICK k : k = wk[w]
  OBVIOUS
<1> PICK u : u = User(k)
  OBVIOUS
<1> PICK n : n = [next EXCEPT !.m = NoMember]
  OBVIOUS
<1> PICK a : a = [again EXCEPT !.m = NoMember]
  OBVIOUS
<1> PICK r : r = [row EXCEPT !.version = k.m.version + 1]
  OBVIOUS
<1>1. Safe(k, n) /\ Reads(k, n) /\ n.c = k.c /\ n.pc = next.pc
  BY DropMoves
<1>2. Safe(k, a) /\ Reads(k, a) /\ a.c = k.c
  BY DropMoves
<1>3. Step(w, a) /\ UNCHANGED members => Stays
  BY <1>2, StepHeld, NumbersSame
<1>4. Step(w, Abort(k)) /\ UNCHANGED members => Stays
  BY Worker, AbortCalm, ToldHeld
<1>5. CASE Unmoved(k) /\ members' = [members EXCEPT ![u] = r] /\ Step(w, n)
  <2>1. Inv /\ Row(k) /\ u \in Users /\ members \in [Users -> Membership]
    BY Worker, UserInUsers DEF Inv, Tables
  <2>2. r.number = row.number /\ r.orders = row.orders /\ r.version = k.m.version + 1 /\ row.number # 0
    BY ZeroNoNumber DEF CipherMembership
  <2>3. k.m.version \in Nat
    BY <2>1 DEF Row, Membership, CipherMembership, NoMember
  <2>4. members'[u] = r /\ members[u].version = k.m.version
    BY <1>5, <2>1 DEF Unmoved
  <2>5. members'[u] # members[u]
    <3>1. k.m.version + 1 # k.m.version
      BY <2>3
    <3> QED
      BY <2>2, <2>4, <3>1
  <2>6. wk'[w] = n /\ wk'[w].pc # wk[w].pc
    BY <1>1, <1>5, <2>1, StepAlone
  <2>7. crossed' = crossed \cup Crossing
    BY DEF Moving, Aside
  <2>8. u \notin crossed' => u \notin crossed /\ k.m = members[u]
    BY <2>1, <2>5, <2>6, <2>7 DEF Crossing
  <2>9. ASSUME Suits(k, u, row) PROVE Suits(k, u, r)
    BY <2>2, <2>9, ZeroNoNumber DEF Suits, Kept, Own, NoMember
  <2>10. ~course.stalls /\ u \notin crossed' => Suits(k, u, r)
    BY <2>8, <2>9
  <2>11. r # NoMember /\ \A x \in r.orders : orders[x].intent
    BY <2>2 DEF NoMember
  <2> QED
    BY <1>1, <1>5, <2>10, <2>11, RowGoHeld
<1>6. \/ Step(w, a) /\ UNCHANGED members
      \/ Step(w, Abort(k)) /\ UNCHANGED members
      \/ Unmoved(k) /\ members' = [members EXCEPT ![u] = r] /\ Step(w, n)
  BY DEF Cas
<1> QED
  BY <1>3, <1>4, <1>5, <1>6

\* The row keeps its orders
LEMMA SameRowHeld ==
    ASSUME Moving, NEW w \in Workers, wk[w].pc \notin Bare, wk[w].pc \in Swaps, NEW row \in CipherMembership, NEW next, NEW again,
           Cas(w, row, next, again), UNCHANGED <<orders, numbers, deleted, stripe>>,
           Moves(wk[w], next), next.pc \notin Swaps \cup Unsold, Moves(wk[w], again),
           wk[w].m \in CipherMembership, row.number = wk[w].m.number, row.orders = wk[w].m.orders
    PROVE  Stays
<1> PICK k : k = wk[w]
  OBVIOUS
<1> PICK u : u = User(k)
  OBVIOUS
<1>1. \A x \in row.orders : orders[x].intent
  BY Worker DEF Known
<1>2. ASSUME ~course.stalls, u \notin crossed, k.m = members[u] PROVE Suits(k, u, row)
  <2>1. HeldInv(u)
    BY <1>2, UserInUsers DEF Moving, Held, Rows
  <2>2. members[u] # NoMember
    BY <1>2, ZeroNoNumber DEF CipherMembership, NoMember
  <2> QED
    BY <1>2, <2>1, <2>2 DEF Suits, Kept, HeldInv
<1> QED
  BY <1>1, <1>2, CasHeld

\* The call that a swap is made from, and where a lost one starts over
LEMMA SwapSays ==
    ASSUME Moving, NEW w \in Workers, wk[w].pc \in CasCalls
    PROVE  /\ wk[w].pc \notin Bare /\ wk[w].pc \in Swaps /\ wk[w].m \in CipherMembership /\ wk[w].o \in Orders
           /\ Whole(wk[w]) /\ Routed(wk[w])
<1>1. wk[w].pc \notin Bare
  BY DEF Bare, CasCalls
<1> QED
  BY <1>1, Worker DEF Inv, WorkInv, Fine, Placed, CasCalls, Swaps

LEMMA ListedSame ==
    ASSUME NEW m \in CipherMembership, NEW o, NEW open
    PROVE  Listed(m, o, open).number = m.number /\ Listed(m, o, open).orders = m.orders
BY DEF Listed, CipherMembership

LEMMA ListCasHeld ==
    ASSUME Moving, NEW w \in Workers, ListCas(w)
    PROVE  Stays
<1> PICK k : k = wk[w]
  OBVIOUS
<1>0. k.pc = "list_cas" /\ k.pc \in CasCalls /\ UNCHANGED <<orders, numbers, deleted, stripe>>
  BY DEF ListCas, At, CasCalls
<1>1. k.m \in CipherMembership /\ k.o \in Orders /\ Whole(k) /\ Lists(k)
  BY <1>0, SwapSays DEF Routed, ListCalls
<1> PICK row : row = Listed(k.m, k.o, k.list)
  OBVIOUS
<1>2. row \in CipherMembership /\ row.number = k.m.number /\ row.orders = k.m.orders
  BY <1>1, ListedType DEF Listed, CipherMembership
<1> PICK n : n = ListEnd(k, k.found)
  OBVIOUS
<1>3. Moves(k, n) /\ n.pc \notin Swaps \cup Unsold
  <2>1. Moves(k, n)
    BY <1>1, ListEndCalm, CalmMoves DEF Lists
  <2>2. n.pc = k.found
    BY <1>1 DEF ListEnd, Whole, Fields
  <2> QED
    BY <1>1, <2>1, <2>2 DEF Lists, Exits, Swaps, Unsold, Voids
<1> PICK a : a = Go(k, "list_read")
  OBVIOUS
<1>4. a.pc = "list_read" /\ a.found = k.found /\ a.missing = k.missing /\ a.ret = k.ret /\ DOMAIN a = Fields
  BY <1>1 DEF Go, Whole, Fields
<1>5. Routed(a)
  BY <1>1, <1>4 DEF Lists, Routed, InRelease, RelCalls, SyncCalls, ListCalls
<1>6. Moves(k, a)
  BY <1>1, <1>4, <1>5, GoSafe DEF Moves, Loop, Bare, Unsold, Voids
<1>7. Cas(w, row, n, a)
  BY DEF ListCas
<1> QED
  BY <1>0, <1>1, <1>2, <1>3, <1>6, <1>7, SameRowHeld, SwapSays

LEMMA SyncMoves ==
    ASSUME NEW k, NEW ret \in Ends, Whole(k)
    PROVE  Moves(k, Sync(k, ret)) /\ Sync(k, ret).pc \notin Swaps \cup Unsold
<1>1. Sync(k, ret).pc = "sync_read"
  BY DEF Sync, Whole, Fields
<1> QED
  BY <1>1, SyncCalm, CalmMoves DEF Swaps, Unsold, Voids

LEMMA RelRevokeHeld ==
    ASSUME Moving, NEW w \in Workers, RelRevoke(w)
    PROVE  Stays
<1> PICK k : k = wk[w]
  OBVIOUS
<1>0. k.pc = "rel_revoke" /\ k.pc \in CasCalls /\ UNCHANGED <<orders, numbers, deleted, stripe>>
  BY DEF RelRevoke, At, CasCalls
<1>1. k.m \in CipherMembership /\ Whole(k) /\ k.number # 0 /\ IsNew(k.o)
  BY <1>0, SwapSays DEF Routed, InRelease, RelCalls
<1> PICK row : row = [k.m EXCEPT !.revoked = "Refund"]
  OBVIOUS
<1>2. row \in CipherMembership /\ row.number = k.m.number /\ row.orders = k.m.orders
  BY <1>1 DEF CipherMembership
<1> PICK n : n = Sync(k, "rel_read")
  OBVIOUS
<1>3. n.pc = "sync_read" /\ DOMAIN n = Fields
  BY <1>1 DEF Sync, Whole, Fields
<1>4. Moves(k, n) /\ n.pc \notin Swaps \cup Unsold
  BY <1>1, <1>3, RelSyncSafe DEF Moves, Swaps, Unsold, Voids
<1> PICK a : a = Go(k, "rel_read")
  OBVIOUS
<1>5. a.pc = "rel_read" /\ a.number = k.number /\ a.o = k.o /\ DOMAIN a = Fields
  BY <1>1 DEF Go, Whole, Fields
<1>6. Routed(a)
  BY <1>1, <1>5, RelRouted DEF RelCalls
<1>7. Moves(k, a)
  BY <1>1, <1>5, <1>6, GoSafe DEF Moves, Loop, Bare, Unsold, Voids
<1>8. Cas(w, row, n, a)
  BY DEF RelRevoke
<1> QED
  BY <1>0, <1>1, <1>2, <1>4, <1>7, <1>8, SameRowHeld, SwapSays

LEMMA LarCasHeld ==
    ASSUME Moving, NEW w \in Workers, LarCas(w)
    PROVE  Stays
<1> PICK k : k = wk[w]
  OBVIOUS
<1>0. k.pc = "lar_cas" /\ k.pc \in CasCalls /\ UNCHANGED <<orders, numbers, deleted, stripe>>
  BY DEF LarCas, At, CasCalls
<1>1. k.m \in CipherMembership /\ Whole(k)
  BY <1>0, SwapSays
<1> PICK row : row = [k.m EXCEPT !.revoked = "DisputeLost"]
  OBVIOUS
<1>2. row \in CipherMembership /\ row.number = k.m.number /\ row.orders = k.m.orders
  BY <1>1 DEF CipherMembership
<1> PICK n : n = Done(k)
  OBVIOUS
<1>3. n.pc \in {"release", "recheck"} /\ Moves(k, n)
  BY <1>1, DoneCalm, CalmMoves DEF Done, Whole, Fields
<1>4. n.pc \notin Swaps \cup Unsold
  BY <1>3 DEF Swaps, Unsold, Voids
<1>5. Moves(k, Go(k, "lar_read"))
  BY <1>1, GoCalm, CalmMoves DEF Rough, RelCalls, Unsold, Voids, SyncCalls, ListCalls, Bare
<1>6. Cas(w, row, n, Go(k, "lar_read"))
  BY DEF LarCas
<1> QED
  BY <1>0, <1>1, <1>2, <1>3, <1>4, <1>5, <1>6, SameRowHeld, SwapSays

LEMMA RevCasHeld ==
    ASSUME Moving, NEW w \in Workers, RevCas(w)
    PROVE  Stays
<1> PICK k : k = wk[w]
  OBVIOUS
<1>0. k.pc = "rev_cas" /\ k.pc \in CasCalls /\ UNCHANGED <<orders, numbers, deleted, stripe>>
  BY DEF RevCas, At, CasCalls
<1>1. k.m \in CipherMembership /\ Whole(k) /\ k.o \in Orders
  BY <1>0, SwapSays
<1> PICK row : row = Reversed(k, k.m)
  OBVIOUS
<1>2. row \in CipherMembership /\ row.number = k.m.number /\ row.orders = k.m.orders
  <2> PICK listed : listed = IF k.kind = "DisputeLost" THEN k.c.open # {} ELSE Disputed(k.c)
    OBVIOUS
  <2> PICK base : base = IF k.kind = "Refund" THEN k.m ELSE Listed(k.m, k.o, listed)
    OBVIOUS
  <2>1. base \in CipherMembership /\ base.number = k.m.number /\ base.orders = k.m.orders
    BY <1>1, ListedType, ListedSame
  <2>2. PICK revoked : row = [base EXCEPT !.revoked = revoked]
    BY DEF Reversed
  <2>3. row.number = base.number /\ row.orders = base.orders
    BY <2>1, <2>2 DEF CipherMembership
  <2> QED
    BY <1>1, <2>1, <2>3, ReversedType
<1> PICK n : n = AfterReverse(k)
  OBVIOUS
<1>3. Moves(k, n) /\ n.pc \notin Swaps \cup Unsold
  BY <1>1, SyncMoves DEF AfterReverse, Ends
<1>5. Moves(k, Go(k, "rev_read"))
  BY <1>1, GoCalm, CalmMoves DEF Rough, RelCalls, Unsold, Voids, SyncCalls, ListCalls, Bare
<1>6. Cas(w, row, n, Go(k, "rev_read"))
  BY DEF RevCas
<1> QED
  BY <1>0, <1>1, <1>2, <1>3, <1>5, <1>6, SameRowHeld, SwapSays

\* The upgrade goes: the number is a purchase's
LEMMA DownCasHeld ==
    ASSUME Moving, NEW w \in Workers, DownCas(w)
    PROVE  Stays
<1> PICK k : k = wk[w]
  OBVIOUS
<1> PICK u : u = User(k)
  OBVIOUS
<1>0. k.pc = "down_cas" /\ k.pc \in CasCalls /\ UNCHANGED <<orders, numbers, deleted, stripe>>
  BY DEF DownCas, At, CasCalls
<1>1. k.m \in CipherMembership /\ Whole(k) /\ k.o \in Orders /\ ~IsNew(k.o) /\ k.pc \notin Bare /\ k.pc \in Swaps
  BY <1>0, SwapSays DEF Routed
<1> PICK row : row = [k.m EXCEPT !.tier = From[k.o], !.orders = @ \ {k.o}, !.disputed = @ \ {k.o}]
  OBVIOUS
<1>2. row \in CipherMembership /\ row.number = k.m.number /\ row.orders = k.m.orders \ {k.o}
  BY <1>1, CipherAssumption DEF CipherMembership
<1>3. Moves(k, Sync(k, "refunded")) /\ Sync(k, "refunded").pc \notin Swaps \cup Unsold
  BY <1>1, SyncMoves DEF Ends
<1>4. Moves(k, Go(k, "plan"))
  BY <1>1, GoCalm, CalmMoves DEF Rough, RelCalls, Unsold, Voids, SyncCalls, ListCalls, Bare
<1>5. \A x \in row.orders : orders[x].intent
  BY <1>1, <1>2, Worker DEF Known
<1>6. ASSUME ~course.stalls, u \notin crossed, k.m = members[u] PROVE Suits(k, u, row)
  <2>1. HeldInv(u) /\ NumbersInv
    BY <1>1, <1>6, UserInUsers DEF Moving, Held, Rows
  <2>2. members[u] # NoMember /\ row.number \in Numbers
    BY <1>1, <1>2, <1>6, ZeroNoNumber DEF CipherMembership, NoMember
  <2> PICK x : x = numbers[row.number].order
    OBVIOUS
  <2>3. x \in k.m.orders /\ x \in Orders
    BY <1>1, <1>2, <1>6, <2>1, <2>2 DEF HeldInv, CipherMembership
  <2>4. IsNew(x)
    BY <2>1, <2>2, <2>3, CipherAssumption DEF NumbersInv
  <2>5. x \in row.orders
    BY <1>1, <1>2, <2>3, <2>4
  <2> QED
    BY <1>2, <1>6, <2>2, <2>5 DEF Suits, Kept
<1>7. Cas(w, row, Sync(k, "refunded"), Go(k, "plan"))
  BY DEF DownCas
<1> QED
  BY <1>0, <1>1, <1>2, <1>3, <1>4, <1>5, <1>6, <1>7, CasHeld

\* The order about to be applied
LEMMA SellerBought ==
    ASSUME Moving, NEW w \in Workers, wk[w].pc \in {"insert", "replace", "upgrade_cas"}
    PROVE  /\ orders[wk[w].o].intent
           /\ ~course.stalls => Bought(wk[w], wk[w].o)
           /\ Moves(wk[w], Publishing(wk[w])) /\ Publishing(wk[w]).pc \notin Swaps \cup Unsold
<1> PICK k : k = wk[w]
  OBVIOUS
<1>1. k.pc \notin Bare /\ k.pc \in Selling
  BY DEF Bare, Selling
<1>2. Inv /\ Whole(k) /\ Known(k) /\ k.o \in Orders
  BY <1>1, Worker
<1>3. k.c.state = "Paid" /\ k.c.reason = "None"
  BY <1>1, <1>2 DEF Inv, WorkInv, Fine, Placed, Fits
<1>4. orders[k.o].intent
  BY <1>1, <1>2, <1>3 DEF Known
<1>5. ASSUME ~course.stalls PROVE Bought(k, k.o)
  <2>1. orders[k.o].state = "Paid" /\ orders[k.o].reason = "None" /\ OrderInv(k.o)
    BY <1>1, <1>3, <1>5, StoredSays
  <2>2. ~stripe[k.o].void
    BY <2>1 DEF OrderInv, Sound, Marked, Voiding
  <2> QED
    BY <2>1, <2>2 DEF Bought
<1>6. Moves(k, Publishing(k))
  BY <1>2, PublishingCalm, CalmMoves
<1>7. Publishing(k).pc = "publish"
  BY <1>2 DEF Publishing, Whole, Fields
<1> QED
  BY <1>4, <1>5, <1>6, <1>7 DEF Swaps, Unsold, Voids

LEMMA FreshSuits ==
    ASSUME Moving, NEW w \in Workers, wk[w].pc \in {"insert", "replace"}
    PROVE  /\ Fresh(wk[w]) \in CipherMembership
           /\ \A x \in Fresh(wk[w]).orders : orders[x].intent
           /\ ~course.stalls => Suits(wk[w], User(wk[w]), Fresh(wk[w]))
<1> PICK k : k = wk[w]
  OBVIOUS
<1>1. k.pc \notin Bare /\ k.pc \in Inserts
  BY DEF Bare, Inserts
<1>2. k.o \in Orders /\ k.number \in Numbers
  BY <1>1, Worker DEF Inv, WorkInv, Fine, Placed
<1>3. Fresh(k) \in CipherMembership
  BY <1>2, FreshType
<1>4. Fresh(k).orders = {k.o} /\ Fresh(k).number = k.number /\ k.number # 0
  BY <1>2, ZeroNoNumber DEF Fresh
<1>5. Own(k, Fresh(k))
  BY <1>4 DEF Own
<1> QED
  BY <1>1, <1>3, <1>4, <1>5, SellerBought DEF Suits

LEMMA UnsoldMoves ==
    ASSUME Moving, NEW w \in Workers, wk[w].pc \in Unsold, NEW pc \in {"insert", "insert_read", "upgrade_read"}
    PROVE  Moves(wk[w], Go(wk[w], pc)) /\ Reads(wk[w], Go(wk[w], pc))
<1> PICK a : a = Go(wk[w], pc)
  OBVIOUS
<1>1. Whole(wk[w])
  BY Worker, UnsoldOff
<1>2. a.pc = pc /\ DOMAIN a = Fields
  BY <1>1 DEF Go, Whole, Fields
<1>3. Routed(a)
  BY <1>2, UnsoldRouted DEF Unsold
<1> QED
  BY <1>1, <1>2, <1>3, GoSafe DEF Moves, Loop, Bare, Unsold

LEMMA ReplaceHeld ==
    ASSUME Moving, NEW w \in Workers, Replace(w)
    PROVE  Stays
<1> PICK k : k = wk[w]
  OBVIOUS
<1>0. /\ k.pc = "replace" /\ k.pc \notin Bare /\ k.pc \in Swaps /\ k.pc \in Unsold
      /\ UNCHANGED <<orders, numbers, deleted, stripe>> /\ Cas(w, Fresh(k), Publishing(k), Go(k, "insert"))
  BY DEF Replace, At, Bare, Swaps, Unsold
<1>1. Moves(k, Go(k, "insert"))
  BY <1>0, UnsoldMoves
<1> QED
  BY <1>0, <1>1, FreshSuits, SellerBought, CasHeld

LEMMA UpgradeCasHeld ==
    ASSUME Moving, NEW w \in Workers, UpgradeCas(w)
    PROVE  Stays
<1> PICK k : k = wk[w]
  OBVIOUS
<1> PICK u : u = User(k)
  OBVIOUS
<1>0. k.pc = "upgrade_cas" /\ k.pc \in CasCalls /\ k.pc \in Unsold /\ UNCHANGED <<orders, numbers, deleted, stripe>>
  BY DEF UpgradeCas, At, CasCalls, Unsold
<1>1. k.m \in CipherMembership /\ Whole(k) /\ k.o \in Orders /\ k.pc \notin Bare /\ k.pc \in Swaps
  BY <1>0, SwapSays
<1> PICK more : more = [k.m EXCEPT !.tier = To(k.o), !.orders = @ \cup {k.o}]
  OBVIOUS
<1> PICK row : row = Listed(more, k.o, Disputed(k.c))
  OBVIOUS
<1>2. To(k.o) \in Nat
  BY <1>1, CipherAssumption DEF To
<1>3. more \in CipherMembership /\ more.number = k.m.number /\ more.orders = k.m.orders \cup {k.o}
  BY <1>1, <1>2 DEF CipherMembership
<1>4. row \in CipherMembership /\ row.number = k.m.number /\ row.orders = k.m.orders \cup {k.o}
  <2> PICK open : open = Disputed(k.c)
    OBVIOUS
  <2>1. row = Listed(more, k.o, open)
    OBVIOUS
  <2>2. row \in CipherMembership
    BY <1>1, <1>3, <2>1, ListedType
  <2>3. row.number = more.number /\ row.orders = more.orders
    <3>1. PICK d : row = [more EXCEPT !.disputed = d]
      BY <2>1 DEF Listed
    <3> QED
      BY <1>3, <3>1 DEF CipherMembership
  <2> QED
    BY <1>3, <2>2, <2>3
<1>5. Moves(k, Go(k, "upgrade_read"))
  BY <1>0, UnsoldMoves
<1>6. \A x \in row.orders : orders[x].intent
  BY <1>0, <1>1, <1>4, Worker, SellerBought DEF Known
<1>7. ASSUME ~course.stalls, u \notin crossed, k.m = members[u] PROVE Suits(k, u, row)
  <2>1. HeldInv(u)
    BY <1>1, <1>7, UserInUsers DEF Moving, Held, Rows
  <2>2. members[u] # NoMember
    BY <1>1, <1>7, ZeroNoNumber DEF CipherMembership, NoMember
  <2>3. Bought(k, k.o)
    BY <1>0, <1>7, SellerBought
  <2> QED
    BY <1>1, <1>4, <1>7, <2>1, <2>2, <2>3 DEF Suits, Kept, HeldInv
<1>8. Cas(w, row, Publishing(k), Go(k, "upgrade_read"))
  BY DEF UpgradeCas
<1> QED
  BY <1>0, <1>1, <1>4, <1>5, <1>6, <1>7, <1>8, SellerBought, CasHeld

LEMMA InsertHeld ==
    ASSUME Moving, NEW w \in Workers, Insert(w)
    PROVE  Stays
<1> PICK k : k = wk[w]
  OBVIOUS
<1>0. k.pc = "insert" /\ k.pc \notin Bare /\ k.pc \in Unsold /\ UNCHANGED <<orders, numbers, deleted, stripe>>
  BY DEF Insert, At, Bare, Unsold
<1>1. Step(w, Stop(k)) /\ UNCHANGED members => Stays
  BY <1>0, Worker, StopCalm, ToldHeld
<1>2. Step(w, Go(k, "insert_read")) /\ UNCHANGED members => Stays
  BY <1>0, UnsoldMoves, StepHeld, NumbersSame DEF Moves
<1>3. ASSUME members' = [members EXCEPT ![User(k)] = Fresh(k)], Step(w, Publishing(k)) PROVE Stays
  <2>1. Safe(k, Publishing(k)) /\ Publishing(k).c = k.c /\ Publishing(k).pc \notin Unsold
    BY <1>0, SellerBought DEF Moves
  <2>2. Reads(k, Publishing(k))
    BY <1>0, Worker, PublishingCalm, CalmSafe
  <2>3. Fresh(k) # NoMember
    BY <1>0, FreshSuits, ZeroNoNumber DEF CipherMembership, NoMember
  <2> QED
    BY <1>0, <1>3, <2>1, <2>2, <2>3, FreshSuits, RowGoHeld
<1>4. \/ Step(w, Go(k, "insert_read")) /\ UNCHANGED members
      \/ Step(w, Stop(k)) /\ UNCHANGED members
      \/ members' = [members EXCEPT ![User(k)] = Fresh(k)] /\ Step(w, Publishing(k))
  BY DEF Insert
<1> QED
  BY <1>1, <1>2, <1>3, <1>4

-----------------------------------------------------------------------------
\* Rows that go

LEMMA RelDeleteHeld ==
    ASSUME Moving, NEW w \in Workers, RelDelete(w)
    PROVE  Stays
<1> PICK k : k = wk[w]
  OBVIOUS
<1> PICK u : u = User(k)
  OBVIOUS
<1>0. k.pc = "rel_delete" /\ k.pc \notin Bare /\ k.pc \in Swaps /\ UNCHANGED <<orders, numbers, deleted, stripe>>
  BY DEF RelDelete, At, Bare, Swaps
<1>1. Inv /\ Whole(k) /\ Row(k) /\ Known(k) /\ k.number # 0 /\ IsNew(k.o) /\ k.ups = {} /\ ~k.waiting
  BY <1>0, Worker DEF Routed, InRelease, RelCalls
<1>2. CASE Unmoved(k) /\ members' = [members EXCEPT ![u] = NoMember] /\ Step(w, Sync(k, RelOrder(k).pc))
  <2> PICK n : n = Sync(k, RelOrder(k).pc)
    OBVIOUS
  <2>1. n.pc = "sync_read"
    BY <1>1 DEF Sync, Whole, Fields
  <2>2. Safe(k, n) /\ Reads(k, n) /\ n.c = k.c /\ n.pc \notin Unsold
    BY <1>1, <2>1, RelOrderPlace, RelSyncSafe DEF Unsold, Voids
  <2>3. u \in Users /\ members \in [Users -> Membership]
    BY <1>0, <1>1, UserInUsers DEF Inv, Tables
  <2>4. members'[u] = NoMember /\ members[u] # NoMember
    BY <1>2, <2>3 DEF Unmoved
  <2>5. wk'[w] = n /\ wk'[w].pc # wk[w].pc
    BY <1>0, <1>1, <1>2, <2>1, StepAlone
  <2>6. crossed' = crossed \cup Crossing
    BY DEF Moving, Aside
  <2>7. u \notin crossed' => k.m = members[u]
    BY <1>0, <2>3, <2>4, <2>5, <2>6 DEF Crossing
  <2>8. ASSUME k.m = members[u] PROVE Closing(u)
    <3>1. ASSUME NEW x \in members[u].orders, ~IsNew(x) PROVE orders[x].state \in {"Refunded", "Voided"}
      <4>1. x \in k.m.orders \ {k.o}
        BY <1>1, <2>8, <3>1
      <4>2. Closed(x)
        BY <1>0, <1>1, <4>1 DEF Known, Watched, Loop
      <4> QED
        BY <4>2 DEF Closed, Settled, View
    <3> QED
      BY <3>1 DEF Closing
  <2>9. Suits(k, u, NoMember) /\ \A x \in NoMember.orders : orders[x].intent
    BY DEF Suits, NoMember
  <2> QED
    BY <1>0, <1>2, <2>2, <2>7, <2>8, <2>9, RowGoHeld
<1>3. CASE Step(w, [k EXCEPT !.pc = "rel_read", !.m = NoMember]) /\ UNCHANGED members
  <2> PICK n : n = [k EXCEPT !.pc = "rel_read", !.m = NoMember]
    OBVIOUS
  <2>1. n.pc = "rel_read" /\ n.number = k.number /\ n.o = k.o /\ n.m = NoMember /\ n.c = k.c /\ n.task = k.task /\ n.todo = k.todo
    BY <1>1 DEF Whole, Fields
  <2>2. Routed(n)
    BY <1>1, <2>1, RelRouted DEF RelCalls
  <2>3. Safe(k, n) /\ Reads(k, n)
    BY <2>1, <2>2 DEF Safe, Sure, Reads, Loop, Bare, Unsold, Voids
  <2> QED
    BY <1>0, <1>3, <2>1, <2>3, StepHeld, NumbersSame
<1> QED
  BY <1>2, <1>3 DEF RelDelete

LEMMA DelMemberHeld ==
    ASSUME Moving, NEW w \in Workers, DelMember(w)
    PROVE  Stays
<1> PICK k : k = wk[w]
  OBVIOUS
<1> PICK u : u = User(k)
  OBVIOUS
<1> PICK n : n = VoidStart(k, "AccountDeleted")
  OBVIOUS
<1>0. /\ k.pc = "del_member" /\ k.pc \notin Bare /\ UNCHANGED <<orders, numbers, deleted, stripe>>
      /\ members' = [members EXCEPT ![u] = NoMember] /\ Step(w, n)
  BY DEF DelMember, At, Bare
<1>1. Inv /\ Whole(k) /\ Known(k) /\ UNCHANGED course /\ u \in Users /\ members \in [Users -> Membership]
  BY <1>0, Worker, UserInUsers, MovingSays DEF Inv, Tables
<1>2. u \in course.delete
  BY <1>0, <1>1 DEF Known
<1>3. wk'[w] = n /\ Alone(w)
  BY <1>0, <1>1, StepAlone
<1>4. Slight(k, n) /\ n.pc \in Voids \cup {"release"}
  BY <1>1, VoidStartSlight
<1>5. n.o = k.o /\ n.c = k.c /\ n.task = k.task /\ n.number \in {0, k.number} /\ n.m \in {k.m, NoMember}
  BY <1>4 DEF Slight
<1>6. n.pc \notin Bare \cup Loop \cup Deleting /\ n.pc # "rel_put"
  BY <1>4 DEF Voids, Bare, Loop, Deleting
<1>7. Routed(n)
  BY <1>4 DEF Routed, InRelease, RelCalls, Voids, SyncCalls, ListCalls
<1>8. Known(n)'
  <2>1. \A x \in n.m.orders : orders[x].intent
    BY <1>1, <1>5 DEF Known, NoMember
  <2>2. n.task = "delete" => \A x \in n.todo : Buyer[x] \in course.delete
    BY <1>1, <1>4, <1>5 DEF Known, Slight
  <2>3. /\ n.c.intent => orders[n.o].intent
        /\ n.c.state \in {"Paid", "Fulfilled"} => n.c.intent
    BY <1>0, <1>1, <1>5 DEF Known
  <2>4. User(n) \in course.delete /\ Watched(n)'
    BY <1>2, <1>5, <1>6 DEF User, Watched
  <2> QED
    BY <1>0, <1>1, <2>1, <2>2, <2>3, <2>4 DEF Known, User
<1>9. KnownInv(w)'
  BY <1>3, <1>7, <1>8 DEF KnownInv
<1>10. ASSUME ~course.stalls PROVE ClaimInv(w)'
  <2>1. Claims(k)
    BY <1>0, <1>10, Worker
  <2>2. n.number # 0 => numbers'[n.number].order = n.o
    BY <1>0, <1>5, <2>1 DEF Claims
  <2>3. members'[Buyer[n.o]] = NoMember
    BY <1>0, <1>1, <1>5 DEF User
  <2>4. ~OnRow(n.o)'
    BY <1>3, <2>3 DEF OnRow, Holds
  <2>5. Claims(n)'
    BY <1>6, <2>2, <2>4 DEF Claims
  <2> QED
    BY <1>3, <2>5 DEF ClaimInv
<1>11. Suits(k, u, NoMember) /\ \A x \in NoMember.orders : orders[x].intent
  BY DEF Suits, NoMember
<1> QED
  BY <1>0, <1>1, <1>2, <1>3, <1>9, <1>10, <1>11, RowHeld

LEMMA DeleteMembershipHeld ==
    ASSUME Moving, NEW w \in Workers, DeleteMembership(w)
    PROVE  Stays
<1> PICK k : k = wk[w]
  OBVIOUS
<1> PICK u : u = User(k)
  OBVIOUS
<1> PICK n : n = Go(k, "del_user")
  OBVIOUS
<1>0. /\ k.pc = "del_row" /\ UNCHANGED <<orders, numbers, deleted, stripe>>
      /\ members' = [members EXCEPT ![u] = NoMember] /\ Step(w, n)
  BY DEF DeleteMembership, At
<1>1. Inv /\ Row(k) /\ Known(k) /\ UNCHANGED course /\ k.o \in Orders
  BY <1>0, MovingSays, RowOf DEF Held, KnownInv, Inv, WorkInv, Fine, Bare
<1>2. u \in Users /\ u \in course.delete
  BY <1>0, <1>1, CipherAssumption DEF User, Known, Deleting
<1>3. wk'[w] = n /\ Alone(w)
  BY <1>0, <1>1, StepAlone
<1>4. n.pc = "del_user" /\ n.o = k.o /\ n.m = k.m /\ n.task = k.task /\ n.todo = k.todo
  BY <1>1 DEF Go, Row, Fields
<1>5. Routed(n)
  BY <1>4 DEF Routed, InRelease, RelCalls, SyncCalls, ListCalls
<1>6. Known(n)'
  <2>1. \A x \in n.m.orders : orders[x].intent
    BY <1>1, <1>4 DEF Known
  <2>2. n.task = "delete" => \A x \in n.todo : Buyer[x] \in course.delete
    BY <1>1, <1>4 DEF Known
  <2>3. User(n) \in course.delete /\ Watched(n)' /\ n.pc \in Bare
    BY <1>2, <1>4 DEF User, Watched, Loop, Bare
  <2> QED
    BY <1>0, <1>1, <2>1, <2>2, <2>3 DEF Known, User
<1>7. KnownInv(w)' /\ ClaimInv(w)'
  BY <1>3, <1>4, <1>5, <1>6 DEF KnownInv, ClaimInv, Bare
<1>8. Suits(k, u, NoMember) /\ \A x \in NoMember.orders : orders[x].intent
  BY DEF Suits, NoMember
<1> QED
  BY <1>0, <1>2, <1>3, <1>7, <1>8, RowHeld

-----------------------------------------------------------------------------
\* Numbers

LEMMA NumbersHeld ==
    ASSUME Moving, NEW w \in Workers, wk[w].pc \notin Bare, Alone(w), UNCHANGED <<orders, members, deleted, stripe>>,
           KnownInv(w)',
           ~course.stalls => /\ NumbersInv' /\ ClaimInv(w)' /\ \A u \in Users : HeldInv(u)'
                             /\ \A n \in Numbers : numbers[n].order \in Orders \ {wk[w].o} => numbers'[n].order = numbers[n].order
                             /\ \A n \in Numbers : numbers'[n].order \in {numbers[n].order, wk[w].o, Free}
    PROVE  Stays
<1>1. Inv /\ Inv' /\ Held /\ PaidInv' /\ UNCHANGED course /\ crossed' = crossed
  BY MovingSays
<1>2. LinkInv' /\ IntentInv'
  BY <1>1, LinksKept DEF LinksStill, IntentInv, Held, Base
<1>3. \A v \in Workers : KnownInv(v)'
  BY OtherKnown DEF Alone
<1>4. \A u \in Users : members[u] # NoMember => members[u].number \in Numbers
  BY <1>1 DEF Inv, Tables, Membership, CipherMembership
<1>5. ASSUME ~course.stalls PROVE Rows' /\ \A v \in Workers : ClaimInv(v)'
  <2>1. Rows
    BY <1>1, <1>5 DEF Held
  <2>2. \A o \in Orders : BoughtInv(o)'
    BY <1>1, <2>1 DEF BoughtInv, OnRow, Rows
  <2>3. ASSUME NEW v \in Workers, v # w PROVE ClaimInv(v)'
    <3> PICK o : o = wk[v].o
      OBVIOUS
    <3>1. Same(wk[v], wk'[v]) /\ Row(wk[v])
      BY <1>1, <2>3, RowOf DEF Alone
    <3>2. wk'[v].o = o /\ wk'[v].pc = wk[v].pc
      BY <3>1, SameSays
    <3>3. CASE wk[v].pc \in Bare
      BY <3>2, <3>3 DEF ClaimInv
    <3>4. CASE wk[v].pc \notin Bare
      <4>1. o \in Orders \ {wk[w].o} /\ o # Free
        BY <1>1, <1>5, <2>3, <3>4, AtWork, OrdersApart, CipherAssumption
      <4>2. wk[v].number # 0 => wk[v].number \in Numbers
        BY <3>1 DEF Row, Numbers
      <4>3. wk[v].number # 0 /\ numbers[wk[v].number].order = wk[v].o => numbers'[wk[v].number].order = wk[v].o
        BY <1>5, <4>1, <4>2
      <4>4. OnRow(wk[v].o)' => OnRow(wk[v].o)
        BY <1>1, <3>2 DEF OnRow
      <4>5. Unheld(o) => Unheld(o)'
        BY <1>1, <1>4, <1>5, <4>1 DEF Unheld
      <4>6. Unheld(wk[v].o) => Unheld(wk[v].o)'
        BY <3>2, <4>5
      <4> QED
        BY <1>5, <3>1, <4>3, <4>4, <4>6, OtherClaims
    <3> QED
      BY <3>3, <3>4
  <2> QED
    BY <1>5, <2>2, <2>3 DEF Rows
<1>6. Gone
  BY DEF Gone
<1> QED
  BY <1>1, <1>2, <1>3, <1>5, <1>6 DEF Held, Base, Stays

LEMMA ClaimHeld ==
    ASSUME Moving, NEW w \in Workers, Claim(w)
    PROVE  Stays
<1> PICK k : k = wk[w]
  OBVIOUS
<1> PICK own : own = NumberOf(k.o)
  OBVIOUS
<1> PICK pool : pool = IF own # {} THEN own ELSE NumberOf(Free)
  OBVIOUS
<1> PICK n : n = CHOOSE x \in pool : \A y \in pool : x <= y
  OBVIOUS
<1> PICK p : p = [k EXCEPT !.pc = "insert", !.number = n]
  OBVIOUS
<1>0. k.pc = "claim" /\ k.pc \notin Bare /\ k.pc \in Unsold /\ UNCHANGED <<orders, members, deleted, stripe>>
  BY DEF Claim, At, Bare, Unsold
<1>1. /\ Inv /\ Row(k) /\ Whole(k) /\ Routed(k) /\ Known(k) /\ k.o \in Orders /\ IsNew(k.o)
      /\ numbers \in [Numbers -> NumberRow]
  BY <1>0, Worker DEF Routed, Inv, Tables
<1>2. Step(w, VoidStart(k, "SoldOut")) /\ UNCHANGED numbers => Stays
  BY <1>0, VoidingHeld
<1>3. CASE pool # {} /\ numbers' = [numbers EXCEPT ![n].order = k.o] /\ Step(w, p)
  <2>1. n \in pool /\ n \in Numbers
    <3>1. pool \subseteq Numbers
      BY DEF NumberOf
    <3>2. \E x \in pool : \A y \in pool : x <= y
      BY <1>3, <3>1, LowestExists
    <3> QED
      BY <3>1, <3>2
  <2>2. numbers'[n].order = k.o /\ \A m \in Numbers \ {n} : numbers'[m] = numbers[m]
    BY <1>1, <1>3, <2>1 DEF NumberRow
  <2>3. /\ p.pc = "insert" /\ p.number = n /\ p.o = k.o /\ p.c = k.c /\ p.m = k.m /\ p.task = k.task /\ p.todo = k.todo
    BY <1>1 DEF Whole, Fields
  <2>4. Routed(p)
    BY <2>3, UnsoldRouted DEF Unsold
  <2>5. CASE numbers[n].order = k.o
    <3>1. NumbersStill
      BY <2>2, <2>5 DEF NumbersStill
    <3>2. Safe(k, p) /\ Reads(k, p)
      BY <1>0, <2>3, <2>4, <2>5 DEF Safe, Sure, Reads, Loop, Bare
    <3> QED
      BY <1>0, <1>3, <2>3, <3>1, <3>2, StepHeld
  <2>6. CASE numbers[n].order # k.o
    <3>1. own = {} /\ numbers[n].order = Free
      BY <2>1, <2>6 DEF NumberOf
    <3>2. \A m \in Numbers : numbers[m].order # k.o
      BY <3>1 DEF NumberOf
    <3>3. wk'[w] = p /\ Alone(w)
      BY <1>1, <1>3, StepAlone
    <3>4. Known(p)'
      <4>1. UNCHANGED course /\ Watched(p)'
        BY <2>3, MovingSays DEF Watched, Loop
      <4> QED
        BY <1>0, <1>1, <2>3, <4>1 DEF Known, User, Deleting
    <3>5. KnownInv(w)'
      BY <2>4, <3>3, <3>4 DEF KnownInv
    <3>6. ASSUME ~course.stalls PROVE NumbersInv' /\ ClaimInv(w)' /\ \A u \in Users : HeldInv(u)'
      <4>1. Rows /\ Claims(k) /\ crossed' = crossed
        BY <1>0, <3>6, Worker, MovingSays DEF Held
      <4>2. NumbersInv'
        BY <1>1, <2>1, <2>2, <3>2, <4>1 DEF Rows, NumbersInv
      <4>3. ASSUME NEW u \in Users PROVE HeldInv(u)'
        <5>1. SUFFICES ASSUME u \notin crossed, members[u] # NoMember PROVE numbers'[members[u].number].order \in members[u].orders
          BY <1>0, <4>1 DEF HeldInv
        <5>2. members[u].number \in Numbers /\ members[u].orders \subseteq Orders
          BY <1>1, <5>1 DEF Inv, Tables, Membership, CipherMembership
        <5>3. numbers[members[u].number].order \in members[u].orders
          BY <4>1, <5>1 DEF Rows, HeldInv
        <5>4. members[u].number # n
          BY <3>1, <5>2, <5>3, CipherAssumption
        <5> QED
          BY <2>2, <5>2, <5>3, <5>4
      <4>4. ~OnRow(k.o)'
        <5>1. ~OnRow(k.o)
          BY <1>0, <4>1 DEF Claims
        <5> QED
          BY <1>0, <4>1, <5>1 DEF OnRow
      <4>5. Claims(p)'
        BY <2>2, <2>3, <4>4 DEF Claims
      <4> QED
        BY <3>3, <4>2, <4>3, <4>5 DEF ClaimInv
    <3>7. /\ \A m \in Numbers : numbers[m].order \in Orders \ {k.o} => numbers'[m].order = numbers[m].order
          /\ \A m \in Numbers : numbers'[m].order \in {numbers[m].order, k.o, Free}
      BY <2>2, <3>1, CipherAssumption
    <3> QED
      BY <1>0, <3>3, <3>5, <3>6, <3>7, NumbersHeld
  <2> QED
    BY <2>5, <2>6
<1>4. \/ Step(w, VoidStart(k, "SoldOut")) /\ UNCHANGED numbers
      \/ pool # {} /\ numbers' = [numbers EXCEPT ![n].order = k.o] /\ Step(w, p)
  BY DEF Claim
<1> QED
  BY <1>2, <1>3, <1>4

LEMMA RelPutHeld ==
    ASSUME Moving, NEW w \in Workers, RelPut(w)
    PROVE  Stays
<1> PICK k : k = wk[w]
  OBVIOUS
<1> PICK n : n = Done(k)
  OBVIOUS
<1>0. /\ k.pc = "rel_put" /\ k.pc \notin Bare /\ UNCHANGED <<orders, members, deleted, stripe>> /\ Step(w, n)
      /\ numbers' = [m \in Numbers |-> IF numbers[m].order = k.o THEN [order |-> Free, mark |-> FALSE] ELSE numbers[m]]
  BY DEF RelPut, At, Bare
<1>1. Inv /\ Whole(k) /\ k.o \in Orders /\ UNCHANGED course
  BY <1>0, Worker, MovingSays
<1>2. Calm(k, n) /\ n.number = 0 /\ n.pc \in {"release", "recheck"}
  BY <1>1, DoneCalm DEF Done, Whole, Fields
<1>3. wk'[w] = n /\ Alone(w)
  BY <1>0, <1>1, StepAlone
<1>4. Safe(k, n) /\ Reads(k, n) /\ n.c = k.c
  BY <1>2, CalmSafe
<1>5. KnownInv(w)'
  <2>1. LinkInv'
    BY <1>0, LinksKept DEF LinksStill
  <2>2. Sure(k, n) /\ Watched(n)'
    BY <1>4 DEF Safe, Watched
  <2> QED
    BY <1>0, <1>3, <1>4, <2>1, <2>2, SafeKnown
<1>6. \A m \in Numbers : numbers'[m].order = IF numbers[m].order = k.o THEN Free ELSE numbers[m].order
  BY <1>0
<1>7. ASSUME ~course.stalls PROVE NumbersInv' /\ ClaimInv(w)' /\ \A u \in Users : HeldInv(u)'
  <2>1. Rows /\ Unheld(k.o) /\ crossed' = crossed
    BY <1>0, <1>7, Worker, MovingSays DEF Held, Claims
  <2>2. NumbersInv'
    BY <1>6, <2>1 DEF Rows, NumbersInv
  <2>3. ASSUME NEW u \in Users PROVE HeldInv(u)'
    <3>1. SUFFICES ASSUME u \notin crossed, members[u] # NoMember PROVE numbers'[members[u].number].order \in members[u].orders
      BY <1>0, <2>1 DEF HeldInv
    <3>2. members[u].number \in Numbers
      BY <1>1, <3>1 DEF Inv, Tables, Membership, CipherMembership
    <3>3. numbers[members[u].number].order \in members[u].orders /\ numbers[members[u].number].order # k.o
      BY <2>1, <3>1 DEF Rows, HeldInv, Unheld
    <3> QED
      BY <1>6, <3>2, <3>3
  <2>4. ClaimInv(w)'
    BY <1>2, <1>3 DEF ClaimInv, Claims, Unsold, Voids
  <2> QED
    BY <2>2, <2>3, <2>4
<1>8. /\ \A m \in Numbers : numbers[m].order \in Orders \ {k.o} => numbers'[m].order = numbers[m].order
      /\ \A m \in Numbers : numbers'[m].order \in {numbers[m].order, k.o, Free}
  BY <1>6
<1> QED
  BY <1>0, <1>3, <1>5, <1>7, <1>8, NumbersHeld

-----------------------------------------------------------------------------
\* Where a behaviour starts, and every step

LEMMA InitHeld == Init => Held
<1> SUFFICES ASSUME Init PROVE Held
  OBVIOUS
<1>1. /\ course \in Courses /\ orders = [o \in Orders |-> OrderAt(o)]
      /\ members = [u \in Users |-> MemberAt(u)] /\ deleted = {} /\ wk = [w \in Workers |-> Idle] /\ crossed = {}
      /\ numbers = [n \in Numbers |-> [order |-> IF \E o \in Purchases : NumberAt[o] = n
                                                   THEN CHOOSE o \in Purchases : NumberAt[o] = n ELSE Free,
                                       mark |-> FALSE]]
  BY DEF Init
<1>2. ASSUME NEW o \in Orders
      PROVE  /\ orders[o].linked /\ orders[o].reason = "None"
             /\ orders[o].state \in {"Paid", "Fulfilled"} => orders[o].intent
             /\ o \in course.sold => orders[o].intent
  BY <1>1 DEF OrderAt, AbsentOrder
<1>3. ASSUME NEW o \in Orders PROVE ~stripe[o].void
  <2>1. PICK x : stripe[o] = [NewStripe EXCEPT !.session = x]
    BY DEF Init
  <2> QED
    BY <2>1 DEF NewStripe
<1>4. \A u \in Users : members[u].orders \subseteq course.sold
  BY <1>1 DEF MemberAt, NoMember, SoldTo
<1>5. course.sold \subseteq Orders /\ Purchases \subseteq course.sold
  BY <1>1, SoldBefore DEF Purchases
<1>6. Base
  BY <1>1, <1>2, <1>4, <1>5 DEF Base, PaidInv, IntentInv, LinkInv
<1>7. ASSUME NEW w \in Workers PROVE KnownInv(w) /\ ClaimInv(w)
  <2>1. wk[w] = Idle
    BY <1>1
  <2>2. Routed(Idle)
    BY IdleSays DEF Routed, InRelease, RelCalls, SyncCalls, ListCalls
  <2>3. Known(Idle)
    BY IdleSays DEF Known, Watched, Loop, Bare, Deleting, NoMember
  <2> QED
    BY <2>1, <2>2, <2>3, IdleSays DEF KnownInv, ClaimInv, Bare
<1>8. ASSUME NEW n \in Numbers, numbers[n].order # Free
      PROVE  numbers[n].order \in Purchases /\ NumberAt[numbers[n].order] = n
  BY <1>1, <1>8
<1>9. \A o \in Purchases : NumberAt[o] \in Numbers
  <2>1. \A o \in Purchases : NumberAt[o] \in 1 .. Cardinality(Purchases)
    BY <1>1, NumberAtType
  <2> QED
    BY <1>1, <2>1, SoldBefore, CipherAssumption DEF Numbers
<1>10. \A o \in Purchases : numbers[NumberAt[o]].order = o
  <2> TAKE o \in Purchases
  <2> PICK n : n = NumberAt[o]
    OBVIOUS
  <2>1. n \in Numbers /\ \E p \in Purchases : NumberAt[p] = n
    BY <1>9
  <2>2. numbers[n].order = CHOOSE p \in Purchases : NumberAt[p] = n
    BY <1>1, <2>1
  <2>3. numbers[n].order \in Purchases /\ NumberAt[numbers[n].order] = n
    BY <2>1, <2>2
  <2> QED
    BY <1>1, <2>3, NumberAtType
<1>11. NumbersInv
  BY <1>8, <1>10 DEF NumbersInv, Purchases
<1>12. ASSUME NEW u \in Users PROVE HeldInv(u)
  <2>1. SUFFICES ASSUME members[u] # NoMember PROVE numbers[members[u].number].order \in members[u].orders
    BY DEF HeldInv
  <2>2. SoldTo(u) # {}
    BY <1>1, <2>1 DEF MemberAt
  <2> PICK o : o = CHOOSE p \in SoldTo(u) : IsNew(p)
    OBVIOUS
  <2>3. o \in SoldTo(u) /\ IsNew(o)
    BY <1>1, <2>2, SoldBefore
  <2>4. o \in Purchases
    BY <2>3 DEF Purchases, SoldTo
  <2>5. members[u].number = NumberAt[o] /\ members[u].orders = SoldTo(u)
    BY <1>1, <2>2 DEF MemberAt
  <2> QED
    BY <1>10, <2>3, <2>4, <2>5
<1>13. \A o \in Orders : BoughtInv(o)
  BY <1>2, <1>3 DEF BoughtInv
<1> QED
  BY <1>6, <1>7, <1>11, <1>12, <1>13 DEF Held, Rows

LEMMA ReleaseNextHeld ==
    ASSUME Moving, NEW w \in Workers, ReleaseNext(w)
    PROVE  Stays
BY RelReadHeld, RelRevokeHeld, KeepMarkHeld, KeepCancelHeld, RelFenceHeld, RelUpHeld, RelRefundHeld,
   RelRecordHeld, RelFence2Held, RelDeleteHeld, RelMarkHeld, RelFreeHeld, RelPutHeld DEF ReleaseNext

LEMMA ReverseNextHeld ==
    ASSUME Moving, NEW w \in Workers, ReverseNext(w)
    PROVE  Stays
BY DisputeReadHeld, RecWriteHeld, LarReadHeld, LarCasHeld, RevRecordHeld, LostFenceHeld, LostCancelHeld,
   RelCheckHeld, ClearHeld, RefundPlanHeld, PlanFenceHeld, PlanMarkHeld, DownCasHeld, RevReadHeld,
   RevCasHeld, RevDoneHeld, RefundedHeld DEF ReverseNext

LEMMA FulfilNextHeld ==
    ASSUME Moving, NEW w \in Workers, FulfilNext(w)
    PROVE  Stays
BY RecheckHeld, PaidHeld, JudgeHeld, DecideHeld, NumberStepHeld, ClaimHeld, InsertHeld, InsertReadHeld,
   ReplaceHeld, UpgradeReadHeld, UpgradeCasHeld, PublishHeld, PublishLostHeld, FulfilledHeld, FinishHeld,
   DelReadHeld, DelMemberHeld, VoidMarkHeld, VoidRefundHeld, VoidUnmarkHeld, VoidWriteHeld,
   LatePaidHeld, LateRefundHeld, LateWriteHeld DEF FulfilNext

LEMMA HandlerHeld ==
    ASSUME Moving, NEW w \in Workers, Handler(w)
    PROVE  Stays
BY ReleaseHeld, SyncReadHeld, SyncUserHeld, SyncWriteHeld, ListReadHeld, ListCasHeld, ReleaseNextHeld,
   ReverseNextHeld, FulfilNextHeld, CreateHeld, StartSessionStepHeld, ExpireWriteHeld, DeleteNextHeld,
   VoidUnpaidWriteHeld, UnlinkOrdersHeld, DeleteMembershipHeld, DeleteUserHeld DEF Handler

LEMMA NextHeld ==
    ASSUME Inv, Held, [Next]_vars
    PROVE  Stays
<1>1. CASE UNCHANGED vars
  <2>1. UNCHANGED <<orders, members, numbers, deleted, stripe, wk, crossed, course>>
    BY <1>1 DEF vars
  <2>2. Crossing = {}
    BY <2>1 DEF Crossing
  <2>3. Moving
    BY <2>1, <2>2, NextKeeps DEF Moving, Aside
  <2> QED
    BY <2>1, <2>3, AsideHeld
<1>2. CASE Next
  <2>0. Moving
    BY <1>2, NextKeeps DEF Moving, Next
  <2>1. ASSUME NEW w \in Workers, Handler(w) \/ Fail(w) \/ Crash(w) PROVE Stays
    BY <2>0, <2>1, HandlerHeld, FailHeld, CrashHeld
  <2>2. ASSUME NEW w \in Workers, NEW o \in Orders, Checkout(w, o) \/ Event(w, o) \/ Sweep(w, o) PROVE Stays
    BY <2>0, <2>2, CheckoutHeld, EventHeld, SweepHeld
  <2>3. ASSUME NEW w \in Workers, NEW u \in Users, DeleteAccount(w, u) PROVE Stays
    BY <2>0, <2>3, DeleteAccountHeld
  <2>4. ASSUME NEW o \in Orders, Provider(o) \/ LeaseRunsOut(o, course.stalls) PROVE Stays
    BY <2>0, <2>4, ProviderHeld, LeaseRunsOutHeld
  <2> QED
    BY <1>2, <2>1, <2>2, <2>3, <2>4 DEF Next
<1> QED
  BY <1>1, <1>2

-----------------------------------------------------------------------------
\* The second invariant holds throughout: each worker knows of its order,
\* of the row it read and of the upgrades on that row what its next call
\* relies on, a number is a purchase's that has no other, and every row
\* agrees with the numbers and with what was refunded.
THEOREM RowInvariance == Spec => []Held
<1>1. Inv /\ Held /\ [Next]_vars => Held'
  BY NextHeld DEF Stays
<1> QED
  BY <1>1, InitHeld, Invariance, PTL DEF Spec

\* The number of a membership is claimed by one of its own orders: no
\* interleaving of purchases, number releases, account deletions, crashes
\* and failed calls has release_cipher_number free, or
\* claim_cipher_number hand to another, a number a row still has.
THEOREM NumbersAreHeld == Spec => []NumberHeld
<1>1. Held => NumberHeld
  BY DEF Held, Rows, HeldInv, NumberHeld
<1> QED
  BY <1>1, RowInvariance, PTL

\* A payment that a void gave back bought nothing: however void_paid and
\* apply_membership of several workers interleave, no membership lists an
\* order whose void was refunded.
THEOREM RefundsBuyNothing == Spec => []RefundedNeverApplied
<1>1. Held => RefundedNeverApplied
  BY CipherAssumption DEF Held, Rows, BoughtInv, OnRow, RefundedNeverApplied
<1> QED
  BY <1>1, RowInvariance, PTL

\* finish_number_release_locked deletes a live account's row only once
\* every upgrade on it is Refunded or Voided, in spite of the upgrades
\* being looked at without their leases, and nobody else deletes it.
THEOREM RowsGoRefunded == Spec => DeletedRowsRefunded
<1>1. Inv /\ Held /\ [Next]_vars =>
        [\A u \in Users \ (course.delete \cup crossed') :
           members[u] # NoMember /\ members'[u] = NoMember =>
               \A o \in members[u].orders : ~IsNew(o) => orders[o].state \in {"Refunded", "Voided"}]_vars
  BY NextHeld DEF Stays, Gone
<1> QED
  BY <1>1, Invariance, RowInvariance, PTL DEF Spec, DeletedRowsRefunded

=============================================================================
