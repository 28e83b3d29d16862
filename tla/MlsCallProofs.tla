--------------------------- MODULE MlsCallProofs ---------------------------
(***************************************************************************)
(* Proofs about MlsCall for any devices, groups, requests and bounds: the  *)
(* rows and the repairs implement the log of commits, and what follows.    *)
(***************************************************************************)
EXTENDS MlsCall, TLAPS

\* Rows are unique per epoch; those of a group the sweep has not chosen are the epochs up
\* to the group's own and perhaps the next, which was made against the group's roster
Unique == \A c, d \in commits : c.group = d.group /\ c.epoch = d.epoch => c = d
RowsOf(g) ==
    /\ \A c \in commits : c.group = g => c.epoch \in 1..(groups[g].epoch + 1)
    /\ \A c \in commits : c.group = g => c.epoch <= MaxEpoch[g]
    /\ \A k \in 1..groups[g].epoch : \E c \in commits : c.group = g /\ c.epoch = k
    /\ \A c \in commits : c.group = g /\ c.epoch = groups[g].epoch + 1
          => \A a \in c.change.add, m \in groups[g].members : UserOf[a] # UserOf[m]
    /\ groups[g].st = "none" => groups[g].epoch = 0 /\ \A c \in commits : c.group # g
    /\ groups[g].st # "gone"

\* A request that has read the group holds the roster of the epoch it read, and what it
\* is about to write is the commit after that epoch
HasRead == {"next", "repair", "insert", "winner", "apply", "consume", "deliver"}
Deciding == {"insert", "winner", "apply", "consume", "deliver"}
Decides(r) ==
    LET q == req[r] IN
    /\ groups[q.g].st \in {"open", "closed"}
    /\ q.pc \in HasRead =>
          /\ q.read.epoch <= groups[q.g].epoch
          /\ q.read.epoch = groups[q.g].epoch => q.read.members = groups[q.g].members
    /\ q.pc \in {"repair", "apply"} =>
          \E c \in commits : c.group = q.g /\ c.epoch = q.read.epoch + 1 /\ c.change = q.next
    /\ q.pc \in Deciding => q.op = "commit" /\ q.checked /\ q.epoch = q.read.epoch + 1
    /\ q.pc = "insert" => q.next \in Changes /\ \E d \in Devices : Acceptable(q, d, q.next)
    /\ q.op = "commit" =>
          /\ q.epoch \in 1..MaxEpoch[q.g]
          /\ ~q.early => q.epoch <= Head(q.g) + 1
    /\ q.op = "commit" /\ q.checked /\ ~q.early =>
          /\ q.epoch <= groups[q.g].epoch + 1
          /\ q.epoch = groups[q.g].epoch + 1 => q.seen = groups[q.g].members
          /\ q.pc \in HasRead /\ q.epoch = q.read.epoch + 1 => q.seen = q.read.members
    /\ ~q.early => q.pc # "ahead"

Shapes ==
    /\ groups \in [Groups -> GroupRow]
    /\ commits \subseteq CommitRow
    /\ intents \in [Groups -> SUBSET Devices]
    /\ req \in [Requests -> Request]
    /\ sweep.pc \in {"idle", "commits", "intents", "groups"} /\ sweep.ids \subseteq expired
    /\ expired \subseteq Groups

OnGroup(r) == req[r].pc \notin {"idle", "supersede", "claim"}

Named(r) ==
    /\ req[r].pc # "idle" => req[r].g \in Groups
    /\ req[r].pc = "supersede" => req[r].old \in Groups
    /\ req[r].pc \in {"store", "restore", "supersede", "claim"} => req[r].dev \in Devices
    /\ req[r].pc = "insert" => req[r].next \in Changes

Typed == Shapes /\ \A r \in Requests : Named(r)

Same(g) == groups'[g] = groups[g] /\ \A c : c.group = g => (c \in commits' <=> c \in commits)

Inv ==
    /\ Typed
    /\ Unique
    /\ \A g \in Groups \ expired : RowsOf(g)
    /\ \A g \in expired : groups[g].st # "none"
    /\ \A r \in Requests : OnGroup(r) /\ req[r].g \notin expired => Decides(r)

-----------------------------------------------------------------------------
\* Every request record a step writes has the shape of one
LEMMA IdleShape == Idle \in Request /\ Idle.pc = "idle"
  BY MlsNil DEF Idle, Request, GroupRow, NoRow, NoChange

\* What the checks after a read leave of a request (CommitRead, JoinRead)
LEMMA ReadDoneShape ==
    ASSUME NEW q \in Request, q.pc = "next", NEW q2 \in ReadDone(q)
    PROVE  /\ q2 \in Request
           /\ q2.pc # "idle" => q2.g = q.g
           /\ q2.pc \notin {"supersede", "claim", "next", "repair", "winner", "apply", "consume", "deliver"}
           /\ q2.pc \in {"store", "restore"} => q2.dev \in Devices
           /\ q2.pc = "insert" => q2.next \in Changes
<1> USE IdleShape, MlsChanges, MlsBounds
<1>1. CASE q.op = "commit"
  <2>1. q2 \in CommitRead(q)
    BY <1>1 DEF ReadDone
  <2>2. CASE q2 = Idle
    BY <2>2
  <2>3. CASE q2 = Fetch([q EXCEPT !.checked = TRUE, !.seen = q.read.members])
    BY <2>3 DEF Fetch, NoRow, Request, GroupRow
  <2>4. CASE q2 = [q EXCEPT !.pc = "ahead"]
    BY <2>4 DEF Request
  <2>5. CASE \E c \in Changes : q2 = [q EXCEPT !.pc = "insert", !.next = c]
    BY <2>5 DEF Request
  <2> QED
    BY <2>1, <2>2, <2>3, <2>4, <2>5 DEF CommitRead
<1>2. CASE q.op # "commit"
  <2>1. q2 = Idle \/ \E d \in Devices : q2 \in JoinRead(q, d)
    BY <1>2 DEF ReadDone
  <2>2. CASE q2 = Idle
    BY <2>2
  <2>3. ASSUME NEW d \in Devices, q2 \in JoinRead(q, d), q2 # Idle
        PROVE  q2 = [q EXCEPT !.pc = "close"]
               \/ \E b \in BOOLEAN : q2 = [q EXCEPT !.pc = "store", !.dev = d, !.rejoin = b]
    BY <2>3 DEF JoinRead
  <2>4. CASE q2 = [q EXCEPT !.pc = "close"]
    BY <2>4 DEF Request
  <2>5. ASSUME NEW d \in Devices, NEW b \in BOOLEAN,
               q2 = [q EXCEPT !.pc = "store", !.dev = d, !.rejoin = b]
        PROVE  q2 \in Request /\ q2.g = q.g /\ q2.pc = "store" /\ q2.dev \in Devices
    BY <2>5 DEF Request
  <2> QED
    BY <2>1, <2>2, <2>3, <2>4, <2>5
<1> QED
  BY <1>1, <1>2

\* A step of one request that leaves the rest of the state typed only has to leave its own
\* record typed
LEMMA OneRequest ==
    ASSUME Typed, NEW r \in Requests, NEW q \in Request, req' = [req EXCEPT ![r] = q],
           q.pc # "idle" => q.g \in Groups,
           q.pc = "supersede" => q.old \in Groups,
           q.pc \in {"store", "restore", "supersede", "claim"} => q.dev \in Devices,
           q.pc = "insert" => q.next \in Changes,
           groups' \in [Groups -> GroupRow], commits' \subseteq CommitRow,
           intents' \in [Groups -> SUBSET Devices], UNCHANGED <<sweep, expired>>
    PROVE  Typed'
<1>1. Shapes'
  BY DEF Typed, Shapes
<1>2. ASSUME NEW s \in Requests PROVE Named(s)'
  BY <1>2 DEF Typed, Shapes, Named
<1> QED
  BY <1>1, <1>2 DEF Typed

LEMMA TypedStep == Typed /\ Next => Typed'
<1> SUFFICES ASSUME Typed, Next PROVE Typed'
  OBVIOUS
<1> USE IdleShape, MlsChanges, MlsBounds
<1>0. /\ groups \in [Groups -> GroupRow] /\ commits \subseteq CommitRow
      /\ intents \in [Groups -> SUBSET Devices] /\ req \in [Requests -> Request]
  BY DEF Typed, Shapes
<1>1. ASSUME NEW r \in Requests, Answer(r), groups' \in [Groups -> GroupRow],
             commits' \subseteq CommitRow, intents' \in [Groups -> SUBSET Devices],
             UNCHANGED <<sweep, expired>>
      PROVE  Typed'
  BY <1>1, OneRequest DEF Answer
<1>2. ASSUME NEW r \in Requests, NEW pc, Goto(r, pc), [req[r] EXCEPT !.pc = pc] \in Request,
             pc \notin {"idle", "supersede", "claim", "store", "restore", "insert"}, req[r].pc # "idle",
             groups' \in [Groups -> GroupRow],
             commits' \subseteq CommitRow, intents' \in [Groups -> SUBSET Devices],
             UNCHANGED <<sweep, expired>>
      PROVE  Typed'
  <2> DEFINE q == [req[r] EXCEPT !.pc = pc]
  <2>1. q.pc = pc /\ q.g = req[r].g
    BY <1>0 DEF Request
  <2>2. req[r].g \in Groups /\ req' = [req EXCEPT ![r] = q]
    BY <1>0, <1>2 DEF Goto, Typed, Named
  <2> HIDE DEF q
  <2> QED
    BY <1>2, <2>1, <2>2, OneRequest DEF q
<1>3. ASSUME NEW r \in Requests, ApplyEffects(r), req[r].pc # "idle" PROVE groups' \in [Groups -> GroupRow]
  <2>1. req[r] \in Request /\ req[r].g \in Groups
    BY <1>0, <1>3 DEF Typed, Named
  <2>2. [st |-> "open", epoch |-> req[r].read.epoch + 1,
         members |-> AfterChange(req[r].read.members, req[r].next)] \in GroupRow
    BY <2>1 DEF Request, GroupRow, AfterChange
  <2>3. CASE Applies(r)
    BY <1>0, <1>3, <2>1, <2>2, <2>3 DEF ApplyEffects
  <2>4. CASE ~Applies(r)
    BY <1>0, <1>3, <2>4 DEF ApplyEffects
  <2> QED
    BY <2>3, <2>4
<1>4. ASSUME NEW r \in Requests, DeleteIntents(r) PROVE intents' \in [Groups -> SUBSET Devices]
  BY <1>0, <1>4 DEF DeleteIntents
<1>5. ASSUME NEW g, Closed(g) PROVE groups' \in [Groups -> GroupRow]
  BY <1>0, <1>5 DEF Closed, GroupRow
<1>6. ASSUME NEW r \in Requests, FetchAgain(r), req[r].pc # "idle", groups' \in [Groups -> GroupRow],
             commits' \subseteq CommitRow, intents' \in [Groups -> SUBSET Devices],
             UNCHANGED <<sweep, expired>>
      PROVE  Typed'
  <2> DEFINE q == [req[r] EXCEPT !.pc = "read", !.read = NoRow, !.next = NoChange]
  <2>0. NoRow \in GroupRow /\ NoChange \in [add : SUBSET Devices, rem : SUBSET Devices]
    BY DEF GroupRow, NoRow, NoChange
  <2>1. q \in Request /\ q.pc = "read" /\ q.g = req[r].g
    <3>1. req[r] \in Request
      BY <1>0
    <3> QED
      BY <2>0, <3>1 DEF Request
  <2>2. req[r].g \in Groups /\ req' = [req EXCEPT ![r] = q]
    BY <1>0, <1>6 DEF FetchAgain, Typed, Named
  <2> HIDE DEF q
  <2> QED
    BY <1>6, <2>1, <2>2, OneRequest
<1>10. ASSUME NEW r \in Requests, ReadGroup(r) PROVE Typed'
  <2> DEFINE q == [req[r] EXCEPT !.read = groups[req[r].g], !.pc = "next"]
  <2>1. req[r].g \in Groups
    BY <1>10 DEF ReadGroup, At, Typed, Named
  <2>2. q \in Request /\ q.pc = "next" /\ q.g = req[r].g
    BY <1>0, <2>1 DEF Request
  <2>3. CASE req' = [req EXCEPT ![r] = q]
    BY <1>0, <1>10, <2>1, <2>2, <2>3, OneRequest DEF ReadGroup
  <2> QED
    BY <1>0, <1>1, <1>10, <2>3 DEF ReadGroup
<1>11. ASSUME NEW r \in Requests, NextCommit(r) PROVE Typed'
  <2>1. req[r].g \in Groups /\ req[r].pc = "next" /\ req[r] \in Request
    BY <1>0, <1>11 DEF NextCommit, At, Typed, Named
  <2>2. ASSUME NEW c \in commits, req' = [req EXCEPT ![r].next = c.change, ![r].pc = "repair"]
        PROVE  Typed'
    <3> DEFINE q == [req[r] EXCEPT !.next = c.change, !.pc = "repair"]
    <3>1. c.change \in [add : SUBSET Devices, rem : SUBSET Devices]
      BY <1>0 DEF CommitRow
    <3>2. q \in Request /\ q.pc = "repair" /\ q.g = req[r].g
      BY <2>1, <3>1 DEF Request
    <3>3. req' = [req EXCEPT ![r] = q]
      BY <1>0, <2>2
    <3> HIDE DEF q
    <3> QED
      BY <1>0, <1>11, <2>1, <3>2, <3>3, OneRequest DEF NextCommit
  <2>3. ASSUME NEW q2 \in ReadDone(req[r]), req' = [req EXCEPT ![r] = q2] PROVE Typed'
    BY <1>0, <1>11, <2>1, <2>3, ReadDoneShape, OneRequest DEF NextCommit
  <2> QED
    BY <1>11, <2>2, <2>3 DEF NextCommit, Row
<1>12. ASSUME NEW r \in Requests, Repair(r) PROVE Typed'
  <2>1. req[r].pc = "repair" /\ groups' \in [Groups -> GroupRow]
    BY <1>3, <1>12 DEF Repair, At
  <2>2. [req[r] EXCEPT !.pc = "forget"] \in Request
    BY <1>0 DEF Request
  <2> QED
    BY <1>0, <1>2, <1>6, <1>12, <2>1, <2>2 DEF Repair
<1>13. ASSUME NEW r \in Requests, Forget(r) PROVE Typed'
  BY <1>0, <1>4, <1>6, <1>13 DEF Forget, At
<1>14. ASSUME NEW r \in Requests, StartCommit(r) PROVE Typed'
  <2>1. PICK g \in Groups : \E e \in 1..MaxEpoch[g] :
            req' = [req EXCEPT ![r] = Fetch([Idle EXCEPT !.op = "commit", !.g = g, !.epoch = e, !.early = e > Head(g) + 1])]
    BY <1>14 DEF StartCommit
  <2>2. PICK e \in 1..MaxEpoch[g] :
            req' = [req EXCEPT ![r] = Fetch([Idle EXCEPT !.op = "commit", !.g = g, !.epoch = e, !.early = e > Head(g) + 1])]
    BY <2>1
  <2> DEFINE q == Fetch([Idle EXCEPT !.op = "commit", !.g = g, !.epoch = e, !.early = e > Head(g) + 1])
  <2>b. e \in Nat /\ (e > Head(g) + 1) \in BOOLEAN
    BY MlsBounds
  <2>3. q \in Request /\ q.pc = "read" /\ q.g = g
    BY <2>b DEF Fetch, Request, GroupRow, NoRow
  <2> HIDE DEF q
  <2> QED
    BY <1>0, <1>14, <2>2, <2>3, OneRequest DEF StartCommit, q
<1>15. ASSUME NEW r \in Requests, InsertCommit(r) PROVE Typed'
  <2>1. req[r].g \in Groups /\ req[r].next \in Changes /\ req[r] \in Request
    BY <1>0, <1>15 DEF InsertCommit, At, Typed, Named
  <2>2. CASE Row(req[r].g, req[r].epoch) = {}
    <3> DEFINE q == [req[r] EXCEPT !.won = TRUE, !.pc = "apply"]
               c == [group |-> req[r].g, epoch |-> req[r].epoch, change |-> req[r].next]
    <3>1. q \in Request /\ q.pc = "apply" /\ q.g = req[r].g
      BY <2>1 DEF Request
    <3>2. req' = [req EXCEPT ![r] = q] /\ commits' = commits \cup {c}
      BY <1>0, <1>15, <2>2 DEF InsertCommit
    <3>3. c \in CommitRow
      BY <2>1 DEF CommitRow, Request
    <3> HIDE DEF q, c
    <3> QED
      BY <1>0, <1>15, <2>1, <3>1, <3>2, <3>3, OneRequest DEF InsertCommit
  <2>3. CASE Row(req[r].g, req[r].epoch) # {}
    <3> DEFINE q == [req[r] EXCEPT !.next = NoChange, !.pc = "winner"]
    <3>1. q \in Request /\ q.pc = "winner" /\ q.g = req[r].g
      BY <2>1 DEF Request, NoChange
    <3>2. req' = [req EXCEPT ![r] = q]
      BY <1>0, <1>15, <2>3 DEF InsertCommit
    <3> HIDE DEF q
    <3> QED
      BY <1>0, <1>15, <2>1, <2>3, <3>1, <3>2, OneRequest DEF InsertCommit
  <2> QED
    BY <2>2, <2>3
<1>16. ASSUME NEW r \in Requests, ReadWinner(r) PROVE Typed'
  <2>1. req[r].g \in Groups /\ req[r] \in Request
    BY <1>0, <1>16 DEF ReadWinner, At, Typed, Named
  <2>2. ASSUME NEW c \in commits, req' = [req EXCEPT ![r].next = c.change, ![r].pc = "apply"]
        PROVE  Typed'
    <3> DEFINE q == [req[r] EXCEPT !.next = c.change, !.pc = "apply"]
    <3>1. c.change \in [add : SUBSET Devices, rem : SUBSET Devices]
      BY <1>0 DEF CommitRow
    <3>2. q \in Request /\ q.pc = "apply" /\ q.g = req[r].g
      BY <2>1, <3>1 DEF Request
    <3>3. req' = [req EXCEPT ![r] = q]
      BY <1>0, <2>2
    <3> HIDE DEF q
    <3> QED
      BY <1>0, <1>16, <2>1, <3>2, <3>3, OneRequest DEF ReadWinner
  <2> QED
    BY <1>0, <1>1, <1>16, <2>2 DEF ReadWinner, Row
<1>17. ASSUME NEW r \in Requests, Apply(r) PROVE Typed'
  <2>1. req[r].pc = "apply" /\ groups' \in [Groups -> GroupRow]
    BY <1>3, <1>17 DEF Apply, At
  <2>2. [req[r] EXCEPT !.pc = "consume"] \in Request /\ [req[r] EXCEPT !.pc = "deliver"] \in Request
    BY <1>0 DEF Request
  <2> QED
    BY <1>0, <1>1, <1>2, <1>17, <2>1, <2>2 DEF Apply, AfterEffects
<1>18. ASSUME NEW r \in Requests, Consume(r) PROVE Typed'
  <2>1. [req[r] EXCEPT !.pc = "deliver"] \in Request
    BY <1>0 DEF Request
  <2> QED
    BY <1>0, <1>1, <1>2, <1>4, <1>18, <2>1 DEF Consume, AfterEffects, At
<1>19. ASSUME NEW r \in Requests, Deliver(r) PROVE Typed'
  BY <1>0, <1>1, <1>19 DEF Deliver
<1>20. ASSUME NEW r \in Requests, StartJoin(r) PROVE Typed'
  <2>1. PICK g \in Groups : req' = [req EXCEPT ![r] = Fetch([Idle EXCEPT !.op = "join", !.g = g])]
    BY <1>20 DEF StartJoin
  <2> DEFINE q == Fetch([Idle EXCEPT !.op = "join", !.g = g])
  <2>2. q \in Request /\ q.pc = "read" /\ q.g = g
    BY DEF Fetch, Request, GroupRow, NoRow
  <2> HIDE DEF q
  <2> QED
    BY <1>0, <1>20, <2>1, <2>2, OneRequest DEF StartJoin, q
<1>21. ASSUME NEW r \in Requests, StoreIntent(r) PROVE Typed'
  <2>1. req[r].g \in Groups /\ req[r].dev \in Devices /\ req[r] \in Request
    BY <1>0, <1>21 DEF StoreIntent, At, Typed, Named
  <2>2. intents' \in [Groups -> SUBSET Devices]
    BY <1>0, <1>21, <2>1 DEF StoreIntent
  <2>3. [req[r] EXCEPT !.pc = "intents"] \in Request
    BY <2>1 DEF Request
  <2>4. CASE Goto(r, "restore")
    <3> DEFINE q == [req[r] EXCEPT !.pc = "restore"]
    <3>1. q \in Request /\ q.pc = "restore" /\ q.g = req[r].g /\ q.dev = req[r].dev
      BY <2>1 DEF Request
    <3>2. req' = [req EXCEPT ![r] = q]
      BY <1>0, <2>4 DEF Goto
    <3> HIDE DEF q
    <3> QED
      BY <1>0, <1>21, <2>1, <2>2, <3>1, <3>2, OneRequest DEF StoreIntent
  <2> QED
    BY <1>0, <1>1, <1>2, <1>21, <2>2, <2>3, <2>4 DEF StoreIntent, At
<1>22. ASSUME NEW r \in Requests, RestoreIntent(r) PROVE Typed'
  <2>1. req[r].dev \in Devices
    BY <1>22 DEF RestoreIntent, At, Typed, Named
  <2> QED
    BY <1>0, <1>1, <1>22, <2>1 DEF RestoreIntent
<1>23. ASSUME NEW r \in Requests, ReadIntents(r) PROVE Typed'
  <2>1. [req[r] EXCEPT !.pc = "close"] \in Request
    BY <1>0 DEF Request
  <2> QED
    BY <1>0, <1>1, <1>2, <1>23, <2>1 DEF ReadIntents, At
<1>24. ASSUME NEW r \in Requests, CloseGroup(r) PROVE Typed'
  BY <1>0, <1>1, <1>5, <1>24 DEF CloseGroup
<1>25. ASSUME NEW r \in Requests, StartCreate(r) PROVE Typed'
  <2>1. PICK g \in Groups, d \in Devices, old \in Groups \cup {Nil} :
            req' = [req EXCEPT ![r] = [Idle EXCEPT !.op = "create", !.g = g, !.dev = d, !.old = old,
                                          !.pc = IF old = Nil THEN "claim" ELSE "supersede"]]
    BY <1>25 DEF StartCreate
  <2> DEFINE q == [Idle EXCEPT !.op = "create", !.g = g, !.dev = d, !.old = old,
                               !.pc = IF old = Nil THEN "claim" ELSE "supersede"]
  <2>2. /\ q \in Request /\ q.g = g /\ q.old = old /\ q.dev = d
        /\ q.pc = (IF old = Nil THEN "claim" ELSE "supersede")
    BY DEF Request
  <2> HIDE DEF q
  <2>3. req' = [req EXCEPT ![r] = q]
    BY <2>1 DEF q
  <2> QED
    BY <1>0, <1>25, <2>2, <2>3, OneRequest DEF StartCreate
<1>26. ASSUME NEW r \in Requests, Supersede(r) PROVE Typed'
  <2> DEFINE q == [req[r] EXCEPT !.pc = "claim"]
  <2>1. req[r] \in Request /\ req[r].g \in Groups /\ req[r].dev \in Devices
    BY <1>0, <1>26 DEF Supersede, At, Typed, Named
  <2>2. q \in Request /\ q.pc = "claim" /\ q.g = req[r].g /\ q.dev = req[r].dev
    BY <2>1 DEF Request
  <2>3. groups' \in [Groups -> GroupRow]
    BY <1>5, <1>26 DEF Supersede
  <2>4. CASE Goto(r, "claim")
    <3>1. req' = [req EXCEPT ![r] = q]
      BY <1>0, <2>4 DEF Goto
    <3> HIDE DEF q
    <3> QED
      BY <1>0, <1>26, <2>1, <2>2, <2>3, <3>1, OneRequest DEF Supersede
  <2> QED
    BY <1>0, <1>1, <1>26, <2>3, <2>4 DEF Supersede
<1>27. ASSUME NEW r \in Requests, Claim(r) PROVE Typed'
  <2>1. req[r].dev \in Devices
    BY <1>0, <1>27 DEF Claim, At, Typed, Named
  <2>2. [st |-> "open", epoch |-> 0, members |-> {req[r].dev}] \in GroupRow
    BY <2>1 DEF GroupRow
  <2>3. groups' \in [Groups -> GroupRow]
    BY <1>0, <1>27, <2>2 DEF Claim
  <2> QED
    BY <1>0, <1>1, <1>27, <2>3 DEF Claim
<1>28. ASSUME NEW r \in Requests, Crash(r) PROVE Typed'
  BY <1>0, <1>1, <1>28 DEF Crash
<1>29. ASSUME UNCHANGED req, Shapes' PROVE Typed'
  BY <1>29 DEF Typed, Named
<1>30. ASSUME NEW g \in Groups, CallEnds(g) PROVE Typed'
  BY <1>0, <1>5, <1>29, <1>30 DEF CallEnds, Typed, Shapes
<1>31. ASSUME NEW g \in Groups, NEW d \in Devices, IntentAges(g, d) PROVE Typed'
  BY <1>0, <1>29, <1>31 DEF IntentAges, Typed, Shapes
<1>32. CASE SweepFind
  BY <1>0, <1>29, <1>32 DEF SweepFind, Typed, Shapes
<1>33. CASE SweepCommits
  BY <1>0, <1>29, <1>33 DEF SweepCommits, Typed, Shapes
<1>34. CASE SweepIntents
  BY <1>0, <1>29, <1>34 DEF SweepIntents, Typed, Shapes
<1>35. CASE SweepGroups
  BY <1>0, <1>29, <1>35 DEF SweepGroups, Typed, Shapes, GroupRow, NoRow
<1>36. CASE SweepCrash
  BY <1>0, <1>29, <1>36 DEF SweepCrash, Typed, Shapes
<1> QED
  BY <1>10, <1>11, <1>12, <1>13, <1>14, <1>15, <1>16, <1>17, <1>18, <1>19, <1>20, <1>21, <1>22,
     <1>23, <1>24, <1>25, <1>26, <1>27, <1>28, <1>30, <1>31, <1>32, <1>33, <1>34, <1>35, <1>36
     DEF Next, Step
-----------------------------------------------------------------------------
\* A group and its rows that stay as they are keep what is known of them
LEMMA RowsFrame ==
    ASSUME Typed, Typed', NEW g \in Groups, Same(g), RowsOf(g) PROVE RowsOf(g)'
<1>1. /\ groups'[g] = groups[g]
      /\ \A c \in commits' : c.group = g => c \in commits
      /\ \A c \in commits : c.group = g => c \in commits'
  BY DEF Same
<1> QED
  BY <1>1 DEF RowsOf

LEMMA DecidesFrame ==
    ASSUME Typed, Typed', NEW s \in Requests, req'[s] = req[s], req[s].g \in Groups, Same(req[s].g),
           Decides(s)
    PROVE  Decides(s)'
<1> DEFINE g == req[s].g
<1>1. groups'[g] = groups[g] /\ Row(g, groups[g].epoch + 1)' = Row(g, groups[g].epoch + 1)
  BY DEF Same, Row
<1>2. Head(g)' = Head(g)
  BY <1>1 DEF Head
<1>3. (\E c \in commits : c.group = g /\ c.epoch = req[s].read.epoch + 1 /\ c.change = req[s].next)
      => (\E c \in commits' : c.group = g /\ c.epoch = req[s].read.epoch + 1 /\ c.change = req[s].next)
  BY DEF Same
<1> QED
  BY <1>1, <1>2, <1>3 DEF Decides, Acceptable

\* A step of a request that writes neither groups nor rows
LEMMA LocalStep ==
    ASSUME Inv, Typed', NEW r \in Requests, UNCHANGED <<groups, commits, expired>>,
           \A s \in Requests \ {r} : req'[s] = req[s],
           OnGroup(r)' /\ req'[r].g \notin expired => Decides(r)'
    PROVE  Inv'
<1>1. \A g \in Groups : Same(g)
  BY DEF Same
<1>2. Unique' /\ \A g \in expired' : groups'[g].st # "none"
  BY DEF Inv, Unique
<1>3. ASSUME NEW g \in Groups \ expired' PROVE RowsOf(g)'
  BY <1>1, <1>3, RowsFrame DEF Inv
<1>4. ASSUME NEW s \in Requests, OnGroup(s)', req'[s].g \notin expired' PROVE Decides(s)'
  <2>1. CASE s = r
    BY <1>4, <2>1
  <2>2. CASE s # r
    <3>1. req'[s] = req[s] /\ OnGroup(s) /\ req[s].g \in Groups /\ req[s].g \notin expired
      BY <1>4, <2>2 DEF OnGroup, Inv, Typed, Named
    <3> QED
      BY <1>1, <3>1, DecidesFrame DEF Inv
  <2> QED
    BY <2>1, <2>2
<1> QED
  BY <1>2, <1>3, <1>4 DEF Inv

\* What a request still has to know once the winner's effects are written, or before it
\* has read anything
LEMMA DecidesLater ==
    ASSUME NEW r \in Requests, NEW g, req'[r].g = g, req'[r].pc \in {"read", "forget", "consume", "deliver"},
           groups'[g].st \in {"open", "closed"},
           req'[r].pc \in {"consume", "deliver"} =>
               /\ req'[r].read.epoch <= groups'[g].epoch
               /\ req'[r].read.epoch = groups'[g].epoch
                     => req'[r].read.members = groups'[g].members
               /\ req'[r].op = "commit" /\ req'[r].checked
               /\ req'[r].epoch = req'[r].read.epoch + 1 /\ (~req'[r].early => req'[r].seen = req'[r].read.members),
           req'[r].op = "commit" => req'[r].epoch \in 1..MaxEpoch[g] /\ (~req'[r].early => req'[r].epoch <= Head(g)' + 1),
           req'[r].op = "commit" /\ req'[r].checked /\ ~req'[r].early =>
               /\ req'[r].epoch <= groups'[g].epoch + 1
               /\ req'[r].epoch = groups'[g].epoch + 1 => req'[r].seen = groups'[g].members
    PROVE  Decides(r)'
<1> DEFINE q == req'[r]
<1>1. /\ q.pc \notin {"repair", "apply", "insert", "ahead"}
      /\ q.pc \in HasRead <=> q.pc \in {"consume", "deliver"}
      /\ q.pc \in Deciding <=> q.pc \in {"consume", "deliver"}
  BY DEF HasRead, Deciding
<1> QED
  BY <1>1 DEF Decides

\* Taking the next commit: apply_mls_commit_effects when its filter matches
LEMMA EffectsStep ==
    ASSUME Inv, Typed', NEW r \in Requests, NEW g, g = req[r].g,
           ApplyEffects(r), UNCHANGED <<commits, expired>>,
           req[r].pc \in {"repair", "apply"},
           \A s \in Requests \ {r} : req'[s] = req[s],
           OnGroup(r)' => req'[r].g = req[r].g,
           OnGroup(r)' /\ req'[r].g \notin expired => req'[r].pc \in {"read", "forget", "consume", "deliver"},
           req'[r].pc \in {"consume", "deliver"} => req[r].pc = "apply" /\ req'[r].read = req[r].read,
           OnGroup(r)' => /\ req'[r].op = req[r].op /\ req'[r].epoch = req[r].epoch
                          /\ req'[r].checked = req[r].checked /\ req'[r].early = req[r].early /\ req'[r].seen = req[r].seen
    PROVE  Inv'
<1> DEFINE old == groups[g]
<1>0. /\ g \in Groups /\ OnGroup(r) /\ groups \in [Groups -> GroupRow] /\ commits \subseteq CommitRow
      /\ req \in [Requests -> Request]
  BY DEF Inv, Typed, Shapes, Named, OnGroup
<1>1. \A h \in Groups \ {g} : Same(h)
  BY <1>0 DEF ApplyEffects, Same
<1>2. CASE g \in expired \/ ~Applies(r)
  <2>1. \A h \in Groups \ expired : Same(h)
    BY <1>0, <1>1, <1>2 DEF ApplyEffects, Same
  <2>2. Unique' /\ \A h \in expired' : groups'[h].st # "none"
    BY <1>0, <1>2 DEF Inv, Unique, ApplyEffects, Applies, GroupRow, Typed, Shapes
  <2>3. ASSUME NEW h \in Groups \ expired' PROVE RowsOf(h)'
    BY <2>1, <2>3, RowsFrame DEF Inv
  <2>4. ASSUME NEW s \in Requests, OnGroup(s)', req'[s].g \notin expired' PROVE Decides(s)'
    <3>1. CASE s # r
      <4>1. req'[s] = req[s] /\ OnGroup(s) /\ req[s].g \in Groups /\ req[s].g \notin expired
        BY <2>4, <3>1 DEF OnGroup, Inv, Typed, Named
      <4> QED
        BY <2>1, <4>1, DecidesFrame DEF Inv
    <3>2. CASE s = r
      <4>1. g \notin expired /\ Decides(r) /\ Same(g)
        BY <1>0, <2>1, <2>4, <3>2 DEF Inv
      <4>2. groups'[g] = groups[g] /\ Head(g)' = Head(g)
        BY <4>1 DEF Same, Head, Row
      <4>3. /\ req'[r].g = g /\ req'[r].pc \in {"read", "forget", "consume", "deliver"}
            /\ req'[r].op = req[r].op /\ req'[r].epoch = req[r].epoch
            /\ req'[r].checked = req[r].checked /\ req'[r].early = req[r].early /\ req'[r].seen = req[r].seen
        BY <2>4, <3>2
      <4>4. /\ groups[g].st \in {"open", "closed"}
            /\ req[r].op = "commit" => req[r].epoch \in 1..MaxEpoch[g] /\ (~req[r].early => req[r].epoch <= Head(g) + 1)
            /\ req[r].op = "commit" /\ req[r].checked /\ ~req[r].early =>
                  /\ req[r].epoch <= groups[g].epoch + 1
                  /\ req[r].epoch = groups[g].epoch + 1 => req[r].seen = groups[g].members
        BY <4>1 DEF Decides
      <4>5. ASSUME req'[r].pc \in {"consume", "deliver"}
            PROVE  /\ req'[r].read = req[r].read /\ req[r].read.epoch <= groups[g].epoch
                   /\ req[r].read.epoch = groups[g].epoch => req[r].read.members = groups[g].members
                   /\ req[r].op = "commit" /\ req[r].checked
                   /\ req[r].epoch = req[r].read.epoch + 1 /\ (~req[r].early => req[r].seen = req[r].read.members)
        BY <4>1, <4>5 DEF Decides, HasRead, Deciding
      <4> QED
        BY <3>2, <4>2, <4>3, <4>4, <4>5, DecidesLater
    <3> QED
      BY <3>1, <3>2
  <2> QED
    BY <2>2, <2>3, <2>4 DEF Inv
<1>3. CASE g \notin expired /\ Applies(r)
  <2>1. Decides(r) /\ RowsOf(g)
    BY <1>0, <1>3 DEF Inv
  <2>2. PICK c \in commits : c.group = g /\ c.epoch = req[r].read.epoch + 1 /\ c.change = req[r].next
    BY <2>1 DEF Decides
  <2>3. /\ old.st = "open" /\ old.epoch = req[r].read.epoch /\ old.members = req[r].read.members
        /\ old.epoch \in Nat
    BY <1>0, <1>3, <2>1 DEF Decides, Applies, HasRead, GroupRow
  <2>4. /\ groups'[g].st = "open" /\ groups'[g].epoch = old.epoch + 1
        /\ groups'[g].members = AfterChange(old.members, c.change)
    BY <1>0, <1>3, <2>2, <2>3 DEF ApplyEffects
  <2>5. Head(g) = old.epoch + 1 /\ Head(g)' = old.epoch + 1
    <3>1. c \in Row(g, old.epoch + 1)
      BY <2>2, <2>3 DEF Row
    <3>2. \A d \in commits' : ~(d.group = g /\ d.epoch = groups'[g].epoch + 1)
      BY <1>0, <2>1, <2>3, <2>4 DEF RowsOf, CommitRow
    <3>3. Row(g, groups[g].epoch + 1)' = {}
      BY <3>2 DEF Row
    <3> QED
      BY <2>3, <2>4, <3>1, <3>3 DEF Head
  <2>6. RowsOf(g)'
    <3>1. \A d \in commits' : d.group = g => d.epoch \in 1..(groups'[g].epoch + 1) /\ d.epoch # groups'[g].epoch + 1
      BY <1>0, <2>1, <2>3, <2>4 DEF RowsOf, CommitRow
    <3>2. \A k \in 1..groups'[g].epoch : \E d \in commits' : d.group = g /\ d.epoch = k
      BY <2>1, <2>2, <2>3, <2>4 DEF RowsOf
    <3>3. \A d \in commits' : d.group = g => d.epoch <= MaxEpoch[g]
      BY <2>1 DEF RowsOf
    <3>4. groups'[g].st \notin {"none", "gone"}
      BY <2>4
    <3> QED
      BY <3>1, <3>2, <3>3, <3>4 DEF RowsOf
  <2>7. ASSUME NEW h \in Groups \ expired' PROVE RowsOf(h)'
    BY <1>1, <2>6, <2>7, RowsFrame DEF Inv
  <2>8. Unique' /\ \A h \in expired' : groups'[h].st # "none"
    BY <1>0, <1>1, <1>3 DEF Inv, Unique, Same, Typed, Shapes
  <2>9. ASSUME NEW s \in Requests, OnGroup(s)', req'[s].g \notin expired' PROVE Decides(s)'
    <3>1. CASE s # r
      <4>1. req'[s] = req[s] /\ OnGroup(s) /\ req[s].g \in Groups /\ req[s].g \notin expired /\ Decides(s)
        BY <2>9, <3>1 DEF OnGroup, Inv, Typed, Named
      <4>2. CASE req[s].g # g
        BY <1>1, <4>1, <4>2, DecidesFrame DEF Inv
      <4>3. CASE req[s].g = g
        <5>1. req[s].read.epoch \in Nat /\ req[s].epoch \in Nat
          BY <1>0 DEF Request, GroupRow
        <5>2. req[s].pc \in HasRead => req[s].read.epoch <= old.epoch
          BY <4>1, <4>3 DEF Decides
        <5>3. req[s].op = "commit" /\ req[s].checked /\ ~req[s].early => req[s].epoch <= old.epoch + 1
          BY <4>1, <4>3 DEF Decides
        <5>4. req'[s].pc \in HasRead =>
                 req'[s].read.epoch <= groups'[g].epoch /\ req'[s].read.epoch # groups'[g].epoch
          BY <2>3, <2>4, <4>1, <5>1, <5>2
        <5>5. req'[s].op = "commit" /\ req'[s].checked /\ ~req'[s].early =>
                 req'[s].epoch <= groups'[g].epoch + 1 /\ req'[s].epoch # groups'[g].epoch + 1
          BY <2>3, <2>4, <4>1, <5>1, <5>3
        <5>6. req'[s].op = "commit" => req'[s].epoch \in 1..MaxEpoch[g] /\ (~req'[s].early => req'[s].epoch <= Head(g)' + 1)
          BY <2>5, <4>1, <4>3 DEF Decides
        <5>7. /\ req'[s].pc \in {"repair", "apply"} =>
                    \E d \in commits' : /\ d.group = g /\ d.epoch = req'[s].read.epoch + 1
                                        /\ d.change = req'[s].next
              /\ req'[s].pc \in Deciding => /\ req'[s].op = "commit" /\ req'[s].checked
                                            /\ req'[s].epoch = req'[s].read.epoch + 1
              /\ req'[s].pc \in HasRead /\ req'[s].op = "commit" /\ req'[s].checked /\ ~req'[s].early
                    /\ req'[s].epoch = req'[s].read.epoch + 1 => req'[s].seen = req'[s].read.members
              /\ ~req'[s].early => req'[s].pc # "ahead"
          BY <4>1, <4>3 DEF Decides
        <5>8. req'[s].pc = "insert" =>
                 req'[s].next \in Changes /\ \E d \in Devices : Acceptable(req'[s], d, req'[s].next)
          BY <4>1 DEF Decides
        <5> QED
          BY <2>4, <4>1, <4>3, <5>4, <5>5, <5>6, <5>7, <5>8 DEF Decides
      <4> QED
        BY <4>2, <4>3
    <3>2. CASE s = r
      <4>3. /\ req'[r].g = g /\ req'[r].pc \in {"read", "forget", "consume", "deliver"}
            /\ req'[r].op = req[r].op /\ req'[r].epoch = req[r].epoch
            /\ req'[r].checked = req[r].checked /\ req'[r].early = req[r].early /\ req'[r].seen = req[r].seen
        BY <2>9, <3>2
      <4>4. /\ req[r].op = "commit" => req[r].epoch \in 1..MaxEpoch[g] /\ (~req[r].early => req[r].epoch <= Head(g) + 1)
            /\ req[r].op = "commit" /\ req[r].checked /\ ~req[r].early => req[r].epoch <= old.epoch + 1
        BY <2>1 DEF Decides
      <4>5. ASSUME req'[r].pc \in {"consume", "deliver"}
            PROVE  /\ req'[r].read = req[r].read /\ req[r].op = "commit" /\ req[r].checked
                   /\ req[r].epoch = req[r].read.epoch + 1 /\ (~req[r].early => req[r].seen = req[r].read.members)
        BY <2>1, <4>5 DEF Decides, HasRead, Deciding
      <4>6. req[r].epoch \in Nat
        BY <1>0 DEF Request
      <4> QED
        BY <2>3, <2>4, <2>5, <3>2, <4>3, <4>4, <4>5, <4>6, DecidesLater
    <3> QED
      BY <3>1, <3>2
  <2> QED
    BY <2>7, <2>8, <2>9 DEF Inv
<1> QED
  BY <1>2, <1>3

\* Winning an epoch: the row is new, so the group is still at the epoch the request read
LEMMA InsertStep ==
    ASSUME Inv, Typed', NEW r \in Requests, NEW g, g = req[r].g, InsertCommit(r), Row(g, req[r].epoch) = {},
           g \notin expired
    PROVE  /\ groups[g].epoch = req[r].read.epoch /\ groups[g].members = req[r].read.members
           /\ req[r].epoch = groups[g].epoch + 1 /\ Pending(g) = {}
           /\ groups[g].st \in {"open", "closed"}
           /\ \E d \in Devices : Acceptable(req[r], d, req[r].next)
           /\ Inv'
<1> DEFINE new == [group |-> g, epoch |-> req[r].epoch, change |-> req[r].next]
           q == [req[r] EXCEPT !.won = TRUE, !.pc = "apply"]
<1>0. /\ g \in Groups /\ OnGroup(r) /\ groups \in [Groups -> GroupRow] /\ commits \subseteq CommitRow
      /\ req \in [Requests -> Request] /\ req[r].pc = "insert" /\ req[r].next \in Changes
  BY DEF Inv, Typed, Shapes, Named, OnGroup, InsertCommit, At
<1>1. Decides(r) /\ RowsOf(g)
  BY <1>0 DEF Inv
<1>2. /\ req[r].epoch = req[r].read.epoch + 1 /\ req[r].read.epoch <= groups[g].epoch
      /\ req[r].read.epoch \in Nat /\ groups[g].epoch \in Nat
  BY <1>0, <1>1 DEF Decides, HasRead, Deciding, Request, GroupRow
<1>3. groups[g].epoch = req[r].read.epoch
  <2>1. ~(req[r].epoch \in 1..groups[g].epoch)
    BY <1>1 DEF RowsOf, Row
  <2> QED
    BY <1>2, <2>1
<1>4. /\ groups[g].members = req[r].read.members /\ req[r].epoch = groups[g].epoch + 1
      /\ Pending(g) = {} /\ groups[g].st \in {"open", "closed"}
      /\ \E d \in Devices : Acceptable(req[r], d, req[r].next)
  BY <1>0, <1>1, <1>2, <1>3 DEF Decides, HasRead, Pending
<1>5. /\ commits' = commits \cup {new} /\ req' = [req EXCEPT ![r] = q]
      /\ UNCHANGED <<groups, intents, sweep, expired>>
  BY <1>0 DEF InsertCommit
<1>new. new \in commits' /\ new.group = g /\ new.epoch = req[r].epoch /\ new.change = req[r].next
  BY <1>5
<1>6. \A h \in Groups \ {g} : Same(h)
  BY <1>5 DEF Same
<1>7. Unique'
  BY <1>5 DEF Inv, Unique, Row
<1>8. RowsOf(g)'
  <2>1. \A c \in commits' : c.group = g => c.epoch \in 1..(groups'[g].epoch + 1) /\ c.epoch <= MaxEpoch[g]
    BY <1>0, <1>1, <1>2, <1>4, <1>5 DEF RowsOf, Decides, Deciding
  <2>2. \A k \in 1..groups'[g].epoch : \E c \in commits' : c.group = g /\ c.epoch = k
    BY <1>1, <1>5 DEF RowsOf
  <2>3. \A c \in commits' : c.group = g /\ c.epoch = groups'[g].epoch + 1 => c = new
    BY <1>4, <1>5 DEF Pending, Row
  <2>4. \A a \in new.change.add, m \in groups'[g].members : UserOf[a] # UserOf[m]
    BY <1>4, <1>5 DEF Acceptable
  <2> QED
    BY <1>4, <1>5, <2>1, <2>2, <2>3, <2>4 DEF RowsOf
<1>9. ASSUME NEW h \in Groups \ expired' PROVE RowsOf(h)'
  BY <1>6, <1>8, <1>9, <1>5, RowsFrame DEF Inv
<1>10. Head(g) = groups[g].epoch /\ Head(g)' = groups[g].epoch + 1
  <2>1. \E c \in commits' : c.group = g /\ c.epoch = groups'[g].epoch + 1
    BY <1>4, <1>5, <1>new
  <2>2. Row(g, groups[g].epoch + 1)' # {}
    BY <2>1 DEF Row
  <2> QED
    BY <1>2, <1>4, <1>5, <2>2 DEF Head, Pending
<1>11. ASSUME NEW s \in Requests, OnGroup(s)', req'[s].g \notin expired' PROVE Decides(s)'
  <2>1. CASE s = r
    <3>1. /\ req'[r].pc = "apply" /\ req'[r].g = g /\ req'[r].epoch = req[r].epoch
          /\ req'[r].read = req[r].read /\ req'[r].op = req[r].op /\ req'[r].next = req[r].next
          /\ req'[r].checked = req[r].checked /\ req'[r].early = req[r].early /\ req'[r].seen = req[r].seen
      <4>1. req'[r] = q /\ req[r] \in Request
        BY <1>0, <1>5
      <4> QED
        BY <4>1 DEF Request
    <3>2. /\ req[r].op = "commit" /\ req[r].checked /\ req[r].epoch \in 1..MaxEpoch[g]
          /\ ~req[r].early => req[r].seen = groups[g].members /\ req[r].seen = req[r].read.members
      BY <1>0, <1>1, <1>4 DEF Decides, HasRead, Deciding
    <3>3. \E c \in commits' : c.group = g /\ c.epoch = req[r].read.epoch + 1 /\ c.change = req[r].next
      BY <1>2, <1>new
    <3> QED
      BY <1>2, <1>3, <1>4, <1>5, <1>10, <2>1, <3>1, <3>2, <3>3 DEF Decides, HasRead, Deciding
  <2>2. CASE s # r
    <3>1. req'[s] = req[s] /\ OnGroup(s) /\ req[s].g \in Groups /\ req[s].g \notin expired /\ Decides(s)
      BY <1>5, <1>11, <2>2 DEF OnGroup, Inv, Typed, Named
    <3>2. CASE req[s].g # g
      BY <1>6, <3>1, <3>2, DecidesFrame DEF Inv
    <3>3. CASE req[s].g = g
      <4>1. req[s].op = "commit" /\ ~req[s].early => req[s].epoch <= Head(g)' + 1
        BY <1>0, <1>2, <1>10, <3>1, <3>3 DEF Decides, Request
      <4>2. (\E c \in commits : c.group = g /\ c.epoch = req[s].read.epoch + 1 /\ c.change = req[s].next)
            => (\E c \in commits' : c.group = g /\ c.epoch = req[s].read.epoch + 1 /\ c.change = req[s].next)
        BY <1>5
      <4> QED
        BY <1>5, <3>1, <3>3, <4>1, <4>2 DEF Decides, Acceptable
    <3> QED
      BY <3>2, <3>3
  <2> QED
    BY <2>1, <2>2
<1>12. \A h \in expired' : groups'[h].st # "none"
  BY <1>5 DEF Inv
<1> QED
  BY <1>3, <1>4, <1>7, <1>9, <1>11, <1>12 DEF Inv

\* Closing a group, whoever does it
LEMMA CloseStep ==
    ASSUME Inv, Typed', NEW g \in Groups, Closed(g), UNCHANGED <<commits, expired>>,
           \A s \in Requests : OnGroup(s)' => req'[s] = req[s]
    PROVE  Inv'
<1>0. groups \in [Groups -> GroupRow]
  BY DEF Inv, Typed, Shapes
<1>1. /\ \A h \in Groups : groups'[h].epoch = groups[h].epoch /\ groups'[h].members = groups[h].members
      /\ \A h \in Groups : groups'[h].st = groups[h].st \/ (groups[h].st = "open" /\ groups'[h].st = "closed")
  BY <1>0 DEF Closed, GroupRow
<1>2. Unique' /\ \A h \in expired' : groups'[h].st # "none"
  BY <1>1 DEF Inv, Unique, Typed, Shapes
<1>3. ASSUME NEW h \in Groups \ expired' PROVE RowsOf(h)'
  BY <1>1, <1>3 DEF Inv, RowsOf
<1>4. ASSUME NEW s \in Requests, OnGroup(s)', req'[s].g \notin expired' PROVE Decides(s)'
  <2>1. req'[s] = req[s] /\ req[s].g \in Groups /\ Decides(s)
    BY <1>4 DEF OnGroup, Inv, Typed, Named
  <2>2. /\ groups'[req[s].g].epoch = groups[req[s].g].epoch
        /\ groups'[req[s].g].members = groups[req[s].g].members
        /\ groups'[req[s].g].st \in {"open", "closed"}
    BY <1>1, <2>1 DEF Decides
  <2>3. Head(req[s].g)' = Head(req[s].g)
    BY <2>1, <2>2 DEF Head, Row
  <2> QED
    BY <2>1, <2>2, <2>3 DEF Decides
<1> QED
  BY <1>2, <1>3, <1>4 DEF Inv

\* Creating a group that was not there: no request can be about it
LEMMA ClaimStep ==
    ASSUME Inv, Typed', NEW r \in Requests, Claim(r), groups[req[r].g].st = "none",
           groups' # groups
    PROVE  Inv'
<1> DEFINE g == req[r].g
<1>0. /\ groups \in [Groups -> GroupRow] /\ g \in Groups /\ req \in [Requests -> Request] /\ g \notin expired
      /\ req[r].pc = "claim"
  BY DEF Inv, Typed, Shapes, Named, Claim, At
<1>1. /\ groups' = [groups EXCEPT ![g] = [st |-> "open", epoch |-> 0, members |-> {req[r].dev}]]
      /\ req' = [req EXCEPT ![r] = Idle] /\ UNCHANGED <<commits, expired>>
  BY DEF Claim, Answer
<1>2. \A h \in Groups : h # g => Same(h)
  BY <1>0, <1>1 DEF Same
<1>3. Unique' /\ \A h \in expired' : groups'[h].st # "none"
  BY <1>0, <1>1 DEF Inv, Unique, Typed, Shapes
<1>4. ASSUME NEW h \in Groups \ expired' PROVE RowsOf(h)'
  <2>1. CASE h = g
    <3>1. RowsOf(h) /\ groups'[h].epoch = 0 /\ groups'[h].st = "open" /\ groups[h].st = "none"
      BY <1>0, <1>1, <1>4, <2>1 DEF Inv
    <3>2. \A c \in commits' : c.group # h
      BY <1>1, <3>1 DEF RowsOf
    <3> QED
      BY <3>1, <3>2 DEF RowsOf
  <2>2. CASE h # g
    BY <1>1, <1>2, <1>4, <2>2, RowsFrame DEF Inv
  <2> QED
    BY <2>1, <2>2
<1>5. ASSUME NEW s \in Requests, OnGroup(s)', req'[s].g \notin expired' PROVE Decides(s)'
  <2>1. s # r
    BY <1>0, <1>1, <1>5, IdleShape DEF OnGroup
  <2>2. req'[s] = req[s] /\ OnGroup(s) /\ req[s].g \in Groups /\ req[s].g \notin expired /\ Decides(s)
    BY <1>0, <1>1, <1>5, <2>1 DEF OnGroup, Inv, Typed, Named
  <2>3. req[s].g # g
    BY <2>2 DEF Decides
  <2> QED
    BY <1>2, <2>2, <2>3, DecidesFrame DEF Inv
<1> QED
  BY <1>3, <1>4, <1>5 DEF Inv

\* The sweep's own steps, which only touch groups it has chosen
LEMMA SweepStep ==
    ASSUME Inv, Typed', UNCHANGED req, expired \subseteq expired', \A g \in Groups \ expired' : Same(g),
           Unique', \A g \in expired' : groups'[g].st # "none"
    PROVE  Inv'
<1>1. ASSUME NEW h \in Groups \ expired' PROVE RowsOf(h)'
  BY <1>1, RowsFrame DEF Inv
<1>2. ASSUME NEW s \in Requests, OnGroup(s)', req'[s].g \notin expired' PROVE Decides(s)'
  <2>1. req'[s] = req[s] /\ OnGroup(s) /\ req[s].g \in Groups /\ req[s].g \notin expired /\ Decides(s)
    BY <1>2 DEF OnGroup, Inv, Typed, Named
  <2> QED
    BY <1>2, <2>1, DecidesFrame DEF Inv
<1> QED
  BY <1>1, <1>2 DEF Inv

\* Every action keeps the invariant
LEMMA InvStep == Inv /\ [Next]_vars => Inv'
<1> SUFFICES ASSUME Inv, [Next]_vars PROVE Inv'
  OBVIOUS
<1>0. CASE UNCHANGED vars
  <2>1. Typed'
    BY <1>0 DEF Inv, Typed, Shapes, Named, vars
  <2>2. \A g \in Groups : Same(g)
    BY <1>0 DEF Same, vars
  <2>3. Unique' /\ (\A g \in expired' : groups'[g].st # "none") /\ expired \subseteq expired' /\ UNCHANGED req
    BY <1>0 DEF Inv, Unique, vars
  <2> QED
    BY <2>1, <2>2, <2>3, SweepStep
<1> SUFFICES ASSUME Next PROVE Inv'
  BY <1>0
<1>1. /\ Typed' /\ Typed /\ groups \in [Groups -> GroupRow] /\ req \in [Requests -> Request]
      /\ commits \subseteq CommitRow
  BY TypedStep DEF Inv, Typed, Shapes
<1>2. ASSUME NEW r \in Requests, Answer(r), UNCHANGED <<groups, commits, expired>> PROVE Inv'
  BY <1>1, <1>2, IdleShape, LocalStep DEF Answer, OnGroup
\* A request that moves on without having read: what it knew, it still knows
<1>3. ASSUME NEW r \in Requests, NEW q \in Request, req' = [req EXCEPT ![r] = q],
             q.pc \in {"store", "restore", "intents", "close"}, q.g = req[r].g, q.op = req[r].op,
             q.epoch = req[r].epoch, q.checked = req[r].checked, q.early = req[r].early, q.seen = req[r].seen,
             OnGroup(r), UNCHANGED <<groups, commits, expired>>
      PROVE  Inv'
  <2>1. ASSUME req'[r].g \notin expired PROVE Decides(r)'
    <3>1. Decides(r) /\ req'[r] = q
      BY <1>1, <1>3, <2>1 DEF Inv
    <3>2. Head(q.g)' = Head(req[r].g)
      BY <1>3 DEF Head, Row
    <3> QED
      BY <1>3, <3>1, <3>2 DEF Decides, HasRead, Deciding
  <2> QED
    BY <1>1, <1>3, <2>1, LocalStep
\* A request that starts reading knows its epoch at most
<1>4. ASSUME NEW r \in Requests, NEW q \in Request, req' = [req EXCEPT ![r] = q], q.pc = "read",
             NEW g, q.g = g, UNCHANGED <<groups, commits, expired>>,
             g \notin expired =>
                 /\ groups[g].st \in {"open", "closed"}
                 /\ q.op = "commit" => q.epoch \in 1..MaxEpoch[g] /\ (~q.early => q.epoch <= Head(g) + 1)
                 /\ q.op = "commit" /\ q.checked /\ ~q.early =>
                       /\ q.epoch <= groups[g].epoch + 1
                       /\ q.epoch = groups[g].epoch + 1 => q.seen = groups[g].members
      PROVE  Inv'
  <2>1. ASSUME req'[r].g \notin expired PROVE Decides(r)'
    <3>1. req'[r] = q /\ groups' = groups /\ Head(g)' = Head(g)
      BY <1>1, <1>4 DEF Head, Row
    <3> QED
      BY <1>4, <2>1, <3>1, DecidesLater
  <2> QED
    BY <1>1, <1>4, <2>1, LocalStep
<1>5. ASSUME NEW r \in Requests, FetchAgain(r), OnGroup(r), UNCHANGED <<groups, commits, expired>>
      PROVE  Inv'
  <2> DEFINE q == [req[r] EXCEPT !.pc = "read", !.read = NoRow, !.next = NoChange]
  <2>1. req[r] \in Request /\ req' = [req EXCEPT ![r] = q] /\ req'[r] = q
    BY <1>1, <1>5 DEF FetchAgain
  <2>2. /\ q \in Request /\ q.pc = "read" /\ q.g = req[r].g /\ q.op = req[r].op /\ q.epoch = req[r].epoch
        /\ q.checked = req[r].checked /\ q.early = req[r].early /\ q.seen = req[r].seen
    <3>1. NoRow \in GroupRow /\ NoChange \in [add : SUBSET Devices, rem : SUBSET Devices]
      BY DEF GroupRow, NoRow, NoChange
    <3> QED
      BY <2>1, <3>1 DEF Request
  <2>3. ASSUME req[r].g \notin expired PROVE Decides(r)
    BY <1>5, <2>3 DEF Inv
  <2> HIDE DEF q
  <2>4. PICK g \in Groups : g = req[r].g
    BY <1>1, <1>5 DEF Typed, Named, OnGroup
  <2>5. g \notin expired =>
                 /\ groups[g].st \in {"open", "closed"}
                 /\ q.op = "commit" => q.epoch \in 1..MaxEpoch[g] /\ (~q.early => q.epoch <= Head(g) + 1)
                 /\ q.op = "commit" /\ q.checked /\ ~q.early =>
                       /\ q.epoch <= groups[g].epoch + 1
                       /\ q.epoch = groups[g].epoch + 1 => q.seen = groups[g].members
    BY <2>2, <2>3, <2>4 DEF Decides
  <2> QED
    BY <1>4, <1>5, <2>1, <2>2, <2>4, <2>5
<1>10. ASSUME NEW r \in Requests, ReadGroup(r) PROVE Inv'
  <2> DEFINE q == [req[r] EXCEPT !.read = groups[req[r].g], !.pc = "next"]
  <2>1. OnGroup(r) /\ req[r].g \in Groups /\ req[r] \in Request /\ UNCHANGED <<groups, commits, expired>>
    BY <1>1, <1>10 DEF ReadGroup, At, OnGroup, Typed, Named
  <2>2. CASE req' = [req EXCEPT ![r] = q]
    <3>1. /\ q.pc = "next" /\ q.g = req[r].g /\ q.op = req[r].op /\ q.epoch = req[r].epoch
          /\ q.checked = req[r].checked /\ q.early = req[r].early /\ q.seen = req[r].seen /\ q.read = groups[req[r].g]
      BY <2>1 DEF Request
    <3>2. req'[r] = q
      BY <1>1, <2>2
    <3> HIDE DEF q
    <3>3. ASSUME req'[r].g \notin expired PROVE Decides(r)'
      <4>1. Decides(r) /\ Head(req[r].g)' = Head(req'[r].g)
        BY <2>1, <3>1, <3>2, <3>3 DEF Inv, Head, Row
      <4>2. Head(req[r].g)' = Head(req[r].g)
        BY <2>1, <3>1, <3>2 DEF Head, Row
      <4>3. groups[req[r].g].epoch <= groups[req[r].g].epoch
        BY <1>1, <2>1 DEF GroupRow
      <4> QED
        BY <2>1, <3>1, <3>2, <4>1, <4>2, <4>3 DEF Decides, HasRead, Deciding
    <3> QED
      BY <1>1, <2>1, <2>2, <3>3, LocalStep
  <2> QED
    BY <1>2, <1>10, <2>1, <2>2 DEF ReadGroup
<1>12. ASSUME NEW r \in Requests, Repair(r) PROVE Inv'
  <2>1. req[r].pc = "repair" /\ req[r] \in Request /\ ApplyEffects(r) /\ UNCHANGED <<commits, expired>>
    BY <1>1, <1>12 DEF Repair, At
  <2>2. CASE Goto(r, "forget")
    <3>1. req' = [req EXCEPT ![r].pc = "forget"]
      BY <2>2 DEF Goto
    <3>2. /\ req'[r].pc = "forget" /\ req'[r].g = req[r].g /\ req'[r].op = req[r].op
          /\ req'[r].epoch = req[r].epoch /\ req'[r].checked = req[r].checked /\ req'[r].early = req[r].early /\ req'[r].seen = req[r].seen
      BY <1>1, <2>1, <3>1 DEF Request
    <3> QED
      BY <1>1, <2>1, <3>1, <3>2, EffectsStep
  <2>3. CASE FetchAgain(r)
    <3>1. req' = [req EXCEPT ![r].pc = "read", ![r].read = NoRow, ![r].next = NoChange]
      BY <2>3 DEF FetchAgain
    <3>2. /\ req'[r].pc = "read" /\ req'[r].g = req[r].g /\ req'[r].op = req[r].op
          /\ req'[r].epoch = req[r].epoch /\ req'[r].checked = req[r].checked /\ req'[r].early = req[r].early /\ req'[r].seen = req[r].seen
      BY <1>1, <2>1, <3>1 DEF Request
    <3> QED
      BY <1>1, <2>1, <3>1, <3>2, EffectsStep
  <2> QED
    BY <1>12, <2>2, <2>3 DEF Repair
<1>13. ASSUME NEW r \in Requests, Forget(r) PROVE Inv'
  BY <1>5, <1>13 DEF Forget, At, OnGroup
<1>14. ASSUME NEW r \in Requests, StartCommit(r) PROVE Inv'
  <2>1. PICK g \in Groups : \E e \in 1..MaxEpoch[g] :
            /\ groups[g].st # "none"
            /\ req' = [req EXCEPT ![r] = Fetch([Idle EXCEPT !.op = "commit", !.g = g, !.epoch = e, !.early = e > Head(g) + 1])]
    BY <1>14 DEF StartCommit
  <2>2. PICK e \in 1..MaxEpoch[g] :
            /\ groups[g].st # "none"
            /\ req' = [req EXCEPT ![r] = Fetch([Idle EXCEPT !.op = "commit", !.g = g, !.epoch = e, !.early = e > Head(g) + 1])]
    BY <2>1
  <2> DEFINE q == Fetch([Idle EXCEPT !.op = "commit", !.g = g, !.epoch = e, !.early = e > Head(g) + 1])
  <2>3. Head(g) \in Nat /\ MaxEpoch[g] \in Nat
    BY <1>1, MlsBounds DEF Head, GroupRow
  <2>4. e \in Nat /\ e \in 1..MaxEpoch[g]
    BY <2>2, <2>3
  <2> DEFINE p(b) == Fetch([Idle EXCEPT !.op = "commit", !.g = g, !.epoch = e, !.early = b])
  <2>a. \A b \in BOOLEAN : /\ p(b) \in Request /\ p(b).pc = "read" /\ p(b).g = g
                           /\ p(b).epoch = e /\ p(b).checked = FALSE /\ p(b).early = b
    BY <2>4, IdleShape DEF Fetch, Request, GroupRow, NoRow, Idle
  <2>5. /\ q \in Request /\ q.pc = "read" /\ q.g = g /\ q.epoch = e /\ q.checked = FALSE
        /\ ~q.early => e <= Head(g) + 1
    <3>1. CASE e > Head(g) + 1
      <4>1. q = p(TRUE)
        BY <3>1, Zenon
      <4> HIDE DEF q, p
      <4> QED
        BY <2>a, <4>1
    <3>2. CASE ~(e > Head(g) + 1)
      <4>0. (e > Head(g) + 1) = FALSE
        BY <2>3, <2>4, <3>2, SMT
      <4>1. q = p(FALSE)
        BY <4>0, Zenon
      <4>2. e <= Head(g) + 1
        BY <2>3, <2>4, <3>2
      <4> HIDE DEF q, p
      <4> QED
        BY <2>a, <4>1, <4>2
    <3> QED
      BY <3>1, <3>2
  <2>6. g \notin expired => groups[g].st \in {"open", "closed"}
    BY <1>1, <2>2 DEF Inv, RowsOf, GroupRow
  <2> HIDE DEF q
  <2> QED
    BY <1>4, <1>14, <2>2, <2>4, <2>5, <2>6 DEF StartCommit, q
<1>15. ASSUME NEW r \in Requests, InsertCommit(r) PROVE Inv'
  <2> DEFINE q == [req[r] EXCEPT !.next = NoChange, !.pc = "winner"]
  <2>1. req[r].pc = "insert" /\ req[r] \in Request /\ req[r].g \in Groups /\ UNCHANGED <<groups, expired>>
    BY <1>1, <1>15 DEF InsertCommit, At, Typed, Named
  <2>2. CASE Row(req[r].g, req[r].epoch) # {}
    <3>1. req' = [req EXCEPT ![r] = q] /\ UNCHANGED commits /\ req'[r] = q
      BY <1>1, <1>15, <2>2 DEF InsertCommit
    <3>2. /\ q.pc = "winner" /\ q.g = req[r].g /\ q.op = req[r].op /\ q.epoch = req[r].epoch
          /\ q.checked = req[r].checked /\ q.early = req[r].early /\ q.seen = req[r].seen /\ q.read = req[r].read
      BY <2>1 DEF Request
    <3> HIDE DEF q
    <3>3. ASSUME req'[r].g \notin expired PROVE Decides(r)'
      <4>1. Decides(r)
        BY <2>1, <3>1, <3>2, <3>3 DEF Inv, OnGroup
      <4>2. Head(req[r].g)' = Head(req[r].g)
        BY <2>1, <3>1, <3>2 DEF Head, Row
      <4> QED
        BY <2>1, <3>1, <3>2, <4>1, <4>2 DEF Decides, HasRead, Deciding
    <3> QED
      BY <1>1, <2>1, <3>1, <3>3, LocalStep
  <2>3. CASE Row(req[r].g, req[r].epoch) = {} /\ req[r].g \notin expired
    BY <1>1, <1>15, <2>3, InsertStep
  <2>4. CASE Row(req[r].g, req[r].epoch) = {} /\ req[r].g \in expired
    <3> DEFINE new == [group |-> req[r].g, epoch |-> req[r].epoch, change |-> req[r].next]
    <3>1. commits' = commits \cup {new} /\ req' = [req EXCEPT ![r].won = TRUE, ![r].pc = "apply"]
      BY <1>15, <2>4 DEF InsertCommit
    <3>2. \A h \in Groups \ expired : Same(h)
      BY <2>1, <2>4, <3>1 DEF Same
    <3>3. Unique' /\ \A g \in expired' : groups'[g].st # "none"
      BY <2>1, <2>4, <3>1 DEF Inv, Unique, Row
    <3>4. ASSUME NEW h \in Groups \ expired' PROVE RowsOf(h)'
      BY <1>1, <2>1, <3>2, <3>4, RowsFrame DEF Inv
    <3>5. ASSUME NEW s \in Requests, OnGroup(s)', req'[s].g \notin expired' PROVE Decides(s)'
      <4>1. s # r
        BY <1>1, <2>1, <2>4, <3>1, <3>5 DEF Request
      <4>2. req'[s] = req[s] /\ OnGroup(s) /\ req[s].g \in Groups /\ req[s].g \notin expired /\ Decides(s)
        BY <1>1, <2>1, <3>1, <3>5, <4>1 DEF OnGroup, Inv, Typed, Named
      <4> QED
        BY <1>1, <3>2, <4>2, DecidesFrame
    <3> QED
      BY <1>1, <3>3, <3>4, <3>5 DEF Inv
  <2> QED
    BY <2>2, <2>3, <2>4
<1>16. ASSUME NEW r \in Requests, ReadWinner(r) PROVE Inv'
  <2>1. req[r].pc = "winner" /\ req[r] \in Request /\ UNCHANGED <<groups, commits, expired>> /\ req[r].g \in Groups
    BY <1>1, <1>16 DEF ReadWinner, At, Typed, Named
  <2>2. ASSUME NEW c \in commits, c.group = req[r].g, c.epoch = req[r].epoch,
               req' = [req EXCEPT ![r].next = c.change, ![r].pc = "apply"]
        PROVE  Inv'
    <3>1. /\ req'[r].pc = "apply" /\ req'[r].g = req[r].g /\ req'[r].op = req[r].op
          /\ req'[r].epoch = req[r].epoch /\ req'[r].checked = req[r].checked /\ req'[r].early = req[r].early
          /\ req'[r].seen = req[r].seen /\ req'[r].read = req[r].read /\ req'[r].next = c.change
      BY <1>1, <2>1, <2>2 DEF Request
    <3>2. ASSUME req'[r].g \notin expired PROVE Decides(r)'
      <4>1. Decides(r)
        BY <2>1, <3>1, <3>2 DEF Inv, OnGroup
      <4>2. Head(req[r].g)' = Head(req[r].g)
        BY <2>1, <3>1 DEF Head, Row
      <4>3. req[r].epoch = req[r].read.epoch + 1
        BY <2>1, <4>1 DEF Decides, Deciding
      <4> QED
        BY <2>1, <2>2, <3>1, <4>1, <4>2, <4>3 DEF Decides, HasRead, Deciding
    <3> QED
      BY <1>1, <2>1, <2>2, <3>2, LocalStep
  <2> QED
    BY <1>2, <1>16, <2>1, <2>2 DEF ReadWinner, Row
<1>17. ASSUME NEW r \in Requests, Apply(r) PROVE Inv'
  <2>1. req[r].pc = "apply" /\ req[r] \in Request /\ ApplyEffects(r) /\ UNCHANGED <<commits, expired>>
    BY <1>1, <1>17 DEF Apply, At
  <2>2. ASSUME NEW pc \in {"consume", "deliver"}, Goto(r, pc) PROVE Inv'
    <3>1. req' = [req EXCEPT ![r].pc = pc]
      BY <2>2 DEF Goto
    <3>2. /\ req'[r].pc = pc /\ req'[r].g = req[r].g /\ req'[r].op = req[r].op /\ req'[r].read = req[r].read
          /\ req'[r].epoch = req[r].epoch /\ req'[r].checked = req[r].checked /\ req'[r].early = req[r].early /\ req'[r].seen = req[r].seen
      BY <1>1, <2>1, <3>1 DEF Request
    <3> QED
      BY <1>1, <2>1, <2>2, <3>1, <3>2, EffectsStep
  <2>3. CASE Answer(r)
    <3>1. req' = [req EXCEPT ![r] = Idle] /\ req'[r].pc = "idle"
      BY <1>1, <2>3, IdleShape DEF Answer
    <3> QED
      BY <1>1, <2>1, <3>1, EffectsStep DEF OnGroup
  <2> QED
    BY <1>17, <2>2, <2>3 DEF Apply, AfterEffects
<1>18. ASSUME NEW r \in Requests, Consume(r) PROVE Inv'
  <2>1. /\ req[r].pc = "consume" /\ req[r] \in Request /\ UNCHANGED <<groups, commits, expired>>
        /\ req[r].g \in Groups
    BY <1>1, <1>18 DEF Consume, At, Typed, Named
  <2>2. CASE Goto(r, "deliver")
    <3>1. req' = [req EXCEPT ![r].pc = "deliver"]
      BY <2>2 DEF Goto
    <3>2. /\ req'[r].pc = "deliver" /\ req'[r].g = req[r].g /\ req'[r].op = req[r].op /\ req'[r].read = req[r].read
          /\ req'[r].epoch = req[r].epoch /\ req'[r].checked = req[r].checked /\ req'[r].early = req[r].early /\ req'[r].seen = req[r].seen
      BY <1>1, <2>1, <3>1 DEF Request
    <3>3. ASSUME req'[r].g \notin expired PROVE Decides(r)'
      <4>1. Decides(r)
        BY <2>1, <3>2, <3>3 DEF Inv, OnGroup
      <4>2. Head(req[r].g)' = Head(req[r].g)
        BY <2>1, <3>2 DEF Head, Row
      <4> QED
        BY <2>1, <3>2, <4>1, <4>2 DEF Decides, HasRead, Deciding
    <3> QED
      BY <1>1, <2>1, <3>1, <3>3, LocalStep
  <2> QED
    BY <1>2, <1>18, <2>1, <2>2 DEF Consume, AfterEffects
<1>19. ASSUME NEW r \in Requests, Deliver(r) PROVE Inv'
  BY <1>2, <1>19 DEF Deliver
<1>11. ASSUME NEW r \in Requests, NextCommit(r) PROVE Inv'
  <2>1. /\ req[r].pc = "next" /\ req[r] \in Request /\ req[r].g \in Groups /\ OnGroup(r)
        /\ UNCHANGED <<groups, commits, expired>>
    BY <1>1, <1>11 DEF NextCommit, At, Typed, Named, OnGroup
  <2>2. PICK g \in Groups : g = req[r].g
    BY <2>1
  <2>3. ASSUME NEW c \in commits, c.group = g, c.epoch = req[r].read.epoch + 1,
               req' = [req EXCEPT ![r].next = c.change, ![r].pc = "repair"]
        PROVE  Inv'
    <3>1. /\ req'[r].pc = "repair" /\ req'[r].g = req[r].g /\ req'[r].op = req[r].op
          /\ req'[r].epoch = req[r].epoch /\ req'[r].checked = req[r].checked /\ req'[r].early = req[r].early
          /\ req'[r].seen = req[r].seen /\ req'[r].read = req[r].read /\ req'[r].next = c.change
      BY <1>1, <2>1, <2>3 DEF Request
    <3>2. ASSUME req'[r].g \notin expired PROVE Decides(r)'
      <4>1. Decides(r)
        BY <2>1, <3>1, <3>2 DEF Inv
      <4>2. Head(req[r].g)' = Head(req[r].g)
        BY <2>1, <3>1 DEF Head, Row
      <4> QED
        BY <2>1, <2>2, <2>3, <3>1, <4>1, <4>2 DEF Decides, HasRead, Deciding
    <3> QED
      BY <1>1, <2>1, <2>3, <3>2, LocalStep
  <2>4. ASSUME NEW q2 \in ReadDone(req[r]), req' = [req EXCEPT ![r] = q2],
               ~(req[r].read.st = "open" /\ Row(g, req[r].read.epoch + 1) # {})
        PROVE  Inv'
    <3>1. q2 \in Request /\ req'[r] = q2
      BY <1>1, <2>1, <2>4, ReadDoneShape
    <3>2. CASE q2 = Idle
      BY <1>2, <2>1, <2>4, <3>2 DEF Answer
    \* Nothing is past what was read, so the group is still as it was read
    <3>3. ASSUME g \notin expired, req[r].read.st = "open"
          PROVE  /\ Decides(r) /\ groups[g].epoch = req[r].read.epoch
                 /\ groups[g].members = req[r].read.members /\ Head(g) = groups[g].epoch
                 /\ groups[g].epoch \in Nat /\ req[r].epoch \in Nat
      <4>1. Decides(r) /\ RowsOf(g)
        BY <2>1, <2>2, <3>3 DEF Inv
      <4>2. /\ req[r].read.epoch <= groups[g].epoch /\ req[r].read.epoch \in Nat
            /\ groups[g].epoch \in Nat /\ req[r].epoch \in Nat
            /\ req[r].read.epoch = groups[g].epoch => groups[g].members = req[r].read.members
        BY <1>1, <2>1, <2>2, <4>1 DEF Decides, HasRead, Request, GroupRow
      <4>3. ~(req[r].read.epoch + 1 \in 1..groups[g].epoch)
        BY <2>4, <3>3, <4>1 DEF RowsOf, Row
      <4>4. groups[g].epoch = req[r].read.epoch
        BY <4>2, <4>3
      <4> QED
        BY <2>4, <3>3, <4>1, <4>2, <4>4 DEF Head
    <3>4. CASE req[r].op = "commit"
      <4>1. q2 \in CommitRead(req[r])
        BY <2>4, <3>4 DEF ReadDone
      <4>2. CASE req[r].read.st = "open" /\ ~req[r].checked
                 /\ q2 = Fetch([req[r] EXCEPT !.checked = TRUE, !.seen = req[r].read.members])
        <5>1. /\ q2.pc = "read" /\ q2.g = g /\ q2.op = "commit" /\ q2.epoch = req[r].epoch
              /\ q2.seen = req[r].read.members /\ q2.early = req[r].early
          BY <2>1, <2>2, <3>4, <4>2 DEF Fetch, Request, NoRow, GroupRow
        <5>2. g \notin expired =>
                 /\ groups[g].st \in {"open", "closed"}
                 /\ q2.op = "commit" => q2.epoch \in 1..MaxEpoch[g] /\ (~q2.early => q2.epoch <= Head(g) + 1)
                 /\ q2.op = "commit" /\ q2.checked /\ ~q2.early =>
                       /\ q2.epoch <= groups[g].epoch + 1
                       /\ q2.epoch = groups[g].epoch + 1 => q2.seen = groups[g].members
          BY <2>2, <3>3, <3>4, <4>2, <5>1 DEF Decides
        <5> QED
          BY <1>4, <2>1, <2>4, <3>1, <5>1, <5>2
      <4>3. CASE req[r].read.st = "open" /\ req[r].checked /\ req[r].epoch > req[r].read.epoch + 1
                 /\ q2 = [req[r] EXCEPT !.pc = "ahead"]
        <5>1. /\ q2.pc = "ahead" /\ q2.g = g /\ q2.op = "commit" /\ q2.epoch = req[r].epoch
              /\ q2.checked = req[r].checked /\ q2.early = req[r].early /\ q2.seen = req[r].seen /\ q2.read = req[r].read
          BY <2>1, <2>2, <3>4, <4>3 DEF Request
        <5>2. ASSUME g \notin expired PROVE Decides(r)'
          <6>1. Decides(r) /\ req[r].early
            BY <2>2, <3>3, <3>4, <4>3, <5>2 DEF Decides
          <6>2. groups' = groups /\ commits' = commits /\ Head(g)' = Head(g)
            BY <2>1 DEF Head, Row
          <6>3. q2.pc \notin HasRead /\ q2.pc \notin Deciding /\ q2.pc \notin {"repair", "apply", "insert"}
            BY <5>1 DEF HasRead, Deciding
          <6>4. req'[r] = q2 /\ q2.early /\ q2.epoch \in 1..MaxEpoch[g] /\ groups[g].st \in {"open", "closed"}
            BY <2>2, <3>1, <3>4, <5>1, <6>1 DEF Decides
          <6> QED
            BY <5>1, <6>2, <6>3, <6>4 DEF Decides
        <5> QED
          BY <1>1, <2>1, <2>4, <3>1, <5>1, <5>2, LocalStep
      <4>4. ASSUME req[r].read.st = "open", req[r].checked, ~(req[r].epoch <= req[r].read.epoch),
                   ~(req[r].epoch > req[r].read.epoch + 1),
                   NEW c \in Changes, \E d \in Devices : Acceptable(req[r], d, c),
                   q2 = [req[r] EXCEPT !.pc = "insert", !.next = c]
            PROVE  Inv'
        <5>1. /\ q2.pc = "insert" /\ q2.g = req[r].g /\ q2.op = "commit" /\ q2.epoch = req[r].epoch
              /\ q2.checked = req[r].checked /\ q2.early = req[r].early /\ q2.seen = req[r].seen /\ q2.read = req[r].read /\ q2.next = c
          BY <2>1, <3>4, <4>4 DEF Request
        <5>2. \E d \in Devices : Acceptable(q2, d, c)
          BY <4>4, <5>1 DEF Acceptable
        <5>3. ASSUME req'[r].g \notin expired PROVE Decides(r)'
          <6>1. /\ Decides(r) /\ groups[g].epoch = req[r].read.epoch
                /\ groups[g].members = req[r].read.members /\ groups[g].epoch \in Nat /\ req[r].epoch \in Nat
            BY <2>2, <3>1, <3>3, <4>4, <5>1, <5>3
          <6>2. Head(req[r].g)' = Head(req[r].g)
            BY <2>1, <3>1, <5>1 DEF Head, Row
          <6>3. req[r].epoch = req[r].read.epoch + 1
            BY <4>4, <6>1
          <6> QED
            BY <2>1, <2>2, <3>1, <4>4, <5>1, <5>2, <6>1, <6>2, <6>3 DEF Decides, HasRead, Deciding
        <5> QED
          BY <1>1, <2>1, <2>4, <5>3, LocalStep
      <4> QED
        BY <3>2, <4>1, <4>2, <4>3, <4>4 DEF CommitRead
    <3>5. CASE req[r].op # "commit"
      <4>1. ASSUME NEW d \in Devices, q2 \in JoinRead(req[r], d), q2 # Idle
            PROVE  q2 = [req[r] EXCEPT !.pc = "close"]
                   \/ \E b \in BOOLEAN : q2 = [req[r] EXCEPT !.pc = "store", !.dev = d, !.rejoin = b]
        BY <4>1 DEF JoinRead
      <4>2. q2 # Idle => /\ q2.pc \in {"store", "close"} /\ q2.g = req[r].g /\ q2.op = req[r].op
                         /\ q2.epoch = req[r].epoch /\ q2.checked = req[r].checked /\ q2.early = req[r].early /\ q2.seen = req[r].seen
        <5>1. q2 = Idle \/ \E d \in Devices : q2 \in JoinRead(req[r], d)
          BY <2>4, <3>5 DEF ReadDone
        <5>2. \/ q2 = Idle \/ q2 = [req[r] EXCEPT !.pc = "close"]
              \/ \E d \in Devices, b \in BOOLEAN : q2 = [req[r] EXCEPT !.pc = "store", !.dev = d, !.rejoin = b]
          BY <4>1, <5>1
        <5> QED
          BY <2>1, <5>2 DEF Request
      <4> QED
        BY <1>3, <2>1, <2>4, <3>1, <3>2, <4>2
    <3> QED
      BY <3>4, <3>5
  <2> QED
    BY <1>11, <2>2, <2>3, <2>4 DEF NextCommit, Row
<1>20. ASSUME NEW r \in Requests, StartJoin(r) PROVE Inv'
  <2>1. PICK g \in Groups : /\ groups[g].st # "none"
                            /\ req' = [req EXCEPT ![r] = Fetch([Idle EXCEPT !.op = "join", !.g = g])]
    BY <1>20, MlsBounds DEF StartJoin
  <2> DEFINE q == Fetch([Idle EXCEPT !.op = "join", !.g = g])
  <2>2. q \in Request /\ q.pc = "read" /\ q.g = g /\ q.op = "join"
    BY IdleShape DEF Fetch, Request, GroupRow, NoRow
  <2>3. g \notin expired => groups[g].st \in {"open", "closed"}
    BY <1>1, <2>1 DEF Inv, RowsOf, GroupRow
  <2> HIDE DEF q
  <2> QED
    BY <1>4, <1>20, <2>1, <2>2, <2>3 DEF StartJoin, q
<1>21. ASSUME NEW r \in Requests, NEW pc \in {"restore", "intents", "close"}, Goto(r, pc), OnGroup(r),
              UNCHANGED <<groups, commits, expired>>
       PROVE  Inv'
  <2> DEFINE q == [req[r] EXCEPT !.pc = pc]
  <2>1. req[r] \in Request /\ req' = [req EXCEPT ![r] = q]
    BY <1>1, <1>21 DEF Goto
  <2>2. /\ q \in Request /\ q.pc = pc /\ q.g = req[r].g /\ q.op = req[r].op
        /\ q.epoch = req[r].epoch /\ q.checked = req[r].checked /\ q.early = req[r].early /\ q.seen = req[r].seen
    BY <2>1 DEF Request
  <2> HIDE DEF q
  <2> QED
    BY <1>3, <1>21, <2>1, <2>2
<1>22. ASSUME NEW r \in Requests, StoreIntent(r) \/ RestoreIntent(r) \/ ReadIntents(r) \/ Crash(r) PROVE Inv'
  BY <1>2, <1>21, <1>22 DEF StoreIntent, RestoreIntent, ReadIntents, Crash, At, OnGroup
<1>24. ASSUME NEW r \in Requests, CloseGroup(r) PROVE Inv'
  <2>1. req' = [req EXCEPT ![r] = Idle] /\ req[r].g \in Groups /\ UNCHANGED <<commits, expired>>
    BY <1>1, <1>24 DEF CloseGroup, Answer, At, Typed, Named
  <2>2. \A s \in Requests : OnGroup(s)' => req'[s] = req[s]
    BY <1>1, <2>1, IdleShape DEF OnGroup
  <2>3. PICK g \in Groups : g = req[r].g
    BY <2>1
  <2> QED
    BY <1>1, <1>24, <2>1, <2>2, <2>3, CloseStep DEF CloseGroup, Closed
<1>25. ASSUME NEW r \in Requests, StartCreate(r) PROVE Inv'
  <2>1. PICK g \in Groups, d \in Devices, old \in Groups \cup {Nil} :
            req' = [req EXCEPT ![r] = [Idle EXCEPT !.op = "create", !.g = g, !.dev = d, !.old = old,
                                          !.pc = IF old = Nil THEN "claim" ELSE "supersede"]]
    BY <1>25, MlsBounds DEF StartCreate
  <2>2. req'[r].pc \in {"claim", "supersede"}
    BY <1>1, <2>1, IdleShape DEF Request
  <2> QED
    BY <1>1, <1>25, <2>1, <2>2, LocalStep DEF StartCreate, OnGroup
<1>26. ASSUME NEW r \in Requests, Supersede(r) PROVE Inv'
  <2>1. req[r].old \in Groups /\ UNCHANGED <<commits, expired>> /\ req[r] \in Request
    BY <1>1, <1>26 DEF Supersede, At, Typed, Named
  <2>2. \A s \in Requests : s # r => req'[s] = req[s]
    BY <1>1, <1>26 DEF Supersede, Answer, Goto
  <2>3. req'[r].pc \in {"claim", "idle"}
    BY <1>1, <1>26, <2>1, IdleShape DEF Supersede, Answer, Goto, Request
  <2>4. PICK g \in Groups : g = req[r].old
    BY <2>1
  <2> QED
    BY <1>1, <1>26, <2>1, <2>2, <2>3, <2>4, CloseStep DEF Supersede, Closed, OnGroup
<1>27. ASSUME NEW r \in Requests, Claim(r) PROVE Inv'
  <2>1. CASE groups' = groups
    BY <1>2, <1>27, <2>1 DEF Claim
  <2>2. CASE groups' # groups
    BY <1>1, <1>27, <2>2, ClaimStep DEF Claim
  <2> QED
    BY <2>1, <2>2
<1>30. ASSUME NEW g \in Groups, CallEnds(g) PROVE Inv'
  BY <1>1, <1>30, CloseStep DEF CallEnds
<1>31. ASSUME NEW g \in Groups, NEW d \in Devices, IntentAges(g, d) PROVE Inv'
  BY <1>1, <1>31, SweepStep DEF IntentAges, Same, Inv, Unique
<1>32. CASE SweepFind
  <2>1. \A g \in Groups : Same(g)
    BY <1>32 DEF SweepFind, Same
  <2>2. PICK ids \in SUBSET {g \in Groups : MayGo(g)} : expired' = expired \cup ids
    BY <1>32 DEF SweepFind
  <2>3. \A g \in ids : groups[g].st # "none"
    BY <2>2 DEF MayGo
  <2> QED
    BY <1>1, <1>32, <2>1, <2>2, <2>3, SweepStep DEF SweepFind, Inv, Unique
<1>33. CASE SweepCommits
  <2>1. sweep.ids \subseteq expired /\ UNCHANGED <<groups, req, expired>>
    BY <1>33 DEF SweepCommits, Inv, Typed, Shapes
  <2>2. \A g \in Groups \ expired : Same(g)
    BY <1>33, <2>1 DEF SweepCommits, Same
  <2> QED
    BY <1>1, <1>33, <2>1, <2>2, SweepStep DEF SweepCommits, Inv, Unique
<1>34. CASE SweepIntents
  BY <1>1, <1>34, SweepStep DEF SweepIntents, Same, Inv, Unique
<1>35. CASE SweepGroups
  <2>1. sweep.ids \subseteq expired /\ UNCHANGED <<commits, req, expired>> /\ expired \subseteq Groups
    BY <1>35 DEF SweepGroups, Inv, Typed, Shapes
  <2>2. \A g \in Groups \ expired : Same(g)
    BY <1>35, <2>1 DEF SweepGroups, Same
  <2>3. \A g \in expired' : groups'[g].st # "none"
    BY <1>35, <2>1 DEF SweepGroups, Inv, NoRow
  <2> QED
    BY <1>1, <1>35, <2>1, <2>2, <2>3, SweepStep DEF Inv, Unique
<1>36. CASE SweepCrash
  BY <1>1, <1>36, SweepStep DEF SweepCrash, Same, Inv, Unique
<1> QED
  BY <1>10, <1>11, <1>12, <1>13, <1>14, <1>15, <1>16, <1>17, <1>18, <1>19, <1>20, <1>22, <1>24, <1>25,
     <1>26, <1>27, <1>30, <1>31, <1>32, <1>33, <1>34, <1>35, <1>36 DEF Next, Step
-----------------------------------------------------------------------------
LEMMA InvInit == Init => Inv
<1> SUFFICES ASSUME Init PROVE Inv
  OBVIOUS
<1>1. Typed
  BY IdleShape DEF Init, Typed, Shapes, Named, GroupRow, NoRow
<1>2. ASSUME NEW g \in Groups PROVE RowsOf(g)
  BY DEF Init, RowsOf, NoRow
<1>3. \A r \in Requests : ~OnGroup(r)
  BY IdleShape DEF Init, OnGroup
<1> QED
  BY <1>1, <1>2, <1>3 DEF Init, Inv, Unique

LEMMA Invariant == Spec => []Inv
  BY InvInit, InvStep, PTL DEF Spec

\* Groups, commits, intents and requests keep their shapes, and no group's epoch leaves
\* the epochs commits were made for (insert_mls_commit, apply_mls_commit_effects)
THEOREM TypeCorrect == Spec => []TypeOK
<1>1. Inv => TypeOK
  <2> SUFFICES ASSUME Inv PROVE TypeOK
    OBVIOUS
  <2>1. ASSUME NEW g \in Groups \ expired PROVE groups[g].epoch <= MaxEpoch[g]
    <3>1. groups[g].epoch \in Nat /\ RowsOf(g) /\ MaxEpoch[g] \in Nat
      BY MlsBounds DEF Inv, Typed, Shapes, GroupRow
    <3>2. groups[g].epoch # 0 => groups[g].epoch \in 1..groups[g].epoch
      BY <3>1
    <3> QED
      BY <3>1, <3>2 DEF RowsOf
  <2> QED
    BY <2>1 DEF Inv, Typed, Shapes, TypeOK
<1> QED
  BY <1>1, Invariant, PTL

\* A client whose commit came when the commits before it had won (not `early`) is never
\* refused as being ahead of the group: fetch_mls_group_repaired absorbs what won before it
\* answers
THEOREM ClientNeverAhead == Spec => []NeverAhead
<1>1. Inv => NeverAhead
  BY DEF Inv, NeverAhead, OnGroup, Decides
<1> QED
  BY <1>1, Invariant, PTL

\* A winning commit, unless it came early, goes to the roster it was made against
\* (submit_call_commit reads the roster before insert_mls_commit decides the epoch).
\* Requests that came early may run beside it; of those the statement is false
THEOREM FanOutIsComplete == Spec => []FanOutComplete
<1>1. Inv => FanOutComplete
  BY DEF Inv, FanOutComplete, FanOutMatches, OnGroup, Decides, HasRead, Deciding
<1> QED
  BY <1>1, Invariant, PTL
-----------------------------------------------------------------------------
(* The refinement: what each step does to the log *)

\* Steps that leave the groups the sweep has not chosen alone leave the log alone
LEMMA LogFrame ==
    ASSUME UNCHANGED expired, \A g \in Groups \ expired : Same(g)
    PROVE  UNCHANGED Log!vars
<1>1. ASSUME NEW g \in Groups \ expired
      PROVE  /\ groups'[g] = groups[g] /\ Pending(g)' = Pending(g) /\ Head(g)' = Head(g)
             /\ RosterOf(g)' = RosterOf(g) /\ LateOf(g)' = LateOf(g)
  <2>1. groups'[g] = groups[g] /\ Pending(g)' = Pending(g) /\ Head(g)' = Head(g)
    BY <1>1 DEF Same, Pending, Row, Head
  <2> QED
    BY <2>1 DEF RosterOf, LateOf
<1>2. UNCHANGED LogState
  BY <1>1 DEF LogState
<1>3. UNCHANGED LogHead
  BY <1>1 DEF LogHead
<1>4. UNCHANGED LogRoster
  BY <1>1 DEF LogRoster
<1>5. UNCHANGED LogLate
  BY <1>1 DEF LogLate
<1> QED
  BY <1>2, <1>3, <1>4, <1>5 DEF Log!vars

\* Writing a winner's effects is a stutter of the log: the commit was in it already
LEMMA EffectsStutter ==
    ASSUME Inv, NEW r \in Requests, ApplyEffects(r), UNCHANGED <<commits, expired>>,
           req[r].pc \in {"repair", "apply"}
    PROVE  UNCHANGED Log!vars
<1>0. PICK g \in Groups : g = req[r].g
  BY DEF Inv, Typed, Named
<1>1. groups \in [Groups -> GroupRow] /\ commits \subseteq CommitRow
  BY DEF Inv, Typed, Shapes
<1>2. \A h \in Groups \ {g} : Same(h)
  BY <1>0, <1>1 DEF ApplyEffects, Same
<1>3. CASE g \in expired \/ ~Applies(r)
  <2>1. \A h \in Groups \ expired : Same(h)
    BY <1>0, <1>2, <1>3 DEF ApplyEffects, Same
  <2> QED
    BY <2>1, LogFrame
<1>4. CASE g \notin expired /\ Applies(r)
  <2>1. Decides(r) /\ RowsOf(g)
    BY <1>0, <1>4 DEF Inv, OnGroup
  <2>2. PICK c \in commits : c.group = g /\ c.epoch = req[r].read.epoch + 1 /\ c.change = req[r].next
    BY <1>0, <2>1 DEF Decides
  <2>3. /\ groups[g].st = "open" /\ groups[g].epoch = req[r].read.epoch
        /\ groups[g].members = req[r].read.members /\ groups[g].epoch \in Nat
    BY <1>0, <1>1, <1>4, <2>1 DEF Decides, Applies, HasRead, GroupRow
  <2>4. /\ groups'[g].st = "open" /\ groups'[g].epoch = groups[g].epoch + 1
        /\ groups'[g].members = AfterChange(groups[g].members, c.change)
    BY <1>0, <1>1, <1>4, <2>2, <2>3 DEF ApplyEffects
  <2>5. Pending(g) = {c}
    BY <2>2, <2>3 DEF Pending, Row, Inv, Unique
  <2>6. Pending(g)' = {}
    <3>1. \A d \in commits' : ~(d.group = g /\ d.epoch = groups'[g].epoch + 1)
      BY <1>1, <2>1, <2>3, <2>4 DEF RowsOf, CommitRow
    <3> QED
      BY <3>1 DEF Pending, Row
  <2>7. Head(g)' = Head(g)
    <3>1. Head(g) = groups[g].epoch + 1
      BY <2>5 DEF Head, Pending
    <3>2. Head(g)' = groups'[g].epoch
      BY <2>3, <2>4, <2>6 DEF Head, Pending
    <3> QED
      BY <2>4, <3>1, <3>2
  <2>8. ASSUME NEW h \in Groups \ expired, h # g
        PROVE  /\ groups'[h] = groups[h] /\ Pending(h)' = Pending(h) /\ Head(h)' = Head(h)
               /\ RosterOf(h)' = RosterOf(h) /\ LateOf(h)' = LateOf(h)
    <3>1. groups'[h] = groups[h] /\ Pending(h)' = Pending(h) /\ Head(h)' = Head(h)
      BY <1>2, <2>8 DEF Same, Pending, Row, Head
    <3> QED
      BY <3>1 DEF RosterOf, LateOf
  <2>9. UNCHANGED LogState
    BY <2>3, <2>4, <2>8 DEF LogState
  <2>10. UNCHANGED LogHead
    BY <2>7, <2>8 DEF LogHead
  <2>11. UNCHANGED LogRoster
    <3>1. UNION {AfterChange(groups[g].members, x.change) : x \in Pending(g)}
             = AfterChange(groups[g].members, c.change)
      BY <2>5
    <3>2. RosterOf(g) = AfterChange(groups[g].members, c.change)
      BY <2>5, <3>1 DEF RosterOf
    <3>3. RosterOf(g)' = groups'[g].members
      BY <2>6 DEF RosterOf
    <3>4. \A h \in Groups \ expired : RosterOf(h)' = RosterOf(h)
      BY <2>4, <2>8, <3>2, <3>3
    <3> QED
      BY <3>4 DEF LogRoster
  <2>12. UNCHANGED LogLate
    <3>1. LateOf(g) = FALSE /\ LateOf(g)' = FALSE
      BY <2>3, <2>4 DEF LateOf
    <3>2. \A h \in Groups \ expired : LateOf(h)' = LateOf(h)
      BY <2>8, <3>1
    <3> QED
      BY <3>2 DEF LogLate
  <2> QED
    BY <2>9, <2>10, <2>11, <2>12 DEF Log!vars
<1> QED
  BY <1>3, <1>4

\* The insert that succeeds is the step of the log
LEMMA InsertWins ==
    ASSUME Inv, Inv', NEW r \in Requests, InsertCommit(r), Row(req[r].g, req[r].epoch) = {},
           req[r].g \notin expired
    PROVE  Log!Next
<1>0. PICK g \in Groups : g = req[r].g
  BY DEF Inv, Typed, Named, InsertCommit, At
<1>1. /\ groups[g].epoch = req[r].read.epoch /\ groups[g].members = req[r].read.members
      /\ req[r].epoch = groups[g].epoch + 1 /\ Pending(g) = {}
      /\ groups[g].st \in {"open", "closed"}
      /\ \E d \in Devices : Acceptable(req[r], d, req[r].next)
  BY <1>0, InsertStep DEF Inv
<1>2. /\ groups \in [Groups -> GroupRow] /\ req[r].next \in Changes /\ groups[g].epoch \in Nat
  BY <1>0 DEF Inv, Typed, Shapes, Named, InsertCommit, At, GroupRow
<1> DEFINE new == [group |-> g, epoch |-> req[r].epoch, change |-> req[r].next]
<1>3. commits' = commits \cup {new} /\ UNCHANGED <<groups, expired>>
  BY <1>0 DEF InsertCommit
<1>4. \A h \in Groups \ {g} : Same(h)
  BY <1>3 DEF Same
<1>5. /\ \A d \in commits' : d.group = g /\ d.epoch = groups'[g].epoch + 1 => d = new
      /\ new \in commits' /\ new.group = g /\ new.epoch = groups'[g].epoch + 1 /\ new.change = req[r].next
  BY <1>1, <1>3 DEF Pending, Row
<1>6. \A c : c \in Pending(g)' => c.change = req[r].next
  BY <1>5 DEF Pending, Row
<1>7. Pending(g)' # {}
  BY <1>5 DEF Pending, Row
<1>8. Head(g)' = Head(g) + 1
  BY <1>1, <1>2, <1>3, <1>7 DEF Head, Pending
<1>9. ASSUME NEW h \in Groups \ expired, h # g
      PROVE  /\ groups'[h] = groups[h] /\ Head(h)' = Head(h)
             /\ RosterOf(h)' = RosterOf(h) /\ LateOf(h)' = LateOf(h)
  <2>1. groups'[h] = groups[h] /\ Pending(h)' = Pending(h) /\ Head(h)' = Head(h)
    BY <1>4, <1>9 DEF Same, Pending, Row, Head
  <2> QED
    BY <2>1 DEF RosterOf, LateOf
<1>10. LogState' = LogState /\ LogState[g] = groups[g].st
  BY <1>0, <1>3 DEF LogState
<1>11. LogHead' = [LogHead EXCEPT ![g] = @ + 1]
  BY <1>0, <1>3, <1>8, <1>9 DEF LogHead
<1>12. LogRoster[g] = groups[g].members
  BY <1>0, <1>1 DEF LogRoster, RosterOf
<1>13. LogRoster' = [LogRoster EXCEPT ![g] = AfterChange(@, req[r].next)]
  <2>1. UNION {AfterChange(groups'[g].members, c.change) : c \in Pending(g)'}
           = AfterChange(groups[g].members, req[r].next)
    BY <1>3, <1>6, <1>7
  <2>2. RosterOf(g)' = AfterChange(groups[g].members, req[r].next)
    BY <1>3, <1>7, <2>1 DEF RosterOf
  <2> QED
    BY <1>0, <1>3, <1>9, <1>12, <2>2 DEF LogRoster
<1>14. ~LogLate[g]
  BY <1>1 DEF LogLate, LateOf
<1>a. ASSUME groups[g].st = "open" PROVE UNCHANGED LogLate
  <2>1. LateOf(g) = FALSE /\ LateOf(g)' = FALSE
    BY <1>3, <1>a DEF LateOf
  <2>2. \A h \in Groups \ expired : LateOf(h)' = LateOf(h)
    BY <1>9, <2>1
  <2> QED
    BY <1>3, <2>2 DEF LogLate
<1>b. ASSUME groups[g].st = "closed" PROVE LogLate' = [LogLate EXCEPT ![g] = TRUE]
  <2>1. LateOf(g)' = TRUE
    BY <1>3, <1>7, <1>b DEF LateOf
  <2>2. PICK b \in BOOLEAN : b = TRUE
    OBVIOUS
  <2>a. ASSUME NEW h \in Groups \ expired, h # g PROVE LateOf(h)' = LateOf(h)
    BY <1>9, <2>a
  <2>b. LateOf(g)' = b
    BY <2>1, <2>2
  <2>3. \A h \in Groups \ expired : LateOf(h)' = IF h = g THEN b ELSE LateOf(h)
    BY <2>a, <2>b
  <2>4. LogLate' = [LogLate EXCEPT ![g] = b]
    BY <1>0, <1>3, <2>3 DEF LogLate
  <2> QED
    BY <2>2, <2>4
<1>15. PICK by \in Devices : Log!Legal(LogRoster[g], by, req[r].next)
  <2>1. PICK by \in Devices : Acceptable(req[r], by, req[r].next)
    BY <1>1
  <2>2. LogRoster[g] = req[r].read.members
    BY <1>1, <1>12
  <2>3. Log!Legal(req[r].read.members, by, req[r].next)
    BY <2>1 DEF Acceptable, Log!Legal, Cardinality, Log!Cardinality
  <2> QED
    BY <2>2, <2>3
<1>16. \/ LogState[g] = "open" /\ UNCHANGED LogLate
       \/ LogState[g] = "closed" /\ ~LogLate[g] /\ LogLate' = [LogLate EXCEPT ![g] = TRUE]
  BY <1>1, <1>10, <1>14, <1>a, <1>b
<1>17. Log!Win(g)
  BY <1>2, <1>10, <1>11, <1>13, <1>15, <1>16 DEF Log!Win, Log!AfterChange, AfterChange
<1> QED
  BY <1>17 DEF Log!Next

\* Closing an open group closes its log, whether or not a winner is still to be applied
LEMMA CloseCloses ==
    ASSUME Inv, NEW g \in Groups, Closed(g), UNCHANGED <<commits, expired>>
    PROVE  Log!Next \/ UNCHANGED Log!vars
<1>0. groups \in [Groups -> GroupRow]
  BY DEF Inv, Typed, Shapes
<1>1. CASE groups[g].st # "open" \/ g \in expired
  <2>1. \A h \in Groups \ expired : Same(h)
    BY <1>0, <1>1 DEF Closed, Same, GroupRow
  <2> QED
    BY <2>1, LogFrame
<1>2. CASE groups[g].st = "open" /\ g \notin expired
  <2>1. /\ \A h \in Groups : groups'[h].epoch = groups[h].epoch /\ groups'[h].members = groups[h].members
        /\ \A h \in Groups : h # g => groups'[h].st = groups[h].st
        /\ groups'[g].st = "closed"
    BY <1>0, <1>2 DEF Closed, GroupRow
  <2>2. ASSUME NEW h \in Groups
        PROVE  Head(h)' = Head(h) /\ RosterOf(h)' = RosterOf(h) /\ Pending(h)' = Pending(h)
    <3>1. Pending(h)' = Pending(h) /\ Head(h)' = Head(h)
      BY <2>1 DEF Pending, Row, Head
    <3> QED
      BY <2>1, <3>1 DEF RosterOf
  <2>3. LogState' = [LogState EXCEPT ![g] = "closed"] /\ LogState[g] = "open"
    BY <1>2, <2>1 DEF LogState
  <2>4. UNCHANGED LogHead
    BY <2>2 DEF LogHead
  <2>5. UNCHANGED LogRoster
    BY <2>2 DEF LogRoster
  <2>6. \E b \in BOOLEAN : LogLate' = [LogLate EXCEPT ![g] = b]
    <3>1. PICK b \in BOOLEAN : LateOf(g)' = b
      BY DEF LateOf
    <3>2. \A h \in Groups \ {g} : LateOf(h)' = LateOf(h)
      BY <2>1, <2>2 DEF LateOf
    <3>3. \A h \in Groups \ expired : LateOf(h)' = IF h = g THEN b ELSE LateOf(h)
      BY <3>1, <3>2
    <3> QED
      BY <1>2, <3>3 DEF LogLate
  <2>7. Log!Close(g)
    BY <2>3, <2>4, <2>5, <2>6 DEF Log!Close
  <2> QED
    BY <2>7 DEF Log!Next
<1> QED
  BY <1>1, <1>2

\* The conditional insert of a group opens its log
LEMMA ClaimOpens ==
    ASSUME Inv, NEW r \in Requests, Claim(r)
    PROVE  Log!Next \/ UNCHANGED Log!vars
<1>0. PICK g \in Groups : g = req[r].g
  BY DEF Inv, Typed, Named, Claim, At
<1>1. groups \in [Groups -> GroupRow] /\ req[r].dev \in Devices /\ commits \subseteq CommitRow
  BY DEF Inv, Typed, Shapes, Named, Claim, At
<1>2. UNCHANGED <<commits, expired>>
  BY DEF Claim
<1>3. CASE groups' = groups
  <2>1. \A h \in Groups \ expired : Same(h)
    BY <1>2, <1>3 DEF Same
  <2> QED
    BY <1>2, <2>1, LogFrame
<1>4. CASE groups' # groups
  <2>1. /\ groups[g].st = "none" /\ \A h \in Groups : groups[h].st # "open"
        /\ groups' = [groups EXCEPT ![g] = [st |-> "open", epoch |-> 0, members |-> {req[r].dev}]]
    BY <1>0, <1>4 DEF Claim
  <2>2. g \notin expired /\ RowsOf(g)
    BY <2>1 DEF Inv
  <2>3. /\ groups[g].epoch = 0 /\ groups'[g].epoch = 0 /\ groups'[g].st = "open"
        /\ groups'[g].members = {req[r].dev} /\ \A c \in commits : c.group # g
    BY <1>1, <2>1, <2>2 DEF RowsOf
  <2>4. Pending(g) = {} /\ Pending(g)' = {}
    BY <1>2, <2>3 DEF Pending, Row
  <2>5. Head(g)' = Head(g) /\ RosterOf(g)' = {req[r].dev} /\ LateOf(g)' = FALSE /\ LateOf(g) = FALSE
    BY <2>1, <2>3, <2>4 DEF Head, RosterOf, LateOf, Pending
  <2>6. ASSUME NEW h \in Groups, h # g
        PROVE  /\ groups'[h] = groups[h] /\ Head(h)' = Head(h)
               /\ RosterOf(h)' = RosterOf(h) /\ LateOf(h)' = LateOf(h)
    <3>1. groups'[h] = groups[h]
      BY <1>1, <2>1, <2>6
    <3>2. Pending(h)' = Pending(h) /\ Head(h)' = Head(h)
      BY <1>2, <3>1 DEF Pending, Row, Head
    <3> QED
      BY <3>1, <3>2 DEF RosterOf, LateOf
  <2>7. LogState' = [LogState EXCEPT ![g] = "open"] /\ LogState[g] = "none"
    <3>1. \A h \in Groups : groups'[h].st = IF h = g THEN "open" ELSE groups[h].st
      BY <2>3, <2>6
    <3> QED
      BY <1>2, <2>1, <2>2, <3>1 DEF LogState
  <2>8. \A h \in Groups : LogState[h] # "open"
    BY <2>1 DEF LogState
  <2>9. UNCHANGED LogHead
    BY <1>2, <2>5, <2>6 DEF LogHead
  <2>10. UNCHANGED LogLate
    <3>0. LateOf(g)' = LateOf(g)
      BY <2>5
    <3>1. \A h \in Groups \ expired : LateOf(h)' = LateOf(h)
      BY <2>6, <3>0
    <3> QED
      BY <1>2, <3>1 DEF LogLate
  <2>11. LogRoster' = [LogRoster EXCEPT ![g] = {req[r].dev}]
    BY <1>2, <2>2, <2>5, <2>6 DEF LogRoster
  <2>12. Log!Open(g)
    BY <1>1, <2>7, <2>8, <2>9, <2>10, <2>11 DEF Log!Open
  <2> QED
    BY <2>12 DEF Log!Next
<1> QED
  BY <1>3, <1>4

\* The promise of the groups the sweep chooses ends
LEMMA SweepExpires ==
    ASSUME Inv, SweepFind
    PROVE  Log!Next
<1>1. PICK ids \in SUBSET Groups : expired' = expired \cup ids
  BY DEF SweepFind
<1>2. ASSUME NEW h \in Groups
      PROVE  /\ groups'[h] = groups[h] /\ Head(h)' = Head(h)
             /\ RosterOf(h)' = RosterOf(h) /\ LateOf(h)' = LateOf(h)
  <2>1. groups'[h] = groups[h] /\ Pending(h)' = Pending(h) /\ Head(h)' = Head(h)
    BY DEF SweepFind, Pending, Row, Head
  <2> QED
    BY <2>1 DEF RosterOf, LateOf
<1>3. LogState' = [g \in Groups |-> IF g \in ids THEN "expired" ELSE LogState[g]]
  BY <1>1, <1>2 DEF LogState
<1>4. LogHead' = [g \in Groups |-> IF g \in ids THEN 0 ELSE LogHead[g]]
  BY <1>1, <1>2 DEF LogHead
<1>5. LogRoster' = [g \in Groups |-> IF g \in ids THEN {} ELSE LogRoster[g]]
  BY <1>1, <1>2 DEF LogRoster
<1>6. LogLate' = [g \in Groups |-> IF g \in ids THEN FALSE ELSE LogLate[g]]
  BY <1>1, <1>2 DEF LogLate
<1>7. Log!Expire(ids)
  BY <1>3, <1>4, <1>5, <1>6 DEF Log!Expire
<1> QED
  BY <1>7 DEF Log!Next

LEMMA RefinesInit == Init => Log!Init
<1> SUFFICES ASSUME Init PROVE Log!Init
  OBVIOUS
<1>1. /\ expired = {} /\ commits = {}
      /\ \A g \in Groups : groups[g].st = "none" /\ groups[g].epoch = 0 /\ groups[g].members = {}
  BY DEF Init, NoRow
<1>2. \A g \in Groups : Pending(g) = {}
  BY <1>1 DEF Pending, Row
<1>3. \A g \in Groups : Head(g) = 0 /\ RosterOf(g) = {} /\ LateOf(g) = FALSE
  BY <1>1, <1>2 DEF Head, RosterOf, LateOf, Pending
<1>4. LogState = [g \in Groups |-> "none"]
  BY <1>1 DEF LogState
<1>5. LogHead = [g \in Groups |-> 0]
  BY <1>1, <1>3 DEF LogHead
<1>6. LogRoster = [g \in Groups |-> {}]
  BY <1>1, <1>3 DEF LogRoster
<1>7. LogLate = [g \in Groups |-> FALSE]
  BY <1>1, <1>3 DEF LogLate
<1> QED
  BY <1>4, <1>5, <1>6, <1>7 DEF Log!Init

\* Steps of a request that write neither a group nor a commit row
Quiet(r) ==
    \/ ReadGroup(r) \/ NextCommit(r) \/ Forget(r) \/ StartCommit(r) \/ ReadWinner(r)
    \/ Consume(r) \/ Deliver(r) \/ StartJoin(r) \/ StoreIntent(r) \/ RestoreIntent(r)
    \/ ReadIntents(r) \/ StartCreate(r) \/ Crash(r)

LEMMA RefinesStep == Inv /\ Inv' /\ [Next]_vars => [Log!Next]_(Log!vars)
<1> SUFFICES ASSUME Inv, Inv', [Next]_vars PROVE Log!Next \/ UNCHANGED Log!vars
  OBVIOUS
<1>1. CASE UNCHANGED <<groups, commits, expired>>
  <2>1. \A g \in Groups \ expired : Same(g)
    BY <1>1 DEF Same
  <2> QED
    BY <1>1, <2>1, LogFrame
<1>2. ASSUME NEW r \in Requests, Quiet(r) PROVE UNCHANGED <<groups, commits, expired>>
  BY <1>2 DEF Quiet, ReadGroup, NextCommit, Forget, StartCommit, ReadWinner, Consume, Deliver,
              StartJoin, StoreIntent, RestoreIntent, ReadIntents, StartCreate, Crash
<1>3. ASSUME NEW r \in Requests, Repair(r) \/ Apply(r) PROVE UNCHANGED Log!vars
  <2>1. ApplyEffects(r) /\ UNCHANGED <<commits, expired>> /\ req[r].pc \in {"repair", "apply"}
    BY <1>3 DEF Repair, Apply, At
  <2> QED
    BY <2>1, EffectsStutter
<1>4. ASSUME NEW r \in Requests, InsertCommit(r) PROVE Log!Next \/ UNCHANGED Log!vars
  <2>1. CASE Row(req[r].g, req[r].epoch) # {}
    BY <1>1, <1>4, <2>1 DEF InsertCommit
  <2>2. CASE Row(req[r].g, req[r].epoch) = {} /\ req[r].g \notin expired
    BY <1>4, <2>2, InsertWins
  <2>3. CASE Row(req[r].g, req[r].epoch) = {} /\ req[r].g \in expired
    <3>1. \A g \in Groups \ expired : Same(g)
      BY <1>4, <2>3 DEF InsertCommit, Same
    <3> QED
      BY <1>4, <3>1, LogFrame DEF InsertCommit
  <2> QED
    BY <2>1, <2>2, <2>3
<1>5. ASSUME NEW r \in Requests, CloseGroup(r) \/ Supersede(r) PROVE Log!Next \/ UNCHANGED Log!vars
  <2>1. PICK g \in Groups : Closed(g) /\ UNCHANGED <<commits, expired>>
    BY <1>5 DEF CloseGroup, Supersede, At, Inv, Typed, Named
  <2> QED
    BY <2>1, CloseCloses
<1>6. ASSUME NEW g \in Groups, CallEnds(g) PROVE Log!Next \/ UNCHANGED Log!vars
  <2>1. Closed(g) /\ UNCHANGED <<commits, expired>>
    BY <1>6 DEF CallEnds
  <2> QED
    BY <2>1, CloseCloses
<1>7. ASSUME SweepCommits \/ SweepGroups PROVE UNCHANGED Log!vars
  <2>1. UNCHANGED expired /\ sweep.ids \subseteq expired
    BY <1>7 DEF SweepCommits, SweepGroups, Inv, Typed, Shapes
  <2>2. \A g \in Groups \ expired : Same(g)
    BY <1>7, <2>1 DEF SweepCommits, SweepGroups, Same
  <2> QED
    BY <2>1, <2>2, LogFrame
<1>8. CASE Next
  <2>1. \/ \E r \in Requests : Quiet(r) \/ Repair(r) \/ Apply(r) \/ InsertCommit(r) \/ CloseGroup(r)
                                \/ Supersede(r) \/ Claim(r)
        \/ \E g \in Groups : CallEnds(g)
        \/ \E g \in Groups, d \in Devices : IntentAges(g, d)
        \/ SweepFind \/ SweepCommits \/ SweepIntents \/ SweepGroups \/ SweepCrash
    BY <1>8 DEF Next, Step, Quiet
  <2>2. CASE SweepIntents \/ SweepCrash \/ \E g \in Groups, d \in Devices : IntentAges(g, d)
    BY <1>1, <2>2 DEF SweepIntents, SweepCrash, IntentAges
  <2> QED
    BY <1>1, <1>2, <1>3, <1>4, <1>5, <1>6, <1>7, <2>1, <2>2, ClaimOpens, SweepExpires
<1> QED
  BY <1>1, <1>8 DEF vars

\* The Call plane implements the log of commits: whatever requests interleave, crash and
\* repair, every epoch of a group has one winner, made against the roster its
\* predecessors left and applied once (insert_mls_commit, fetch_mls_group_repaired)
THEOREM Implements == Spec => ImplementsLog
  BY Invariant, RefinesInit, RefinesStep, PTL DEF Spec, Log!Spec, ImplementsLog
-----------------------------------------------------------------------------
(* Two devices of one user in a group were added by one commit *)

Together(g, m, n) ==
    m # n /\ UserOf[m] = UserOf[n] => \E c \in commits : c.group = g /\ {m, n} \subseteq c.change.add

\* A step that gives a group no member it did not have, and keeps its rows
LEMMA TogetherFrame ==
    ASSUME OneDevicePerCommit, expired \subseteq expired',
           \A g \in Groups \ expired' : \A c \in commits : c.group = g => c \in commits',
           \A g \in Groups \ expired' : groups'[g].members \subseteq groups[g].members
    PROVE  OneDevicePerCommit'
<1> SUFFICES ASSUME NEW g \in Groups \ expired', NEW m \in groups'[g].members, NEW n \in groups'[g].members
             PROVE  Together(g, m, n)'
  BY DEF OneDevicePerCommit, Together
<1>1. Together(g, m, n)
  BY DEF OneDevicePerCommit, Together
<1> QED
  BY <1>1 DEF Together

LEMMA TogetherStep == Inv /\ OneDevicePerCommit /\ [Next]_vars => OneDevicePerCommit'
<1> SUFFICES ASSUME Inv, OneDevicePerCommit, [Next]_vars PROVE OneDevicePerCommit'
  OBVIOUS
<1>0. groups \in [Groups -> GroupRow] /\ commits \subseteq CommitRow
  BY DEF Inv, Typed, Shapes
<1>1. ASSUME NEW r \in Requests, Repair(r) \/ Apply(r) PROVE OneDevicePerCommit'
  <2>1. ApplyEffects(r) /\ UNCHANGED <<commits, expired>> /\ req[r].pc \in {"repair", "apply"}
    BY <1>1 DEF Repair, Apply, At
  <2>2. PICK g \in Groups : g = req[r].g
    BY <2>1 DEF Inv, Typed, Named
  <2>3. CASE ~Applies(r) \/ g \in expired
    BY <1>0, <2>1, <2>2, <2>3, TogetherFrame DEF ApplyEffects
  <2>4. CASE Applies(r) /\ g \notin expired
    <3>1. Decides(r) /\ RowsOf(g)
      BY <2>1, <2>2, <2>4 DEF Inv, OnGroup
    <3>2. PICK c \in commits : c.group = g /\ c.epoch = groups[g].epoch + 1 /\ c.change = req[r].next
      BY <2>1, <2>2, <2>4, <3>1 DEF Decides, Applies
    <3>3. groups'[g].members \subseteq groups[g].members \cup c.change.add
      BY <1>0, <2>1, <2>2, <2>4, <3>1, <3>2 DEF ApplyEffects, AfterChange, Decides, Applies, HasRead
    <3>4. \A a \in c.change.add, m \in groups[g].members : UserOf[a] # UserOf[m]
      BY <3>1, <3>2 DEF RowsOf
    <3>5. ASSUME NEW m \in groups'[g].members, NEW n \in groups'[g].members PROVE Together(g, m, n)'
      <4>1. CASE m \in groups[g].members /\ n \in groups[g].members
        BY <2>1, <2>4, <4>1 DEF OneDevicePerCommit, Together
      <4>2. CASE m \in c.change.add /\ n \in c.change.add
        BY <2>1, <3>2, <4>2 DEF Together
      <4> QED
        BY <3>3, <3>4, <4>1, <4>2 DEF Together
    <3>6. ASSUME NEW h \in Groups \ expired, h # g, NEW m \in groups'[h].members, NEW n \in groups'[h].members
          PROVE  Together(h, m, n)'
      BY <1>0, <2>1, <2>2, <3>6 DEF ApplyEffects, OneDevicePerCommit, Together
    <3> QED
      BY <2>1, <3>5, <3>6 DEF OneDevicePerCommit, Together
  <2> QED
    BY <2>3, <2>4
<1>2. ASSUME NEW r \in Requests, Claim(r) PROVE OneDevicePerCommit'
  <2>1. PICK g \in Groups : g = req[r].g
    BY <1>2 DEF Inv, Typed, Named, Claim, At
  <2>2. /\ UNCHANGED <<commits, expired>>
        /\ \/ groups' = groups
           \/ groups' = [groups EXCEPT ![g] = [st |-> "open", epoch |-> 0, members |-> {req[r].dev}]]
    BY <1>2, <2>1 DEF Claim
  <2>3. ASSUME NEW h \in Groups \ expired, NEW m \in groups'[h].members, NEW n \in groups'[h].members
        PROVE  Together(h, m, n)'
    BY <1>0, <2>2, <2>3 DEF OneDevicePerCommit, Together
  <2> QED
    BY <2>2, <2>3 DEF OneDevicePerCommit, Together
<1>3. ASSUME NEW r \in Requests, CloseGroup(r) \/ Supersede(r) \/ InsertCommit(r) PROVE OneDevicePerCommit'
  <2>1. UNCHANGED expired /\ commits \subseteq commits'
    BY <1>3 DEF CloseGroup, Supersede, InsertCommit
  <2>2. \A g \in Groups : groups'[g].members = groups[g].members
    <3>1. groups' = groups \/ \E g \in Groups : Closed(g)
      BY <1>3 DEF CloseGroup, Supersede, InsertCommit, At, Inv, Typed, Named
    <3>2. ASSUME NEW g \in Groups, Closed(g), NEW h \in Groups PROVE groups'[h].members = groups[h].members
      BY <1>0, <3>2 DEF Closed, GroupRow
    <3> QED
      BY <3>1, <3>2
  <2> QED
    BY <2>1, <2>2, TogetherFrame
<1>4. ASSUME NEW g \in Groups, CallEnds(g) PROVE OneDevicePerCommit'
  <2>1. UNCHANGED <<commits, expired>> /\ \A h \in Groups : groups'[h].members = groups[h].members
    BY <1>0, <1>4 DEF CallEnds, Closed
  <2> QED
    BY <2>1, TogetherFrame
<1>5. ASSUME UNCHANGED <<groups, commits>>, expired \subseteq expired' PROVE OneDevicePerCommit'
  BY <1>5, TogetherFrame
<1>6. ASSUME SweepCommits \/ SweepGroups PROVE OneDevicePerCommit'
  <2>1. UNCHANGED expired /\ sweep.ids \subseteq expired
    BY <1>6 DEF SweepCommits, SweepGroups, Inv, Typed, Shapes
  <2>2. \A g \in Groups \ expired : \A c \in commits : c.group = g => c \in commits'
    BY <1>6, <2>1 DEF SweepCommits, SweepGroups
  <2>3. \A g \in Groups \ expired : groups'[g].members \subseteq groups[g].members
    BY <1>6, <2>1 DEF SweepCommits, SweepGroups
  <2> QED
    BY <2>1, <2>2, <2>3, TogetherFrame
<1>7. ASSUME NEW r \in Requests, Quiet(r) PROVE UNCHANGED <<groups, commits, expired>>
  BY <1>7 DEF Quiet, ReadGroup, NextCommit, Forget, StartCommit, ReadWinner, Consume, Deliver,
              StartJoin, StoreIntent, RestoreIntent, ReadIntents, StartCreate, Crash
<1>8. CASE Next
  <2>1. \/ \E r \in Requests : Quiet(r) \/ Repair(r) \/ Apply(r) \/ InsertCommit(r) \/ CloseGroup(r)
                                \/ Supersede(r) \/ Claim(r)
        \/ \E g \in Groups : CallEnds(g)
        \/ \E g \in Groups, d \in Devices : IntentAges(g, d)
        \/ SweepFind \/ SweepCommits \/ SweepIntents \/ SweepGroups \/ SweepCrash
    BY <1>8 DEF Next, Step, Quiet
  <2>2. CASE SweepFind \/ SweepIntents \/ SweepCrash \/ \E g \in Groups, d \in Devices : IntentAges(g, d)
    BY <1>5, <2>2 DEF SweepFind, SweepIntents, SweepCrash, IntentAges
  <2> QED
    BY <1>1, <1>2, <1>3, <1>4, <1>5, <1>6, <1>7, <2>1, <2>2
<1> QED
  BY <1>5, <1>8 DEF vars

\* Two devices of one user sit in a group only if one commit added both: commits racing
\* each other never add a second device of a user (insert_mls_commit's Add rule)
THEOREM DevicesOfAUser == Spec => []OneDevicePerCommit
<1>1. Init => OneDevicePerCommit
  BY DEF Init, NoRow, OneDevicePerCommit
<1> QED
  BY <1>1, TogetherStep, Invariant, PTL DEF Spec
=============================================================================
