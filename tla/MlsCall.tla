------------------------------ MODULE MlsCall ------------------------------
(***************************************************************************)
(* The Call plane of the MLS delivery service: the groups of one channel's *)
(* call, their commit rows and their join intents, under concurrent HTTP   *)
(* requests, the end of the call and the prune task.  No transaction is    *)
(* used: a commit wins by the unique id of its row, its effects reach the  *)
(* group by a second, conditional write, and whoever reads the group next  *)
(* writes them when the winner died in between.                            *)
(*                                                                         *)
(* One action per database call.  A request may stop after any of them     *)
(* (Crash): the server died, or the call answered an error.                *)
(***************************************************************************)
EXTENDS Naturals, FiniteSets

CONSTANTS
    Devices,        \* registered devices
    UserOf,         \* the user of each device
    Groups,         \* group ids clients pick
    Requests,       \* concurrent requests
    Changes,        \* what a commit may claim to change: [add, rem]
    MaxMembers,     \* MAX_MLS_GROUP_MEMBERS
    MaxEpoch,       \* bound: commits of a group
    MayAge,         \* bound: groups that may pass their 7th day open
    Joins,          \* bound: which devices send a join intent for which groups
    Creators,       \* bound: devices that create a group
    Nil             \* no group, no device

\* validate_submission: no device twice in the fan-out lists
ASSUME MlsChanges == /\ Changes \subseteq [add : SUBSET Devices, rem : SUBSET Devices]
                     /\ \A c \in Changes : c.add \cap c.rem = {}
ASSUME MlsNil == Nil \notin Groups \cup Devices
ASSUME MlsBounds == /\ MaxMembers \in Nat /\ MaxEpoch \in [Groups -> Nat] /\ MayAge \subseteq Groups
                    /\ Joins \subseteq Groups \X Devices /\ Creators \subseteq Devices

VARIABLES
    groups,         \* mls_groups
    commits,        \* mls_commits
    intents,        \* mls_join_intents: the devices with an outstanding intent
    req,            \* the requests in progress
    sweep,          \* the prune task
    expired         \* history: groups the prune task has chosen

vars == <<groups, commits, intents, req, sweep, expired>>

NoRow == [st |-> "none", epoch |-> 0, members |-> {}]
NoChange == [add |-> {}, rem |-> {}]

Idle == [pc |-> "idle", op |-> "none", g |-> Nil, old |-> Nil, dev |-> Nil, epoch |-> 0,
         read |-> NoRow, seen |-> {}, next |-> NoChange,
         won |-> FALSE, rejoin |-> FALSE, checked |-> FALSE, early |-> FALSE]

Init ==
    /\ groups = [g \in Groups |-> NoRow]
    /\ commits = {}
    /\ intents = [g \in Groups |-> {}]
    /\ req = [r \in Requests |-> Idle]
    /\ sweep = [pc |-> "idle", ids |-> {}]
    /\ expired = {}

Row(g, e) == {c \in commits : c.group = g /\ c.epoch = e}
Head(g) == groups[g].epoch + IF Row(g, groups[g].epoch + 1) = {} THEN 0 ELSE 1
AfterChange(members, change) == (members \ change.rem) \cup change.add

At(r, pc) == req[r].pc = pc
Goto(r, pc) == req' = [req EXCEPT ![r].pc = pc]
Answer(r) == req' = [req EXCEPT ![r] = Idle]
-----------------------------------------------------------------------------
(* Reading a group: fetch_mls_group_repaired                               *)

Fetch(q) == [q EXCEPT !.pc = "read", !.read = NoRow]
FetchAgain(r) == req' = [req EXCEPT ![r].pc = "read", ![r].read = NoRow, ![r].next = NoChange]

ReadGroup(r) ==
    /\ At(r, "read")
    /\ IF groups[req[r].g].st = "gone"
         THEN Answer(r)
         ELSE req' = [req EXCEPT ![r].read = groups[req[r].g], ![r].pc = "next"]
    /\ UNCHANGED <<groups, commits, intents, sweep, expired>>

\* apply_mls_commit_effects: the commit after the group as read lands on the group only
\* at the epoch before it
Applies(r) ==
    LET now == groups[req[r].g] IN now.st = "open" /\ now.epoch = req[r].read.epoch

ApplyEffects(r) ==
    LET q == req[r] IN
    groups' = IF Applies(r)
                THEN [groups EXCEPT ![q.g] = [st |-> "open", epoch |-> q.read.epoch + 1,
                                              members |-> AfterChange(q.read.members, q.next)]]
                ELSE groups

\* Admission consumes the joiner's intent
DeleteIntents(r) == intents' = [intents EXCEPT ![req[r].g] = @ \ req[r].next.add]

Repair(r) ==
    /\ At(r, "repair")
    /\ ApplyEffects(r)
    /\ IF Applies(r) /\ req[r].next.add # {} THEN Goto(r, "forget") ELSE FetchAgain(r)
    /\ UNCHANGED <<commits, intents, sweep, expired>>

Forget(r) ==
    /\ At(r, "forget")
    /\ DeleteIntents(r)
    /\ FetchAgain(r)
    /\ UNCHANGED <<groups, commits, sweep, expired>>
-----------------------------------------------------------------------------
(* The checks that follow the read, by what the request is about; the      *)
(* parts of the request they are the first to look at are chosen here      *)

\* Mutant: only the added device itself is looked for
AcceptableDevice(q, d, change) ==
    /\ d \in q.read.members
    /\ change.add \cap q.read.members = {}
    /\ Cardinality(q.read.members) + Cardinality(change.add)
           <= MaxMembers + Cardinality(change.rem \cap q.read.members)

\* insert_mls_commit's validation
Acceptable(q, d, change) ==
    /\ d \in q.read.members
    /\ \A a \in change.add, m \in q.read.members : UserOf[a] # UserOf[m]
    /\ Cardinality(q.read.members) + Cardinality(change.add)
           <= MaxMembers + Cardinality(change.rem \cap q.read.members)

\* The route reads the group, then insert_mls_commit reads it again; an epoch already
\* decided is answered Lost, a refused commit with an error
CommitRead(q) ==
    IF q.read.st # "open" THEN {Idle}
    ELSE IF ~q.checked THEN {Fetch([q EXCEPT !.checked = TRUE, !.seen = q.read.members])}
    ELSE IF q.epoch <= q.read.epoch THEN {Idle}
    ELSE IF q.epoch > q.read.epoch + 1 THEN {[q EXCEPT !.pc = "ahead"]}
    ELSE {Idle} \cup {[q EXCEPT !.pc = "insert", !.next = c] :
                        c \in {x \in Changes : \E d \in Devices : Acceptable(q, d, x)}}

\* call_join_intent: `mine` is the user's device found in the roster
JoinRead(q, d) ==
    LET mine == {m \in q.read.members : UserOf[m] = UserOf[d]}
        size == Cardinality(q.read.members)
        store(rejoin) == [q EXCEPT !.pc = "store", !.dev = d, !.rejoin = rejoin] IN
    IF q.read.st # "open" THEN {Idle}
    ELSE IF mine = {} THEN {IF size >= MaxMembers THEN Idle ELSE store(FALSE)}
    ELSE {IF m # d THEN Idle
          ELSE IF size = 1 THEN [q EXCEPT !.pc = "close"]
          ELSE store(TRUE) : m \in mine}

\* A route that only reads the group is a join that is refused
ReadDone(q) ==
    IF q.op = "commit" THEN CommitRead(q) ELSE {Idle} \cup UNION {JoinRead(q, d) : d \in {x \in Devices : <<q.g, x>> \in Joins}}

\* Mutant: the group is used as it was read
NextCommitUnrepaired(r) ==
    /\ At(r, "next")
    /\ \E q2 \in ReadDone(req[r]) : req' = [req EXCEPT ![r] = q2]
    /\ UNCHANGED <<groups, commits, intents, sweep, expired>>

\* Mutant: the route's own read of the group is not the repaired one
NextCommitRouteUnrepaired(r) ==
    /\ At(r, "next")
    /\ LET q == req[r]
           next == Row(q.g, q.read.epoch + 1) IN
       IF q.read.st = "open" /\ next # {} /\ (q.op = "commit" => q.checked)
         THEN \E c \in next : req' = [req EXCEPT ![r].next = c.change, ![r].pc = "repair"]
         ELSE \E q2 \in ReadDone(q) : req' = [req EXCEPT ![r] = q2]
    /\ UNCHANGED <<groups, commits, intents, sweep, expired>>

\* An open group takes the commit after it, if there is one, and is read again
NextCommit(r) ==
    /\ At(r, "next")
    /\ LET q == req[r]
           next == Row(q.g, q.read.epoch + 1) IN
       IF q.read.st = "open" /\ next # {}
         THEN \E c \in next : req' = [req EXCEPT ![r].next = c.change, ![r].pc = "repair"]
         ELSE \E q2 \in ReadDone(q) : req' = [req EXCEPT ![r] = q2]
    /\ UNCHANGED <<groups, commits, intents, sweep, expired>>
-----------------------------------------------------------------------------
(* submit_call_commit                                                      *)

\* Any epoch but 0 is taken. A client whose commit comes before one it is made on (two of
\* its own, sent one after the other) is `early`: a history of the request, which no step reads
StartCommit(r) ==
    \E g \in Groups : \E e \in 1..MaxEpoch[g] :
        /\ At(r, "idle")
        /\ groups[g].st # "none"
        /\ req' = [req EXCEPT ![r] = Fetch([Idle EXCEPT !.op = "commit", !.g = g, !.epoch = e,
                                                        !.early = e > Head(g) + 1])]
        /\ UNCHANGED <<groups, commits, intents, sweep, expired>>

\* Mutant: the row is written whether or not there is one
InsertCommitOver(r) ==
    /\ At(r, "insert")
    /\ commits' = (commits \ Row(req[r].g, req[r].epoch))
                     \cup {[group |-> req[r].g, epoch |-> req[r].epoch, change |-> req[r].next]}
    /\ req' = [req EXCEPT ![r].won = TRUE, ![r].pc = "apply"]
    /\ UNCHANGED <<groups, intents, sweep, expired>>

\* The unique id of the row decides the epoch
InsertCommit(r) ==
    LET q == req[r] IN
    /\ At(r, "insert")
    /\ IF Row(q.g, q.epoch) = {}
         THEN /\ commits' = commits \cup {[group |-> q.g, epoch |-> q.epoch, change |-> q.next]}
              /\ req' = [req EXCEPT ![r].won = TRUE, ![r].pc = "apply"]
         ELSE /\ req' = [req EXCEPT ![r].next = NoChange, ![r].pc = "winner"]
              /\ UNCHANGED commits
    /\ UNCHANGED <<groups, intents, sweep, expired>>

ReadWinner(r) ==
    /\ At(r, "winner")
    /\ LET rows == Row(req[r].g, req[r].epoch) IN
       IF rows = {} THEN Answer(r)
       ELSE \E c \in rows : req' = [req EXCEPT ![r].next = c.change, ![r].pc = "apply"]
    /\ UNCHANGED <<groups, commits, intents, sweep, expired>>

AfterEffects(r) == IF req[r].won THEN Goto(r, "deliver") ELSE Answer(r)

\* Winner and losers alike see to it that the winner's effects land
Apply(r) ==
    /\ At(r, "apply")
    /\ ApplyEffects(r)
    /\ IF Applies(r) /\ req[r].next.add # {} THEN Goto(r, "consume") ELSE AfterEffects(r)
    /\ UNCHANGED <<commits, intents, sweep, expired>>

Consume(r) ==
    /\ At(r, "consume")
    /\ DeleteIntents(r)
    /\ AfterEffects(r)
    /\ UNCHANGED <<groups, commits, sweep, expired>>

\* Queues the commit for the roster the route read first (`seen`), less the committer,
\* and the Welcome for the added devices; the queue is not part of this module
Deliver(r) ==
    /\ At(r, "deliver")
    /\ Answer(r)
    /\ UNCHANGED <<groups, commits, intents, sweep, expired>>
-----------------------------------------------------------------------------
(* call_join_intent                                                        *)

StartJoin(r) ==
    \E g \in {p[1] : p \in Joins} :
        /\ At(r, "idle")
        /\ groups[g].st # "none"
        /\ req' = [req EXCEPT ![r] = Fetch([Idle EXCEPT !.op = "join", !.g = g])]
        /\ UNCHANGED <<groups, commits, intents, sweep, expired>>

\* A re-broadcast within MIN_JOIN_INTENT_INTERVAL_SECONDS is refused
StoreIntent(r) ==
    LET q == req[r] IN
    /\ At(r, "store")
    /\ intents' = [intents EXCEPT ![q.g] = @ \cup {q.dev}]
    /\ \/ q.dev \in intents[q.g] /\ Goto(r, "restore")
       \/ IF q.rejoin THEN Goto(r, "intents") ELSE Answer(r)
    /\ UNCHANGED <<groups, commits, sweep, expired>>

\* InSlowmode: the row the refused one replaced is put back
RestoreIntent(r) ==
    /\ At(r, "restore")
    /\ intents' = [intents EXCEPT ![req[r].g] = @ \cup {req[r].dev}]
    /\ Answer(r)
    /\ UNCHANGED <<groups, commits, sweep, expired>>

\* all_member_devices_rejoining
ReadIntents(r) ==
    /\ At(r, "intents")
    /\ IF req[r].read.members \subseteq intents[req[r].g]
         THEN Goto(r, "close")
         ELSE Answer(r)
    /\ UNCHANGED <<groups, commits, intents, sweep, expired>>

\* close_mls_group
Closed(g) == groups' = [groups EXCEPT ![g].st = IF @ = "open" THEN "closed" ELSE @]

CloseGroup(r) ==
    /\ At(r, "close")
    /\ Closed(req[r].g)
    /\ Answer(r)
    /\ UNCHANGED <<commits, intents, sweep, expired>>

\* REJOIN_OUTSTANDING_WINDOW_SECONDS after the intent
IntentAges(g, d) ==
    /\ d \in intents[g]
    /\ intents' = [intents EXCEPT ![g] = @ \ {d}]
    /\ UNCHANGED <<groups, commits, req, sweep, expired>>
-----------------------------------------------------------------------------
(* create_mls_group, the end of the call, other readers                    *)

StartCreate(r) ==
    \E g \in Groups, d \in Creators, old \in (Groups \cup {Nil}) :
        /\ At(r, "idle")
        /\ old # g
        /\ groups[g].st = "none"
        /\ req' = [req EXCEPT ![r] = [Idle EXCEPT !.op = "create", !.g = g, !.dev = d, !.old = old,
                                          !.pc = IF old = Nil THEN "claim" ELSE "supersede"]]
        /\ UNCHANGED <<groups, commits, intents, sweep, expired>>

Supersede(r) ==
    /\ At(r, "supersede")
    /\ Closed(req[r].old)
    /\ IF groups[req[r].old].st \in {"none", "gone"} THEN Answer(r) ELSE Goto(r, "claim")
    /\ UNCHANGED <<commits, intents, sweep, expired>>

\* The partial unique index on (channel, kind where open), and the group's own id
Claim(r) ==
    /\ At(r, "claim")
    /\ groups' = IF groups[req[r].g].st = "none" /\ \A h \in Groups : groups[h].st # "open"
                   THEN [groups EXCEPT ![req[r].g] = [st |-> "open", epoch |-> 0, members |-> {req[r].dev}]]
                   ELSE groups
    /\ Answer(r)
    /\ UNCHANGED <<commits, intents, sweep, expired>>

\* room_finished, and the reconcile pass for a room that is gone
CallEnds(g) ==
    /\ groups[g].st = "open"
    /\ Closed(g)
    /\ UNCHANGED <<commits, intents, req, sweep, expired>>

Crash(r) ==
    /\ ~At(r, "idle")
    /\ Answer(r)
    /\ UNCHANGED <<groups, commits, intents, sweep, expired>>
-----------------------------------------------------------------------------
(* prune_mls_groups: a group closed for a day, which no request of its time *)
(* can still hold, or created a week ago and perhaps still in use           *)

Held(g) == \E r \in Requests : ~At(r, "idle") /\ g \in {req[r].g, req[r].old}
MayGo(g) == \/ groups[g].st = "closed" /\ ~Held(g)
            \/ groups[g].st \in {"open", "closed"} /\ g \in MayAge

SweepFind ==
    /\ sweep.pc = "idle"
    /\ \E ids \in SUBSET {g \in Groups : MayGo(g)} :
          /\ ids # {}
          /\ sweep' = [pc |-> "commits", ids |-> ids]
          /\ expired' = expired \cup ids
    /\ UNCHANGED <<groups, commits, intents, req>>

SweepCommits ==
    /\ sweep.pc = "commits"
    /\ commits' = {c \in commits : c.group \notin sweep.ids}
    /\ sweep' = [sweep EXCEPT !.pc = "intents"]
    /\ UNCHANGED <<groups, intents, req, expired>>

SweepIntents ==
    /\ sweep.pc = "intents"
    /\ intents' = [g \in Groups |-> IF g \in sweep.ids THEN {} ELSE intents[g]]
    /\ sweep' = [sweep EXCEPT !.pc = "groups"]
    /\ UNCHANGED <<groups, commits, req, expired>>

SweepGroups ==
    /\ sweep.pc = "groups"
    /\ groups' = [g \in Groups |-> IF g \in sweep.ids THEN [NoRow EXCEPT !.st = "gone"] ELSE groups[g]]
    /\ sweep' = [pc |-> "idle", ids |-> {}]
    /\ UNCHANGED <<commits, intents, req, expired>>

SweepCrash ==
    /\ sweep.pc # "idle"
    /\ sweep' = [pc |-> "idle", ids |-> {}]
    /\ UNCHANGED <<groups, commits, intents, req, expired>>
-----------------------------------------------------------------------------
Step(r) ==
    \/ ReadGroup(r) \/ NextCommit(r) \/ Repair(r) \/ Forget(r)
    \/ StartCommit(r) \/ InsertCommit(r) \/ ReadWinner(r) \/ Apply(r) \/ Consume(r) \/ Deliver(r)
    \/ StartJoin(r) \/ StoreIntent(r) \/ RestoreIntent(r) \/ ReadIntents(r) \/ CloseGroup(r)
    \/ StartCreate(r) \/ Supersede(r) \/ Claim(r) \/ Crash(r)

Next ==
    \/ \E r \in Requests : Step(r)
    \/ \E g \in Groups : CallEnds(g) \/ \E d \in Devices : IntentAges(g, d)
    \/ SweepFind \/ SweepCommits \/ SweepIntents \/ SweepGroups \/ SweepCrash

Spec == Init /\ [][Next]_vars
-----------------------------------------------------------------------------
GroupRow == [st : {"none", "open", "closed", "gone"}, epoch : Nat, members : SUBSET Devices]
CommitRow == [group : Groups, epoch : Nat, change : Changes]
Request == [pc : {"idle", "read", "next", "repair", "forget", "ahead", "insert", "winner", "apply",
                  "consume", "deliver", "store", "restore", "intents", "close", "supersede", "claim"},
            op : {"none", "commit", "join", "create"}, g : Groups \cup {Nil}, old : Groups \cup {Nil},
            dev : Devices \cup {Nil}, epoch : Nat, read : GroupRow, seen : SUBSET Devices,
            next : [add : SUBSET Devices, rem : SUBSET Devices],
            won : BOOLEAN, rejoin : BOOLEAN, checked : BOOLEAN, early : BOOLEAN]

\* Collections and requests keep their shapes; a group's epoch stays among the epochs
\* some commit was made for
TypeOK ==
    /\ groups \in [Groups -> GroupRow]
    /\ commits \subseteq CommitRow
    /\ intents \in [Groups -> SUBSET Devices]
    /\ req \in [Requests -> Request]
    /\ sweep.pc \in {"idle", "commits", "intents", "groups"} /\ sweep.ids \subseteq expired
    /\ expired \subseteq Groups
    /\ \A g \in Groups \ expired : groups[g].epoch <= MaxEpoch[g]

\* A group as it would be with its winning commit absorbed
Pending(g) == Row(g, groups[g].epoch + 1)
LogState == [g \in Groups |-> IF g \in expired THEN "expired" ELSE groups[g].st]
LogHead == [g \in Groups |-> IF g \in expired THEN 0 ELSE Head(g)]
RosterOf(g) == IF Pending(g) = {} THEN groups[g].members
               ELSE UNION {AfterChange(groups[g].members, c.change) : c \in Pending(g)}
LogRoster == [g \in Groups |-> IF g \in expired THEN {} ELSE RosterOf(g)]
LateOf(g) == groups[g].st = "closed" /\ Pending(g) # {}
LogLate == [g \in Groups |-> IF g \in expired THEN FALSE ELSE LateOf(g)]

Log == INSTANCE MlsEpochLog WITH
    state <- LogState, head <- LogHead, roster <- LogRoster, late <- LogLate

\* The rows, the repairs by readers and losers and the crashes between them amount to a
\* log of commits: one winner per epoch, made against the roster the winners before it
\* left, applied once; at most one more commit wins once the group is closed
ImplementsLog == Log!Spec

\* A client that has seen every commit before its own is never told "commit epoch must be
\* exactly current_epoch + 1": the group may lag behind what it has seen, the repaired read
\* does not
NeverAhead ==
    \A r \in Requests : req[r].pc = "ahead" => req[r].early \/ req[r].g \in expired

\* The request is about to send its commit to the roster the commit was made against
FanOutMatches(r) ==
    /\ req[r].pc = "deliver"
    /\ req[r].g \notin expired
    => req[r].seen = req[r].read.members

\* A winning commit of a client that was not early is sent to the roster it was made
\* against, though the route reads that roster in a call of its own before the one that
\* decides the epoch, while others commit, repair and die
FanOutComplete == \A r \in Requests : ~req[r].early => FanOutMatches(r)

\* What submit_call_commit says of every winning commit: its envelopes go to the roster
\* before it. False of an early one, whose roster was read before an earlier commit landed
FanOutPreCommit == \A r \in Requests : FanOutMatches(r)

\* Two devices of one user are in a group only if one commit added both: the check of an
\* added user is against the roster read before the insert, and other commits race it
OneDevicePerCommit ==
    \A g \in Groups \ expired : \A m, n \in groups[g].members :
        m # n /\ UserOf[m] = UserOf[n]
            => \E c \in commits : c.group = g /\ {m, n} \subseteq c.change.add
=============================================================================
