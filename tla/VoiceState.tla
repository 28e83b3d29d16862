----------------------------- MODULE VoiceState -----------------------------
(***************************************************************************)
(* The voice state of one user in the channels of one server: what         *)
(* voice-ingress writes to Redis for LiveKit's webhooks, while staff       *)
(* remove the user, readers repair the roster and the sweep clears what a  *)
(* lost webhook left behind.                                               *)
(*                                                                         *)
(* A connection is one LiveKit participant, known by its sid. Each Redis   *)
(* script or pipeline part and each call to the SFU is one action. LiveKit *)
(* is external: it connects and disconnects, sends a connection's leave    *)
(* after its join was answered or given up, resends what was answered 500, *)
(* and may lose any webhook.                                               *)
(***************************************************************************)
EXTENDS Naturals, FiniteSets

CONSTANTS
    Conns,      \* the connections of the user, each used once
    Channels,   \* voice channels of one server
    Room,       \* the channel of each connection
    Removable,  \* the channels staff may remove the user from
    MaxLost,    \* bound on the webhooks refused or given up
    Courses,    \* which of the circumstances below a behaviour has
    None

ASSUME RoomAssumption ==
    /\ Room \in [Conns -> Channels] /\ Conns \cap Channels = {}
    /\ Removable \subseteq Channels /\ MaxLost \in Nat
ASSUME NoneAssumption == None \notin Channels \cup Conns

VARIABLES
    course,     \* rigid: see Course
    sfu,        \* LiveKit's view of each connection
    conns,      \* vc_conns:{channel}, all channels together
    members,    \* the channels whose vc_members holds the user
    entries,    \* vc:{user}
    pointer,    \* {user}:{server}, the channel the per-server state is of
    joinedAt,   \* joined_at and the flags: the connection whose join wrote them
    proc,       \* the webhook handler of a connection, the removal from a channel
    janitor,    \* a roster reader or the sweep, and the channel it looks at
    shown,      \* what clients were last told of each channel
    lost        \* joins given up or refused, or removed for a cap with their
                \* siblings; leaves given up, and of those the ghosts: no
                \* other leave was handled since

redis == <<conns, members, entries, pointer, joinedAt>>
vars == <<course, sfu, redis, proc, janitor, shown, lost>>

Of(c) == {s \in Conns : Room[s] = c}
Live(c) == {s \in Of(c) : sfu[s] = "live"}
Recorded(c) == conns \cap Of(c)
ChannelOf(p) == IF p \in Channels THEN p ELSE Room[p]

Lost(kind, c) == lost \cap ({kind} \X Of(c))

Steps == {"idle", "recorded", "state", "keys", "roster", "cap", "drop", "in", "dropped",
          "confirm", "list", "stale", "leave", "out",
          "read", "holds", "evict", "teardown", "publish"}
Fresh(pc) == [pc |-> pc, rec |-> {}, held |-> FALSE, got |-> {}, owed |-> {}]
\* Circumstances: the connections that are made and the channels staff remove the user from; readers and
\* the sweep run; the user changes channels ahead of their webhooks; a pipeline is interleaved
Course == [uses: SUBSET (Conns \cup Removable), janitor: BOOLEAN, hurried: BOOLEAN, torn: BOOLEAN]
ASSUME CoursesAssumption == Courses \subseteq Course
Calm == ~course.janitor /\ ~course.hurried /\ ~course.torn

TypeOK ==
    /\ course \in Course
    /\ sfu \in [Conns -> {"new", "live", "gone"}]
    /\ conns \subseteq Conns
    /\ members \subseteq Channels /\ entries \subseteq Channels
    /\ pointer \in Channels \cup {None} /\ joinedAt \in Conns \cup {None}
    /\ proc \in [Conns \cup Removable ->
                   [pc: Steps, rec: SUBSET Conns, held: BOOLEAN, got: SUBSET Conns,
                    owed: SUBSET ({"ghost"} \X Conns)]]
    /\ janitor \in [pc: {"idle", "state", "repair", "ghost", "stray"}, c: Channels \cup {None}]
    /\ shown \in [Channels -> {"out", "in", "overtaken"}]
    /\ lost \subseteq {"joined", "capped", "left", "ghost"} \X Conns

Init ==
    /\ course \in Courses
    /\ sfu = [s \in Conns |-> "new"]
    /\ conns = {} /\ members = {} /\ entries = {}
    /\ pointer = None /\ joinedAt = None
    /\ proc = [p \in Conns \cup Removable |-> Fresh("idle")]
    /\ janitor = [pc |-> "idle", c |-> None]
    /\ shown = [c \in Channels |-> "out"]
    /\ lost = {}

At(p, pc) == proc[p].pc = pc
Goto(p, pc) == proc' = [proc EXCEPT ![p] = Fresh(pc)]
With(p, pc, rec) == proc' = [proc EXCEPT ![p].pc = pc, ![p].rec = rec]

(***************************************************************************)
(* The Redis scripts                                                       *)
(***************************************************************************)

\* Mutant: the keys of the server go whatever channel they are of
TeardownAll(c) ==
    members' = members \ {c} /\ entries' = entries \ {c} /\ pointer' = None /\ joinedAt' = None

\* The end of the teardown script: what is of the channel always goes, what
\* is of the server goes unless the pointer names another channel
Teardown(c) ==
    /\ members' = members \ {c}
    /\ entries' = entries \ {c}
    /\ IF pointer \in {None, c}
         THEN pointer' = None /\ joinedAt' = None
         ELSE UNCHANGED <<pointer, joinedAt>>

\* Another connection of the user stays recorded: nothing is torn down
Survives(c, sids) == Recorded(c) \ sids # {}

\* DELETE_VOICE_STATE in the modes connection and connections
DeleteConnections(c, sids) ==
    /\ conns' = conns \ sids
    /\ IF Survives(c, sids)
         THEN UNCHANGED <<members, entries, pointer, joinedAt>>
         ELSE Teardown(c)

\* DELETE_VOICE_STATE in the mode user
DeleteVoiceState(c) ==
    /\ conns' = conns \ Of(c)
    /\ Teardown(c)

\* VoiceChannelLeave, which may reach clients after a newer join
Leave(c) ==
    shown' = [shown EXCEPT ![c] = IF c \in members /\ @ # "out" THEN "overtaken" ELSE "out"]

(***************************************************************************)
(* LiveKit                                                                 *)
(***************************************************************************)

Joining(s) == proc[s].pc \in {"recorded", "state", "keys", "roster", "cap", "drop",
                              "read", "holds", "evict", "teardown"}
Leaving(s) == proc[s].pc \in {"confirm", "list", "stale", "leave"}

\* Nobody is ahead of their webhooks: the joins of the other channels are
\* answered and, coming back, the leaves of this one are handled
Unhurried(s) ==
    LET elsewhere == {t \in Conns \ Of(Room[s]) : sfu[t] = "gone"} IN
    /\ \A t \in elsewhere : proc[t].pc \in {"in", "dropped", "out"} \/ Leaving(t)
    /\ elsewhere # {} => \A t \in Of(Room[s]) : sfu[t] = "gone" => At(t, "out")

\* The user is in one channel at a time
Connect(s) ==
    /\ s \in course.uses /\ sfu[s] = "new"
    /\ \A t \in Conns \ Of(Room[s]) : sfu[t] # "live"
    /\ course.hurried \/ Unhurried(s)
    /\ sfu' = [sfu EXCEPT ![s] = "live"]
    /\ UNCHANGED <<course, redis, proc, janitor, shown, lost>>

Disconnect(s) ==
    /\ sfu[s] = "live"
    /\ sfu' = [sfu EXCEPT ![s] = "gone"]
    /\ UNCHANGED <<course, redis, proc, janitor, shown, lost>>

\* What LiveKit still has to send, first or again
JoinDue(s) == sfu[s] # "new" /\ At(s, "idle")
LeaveDue(s) == sfu[s] = "gone" /\ proc[s].pc \in {"in", "dropped"}

\* Any call fails, or the process dies: LiveKit sends the webhook again
Retry(s) ==
    /\ \/ Joining(s) /\ Goto(s, "idle")
       \/ Leaving(s) /\ Goto(s, "in")
    /\ UNCHANGED <<course, sfu, redis, janitor, shown, lost>>

MayLose == Cardinality({e \in lost : e[1] \in {"joined", "left"}}) < MaxLost

\* The retries ran out, or the event never left LiveKit's queue
LoseJoined(s) ==
    /\ JoinDue(s) \/ Joining(s)
    /\ MayLose
    /\ Goto(s, "dropped")
    /\ lost' = lost \cup {<<"joined", s>>}
    /\ UNCHANGED <<course, sfu, redis, janitor, shown>>

LoseLeft(s) ==
    /\ LeaveDue(s) \/ Leaving(s)
    /\ MayLose
    /\ Goto(s, "out")
    /\ lost' = lost \cup ({"left", "ghost"} \X {s})
    /\ UNCHANGED <<course, sfu, redis, janitor, shown>>

\* LiveKit closes an empty room once its other webhooks are through. The
\* handler names no user: entries and the state of the server stay
RoomFinished(c) ==
    /\ \A s \in Of(c) : sfu[s] = "new" \/ At(s, "out")
    /\ \E s \in Of(c) : At(s, "out")
    /\ members' = members \ {c}
    /\ conns' = conns \ Of(c)
    /\ UNCHANGED <<course, sfu, entries, pointer, joinedAt, proc, janitor, shown, lost>>

(***************************************************************************)
(* participant_joined                                                      *)
(***************************************************************************)

\* The Connect re-check, first: a refused connection is evicted and leaves
\* no trace
Refuse(s) ==
    /\ JoinDue(s)
    /\ sfu' = [sfu EXCEPT ![s] = "gone"]
    /\ Goto(s, "in")
    /\ lost' = lost \cup {<<"joined", s>>}
    /\ UNCHANGED <<course, redis, janitor, shown>>

\* record_voice_connection: is there a state in this channel already?
Record(s) ==
    /\ JoinDue(s)
    /\ conns' = conns \cup {s}
    /\ Goto(s, IF Room[s] \in members THEN "recorded" ELSE "keys")
    /\ UNCHANGED <<course, sfu, members, entries, pointer, joinedAt, janitor, shown, lost>>

ReadRecorded(s) ==
    /\ At(s, "recorded")
    /\ With(s, "state", Recorded(Room[s]))
    /\ UNCHANGED <<course, sfu, redis, janitor, shown, lost>>

\* Mutant: a state that is there already is always a sibling's
NeverRetried(s) == FALSE

\* retried_join: the state this very event wrote, or none and no sibling
RetriedJoin(s) == IF joinedAt # None THEN joinedAt = s ELSE proc[s].rec = {s}

\* A second connection is done here; a retry goes on with the state it finds
ReadState(s) ==
    /\ At(s, "state")
    /\ Goto(s, IF ~RetriedJoin(s) THEN "in" ELSE IF joinedAt = None THEN "keys" ELSE "cap")
    /\ UNCHANGED <<course, sfu, redis, janitor, shown, lost>>

AddToRoster(s) ==
    members' = members \cup {Room[s]} /\ entries' = entries \cup {Room[s]}

\* create_voice_state is a pipeline, not a transaction: first the keys of the
\* server, last the roster; in a torn one others run in between
CreateKeys(s) ==
    /\ At(s, "keys")
    /\ pointer' = Room[s] /\ joinedAt' = s
    /\ IF course.torn
         THEN Goto(s, "roster") /\ UNCHANGED <<members, entries>>
         ELSE Goto(s, "cap") /\ AddToRoster(s)
    /\ UNCHANGED <<course, sfu, conns, janitor, shown, lost>>

CreateRoster(s) ==
    /\ At(s, "roster")
    /\ AddToRoster(s)
    /\ Goto(s, "cap")
    /\ UNCHANGED <<course, sfu, conns, pointer, joinedAt, janitor, shown, lost>>

\* The caps, read again now that the join is recorded: one too many is evicted
OverCap(s) ==
    /\ At(s, "cap")
    /\ sfu' = [sfu EXCEPT ![s] = "gone"]
    /\ Goto(s, "drop")
    /\ UNCHANGED <<course, redis, janitor, shown, lost>>

\* With a sibling recorded, the whole user is removed
Drop(s) ==
    /\ At(s, "drop")
    /\ DeleteConnections(Room[s], {s})
    /\ IF Survives(Room[s], {s})
         THEN Goto(s, "read") /\ lost' = lost \cup {<<"capped", s>>}
         ELSE Goto(s, "in") /\ UNCHANGED lost
    /\ UNCHANGED <<course, sfu, janitor, shown>>

Announce(s) ==
    /\ At(s, "cap")
    /\ shown' = [shown EXCEPT ![Room[s]] = "in"]
    /\ Goto(s, "in")
    /\ UNCHANGED <<course, sfu, redis, janitor, lost>>

(***************************************************************************)
(* participant_left                                                        *)
(***************************************************************************)

DeleteConnection(s) ==
    /\ LeaveDue(s)
    /\ DeleteConnections(Room[s], {s})
    /\ proc' = [proc EXCEPT ![s].pc = IF Survives(Room[s], {s}) THEN "confirm" ELSE "leave",
                            ![s].owed = Lost("ghost", Room[s])]
    /\ UNCHANGED <<course, sfu, janitor, shown, lost>>

\* A survivor may be a stale record: the record is read before the SFU's list
Confirm(s) ==
    /\ At(s, "confirm")
    /\ With(s, "list", Recorded(Room[s]))
    /\ UNCHANGED <<course, sfu, redis, janitor, shown, lost>>

\* The leave is handled, and with it the leaves that were lost before it
Left(s) == Goto(s, "out") /\ lost' = lost \ proc[s].owed

\* Mutant: the surviving record is trusted
ListTrusting(s) ==
    At(s, "list") /\ Left(s) /\ UNCHANGED <<course, sfu, redis, janitor, shown>>

\* stale_connections; with none the flags are recomputed and all is said
List(s) ==
    LET stale == proc[s].rec \ Live(Room[s]) IN
    /\ At(s, "list")
    /\ IF stale = {} THEN Left(s) ELSE With(s, "stale", stale) /\ UNCHANGED lost
    /\ UNCHANGED <<course, sfu, redis, janitor, shown>>

DeleteStale(s) ==
    LET stale == proc[s].rec IN
    /\ At(s, "stale")
    /\ DeleteConnections(Room[s], stale)
    /\ IF Survives(Room[s], stale) THEN Left(s) ELSE With(s, "leave", {}) /\ UNCHANGED lost
    /\ UNCHANGED <<course, sfu, janitor, shown>>

AnnounceLeave(s) ==
    /\ At(s, "leave")
    /\ Leave(Room[s])
    /\ Left(s)
    /\ UNCHANGED <<course, sfu, redis, janitor>>

(***************************************************************************)
(* remove_user_from_voice_channel: by staff, or for a cap                  *)
(***************************************************************************)

\* The record before the SFU's list
RemoveRead(p) ==
    /\ IF p \in Channels THEN At(p, "idle") /\ p \in course.uses ELSE At(p, "read")
    /\ With(p, "holds", Recorded(ChannelOf(p)))
    /\ UNCHANGED <<course, sfu, redis, janitor, shown, lost>>

\* holds_voice_state_in
RemoveHolds(p) ==
    LET c == ChannelOf(p) IN
    /\ At(p, "holds")
    /\ proc' = [proc EXCEPT ![p].pc = "evict",
                            ![p].held = @ \/ proc[p].rec # {} \/ c \in members \/ c \in entries
                                          \/ pointer = c]
    /\ UNCHANGED <<course, sfu, redis, janitor, shown, lost>>

\* A webhook's removal returns to its handler
RemoveDone(p) == IF p \in Channels THEN "idle" ELSE "in"

\* One listing, everything listed evicted; nothing of the user here ends it
RemoveEvict(p) ==
    LET listed == Live(ChannelOf(p)) IN
    /\ At(p, "evict")
    /\ sfu' = [s \in Conns |-> IF s \in listed THEN "gone" ELSE sfu[s]]
    /\ IF ~proc[p].held /\ listed = {}
         THEN Goto(p, RemoveDone(p))
         ELSE proc' = [proc EXCEPT ![p].pc = "teardown", ![p].got = listed]
    /\ UNCHANGED <<course, redis, janitor, shown, lost>>

\* Some removal failed, or a read: nothing is torn down
RemoveFails(c) ==
    /\ proc[c].pc \in {"holds", "evict", "teardown"}
    /\ \E kept \in IF At(c, "evict") THEN SUBSET Live(c) ELSE {Live(c)} :
          sfu' = [s \in Conns |-> IF s \in Live(c) \ kept THEN "gone" ELSE sfu[s]]
    /\ Goto(c, "idle")
    /\ UNCHANGED <<course, redis, janitor, shown, lost>>

\* The evicted and the recorded, never the whole user. The leave of what was
\* evicted is announced by its own webhook
RemoveTeardown(p) ==
    LET c == ChannelOf(p)
        sids == proc[p].got \cup proc[p].rec IN
    /\ At(p, "teardown")
    /\ DeleteConnections(c, sids)
    /\ Goto(p, IF proc[p].got = {} /\ ~Survives(c, sids) THEN "publish" ELSE RemoveDone(p))
    /\ UNCHANGED <<course, sfu, janitor, shown, lost>>

RemovePublish(p) ==
    /\ At(p, "publish")
    /\ Leave(ChannelOf(p))
    /\ Goto(p, RemoveDone(p))
    /\ UNCHANGED <<course, sfu, redis, janitor, lost>>

(***************************************************************************)
(* A reader of the roster, and the reconciliation sweep                    *)
(***************************************************************************)

Janitor(pc, c) == janitor' = [pc |-> pc, c |-> c]

\* get_channel_voice_state: the roster, then each state
RepairRoster(c) ==
    /\ course.janitor /\ janitor.pc = "idle"
    /\ c \in members
    /\ Janitor("state", c)
    /\ UNCHANGED <<course, sfu, redis, proc, shown, lost>>

RepairState ==
    /\ janitor.pc = "state"
    /\ IF joinedAt = None THEN Janitor("repair", janitor.c) ELSE Janitor("idle", None)
    /\ UNCHANGED <<course, sfu, redis, proc, shown, lost>>

RepairDelete ==
    /\ janitor.pc = "repair"
    /\ DeleteVoiceState(janitor.c)
    /\ Janitor("idle", None)
    /\ UNCHANGED <<course, sfu, proc, shown, lost>>

\* still_ghost: the room has no node any more
SweepGhost(c) ==
    /\ course.janitor /\ janitor.pc = "idle"
    /\ c \in members \cup entries
    /\ Live(c) = {}
    /\ Janitor("ghost", c)
    /\ UNCHANGED <<course, sfu, redis, proc, shown, lost>>

\* reconcile_channel for a roster, the silent step for an entry alone
SweepDelete ==
    LET c == janitor.c IN
    /\ janitor.pc = "ghost"
    /\ DeleteVoiceState(c)
    /\ shown' = IF c \in members THEN [shown EXCEPT ![c] = "out"] ELSE shown
    /\ Janitor("idle", None)
    /\ UNCHANGED <<course, sfu, proc, lost>>

\* A joined_at was seen and the user has no entry in the server: its keys go
SweepStray ==
    /\ course.janitor /\ janitor.pc = "idle"
    /\ joinedAt # None /\ entries = {}
    /\ Janitor("stray", None)
    /\ UNCHANGED <<course, sfu, redis, proc, shown, lost>>

SweepStrayDelete ==
    /\ janitor.pc = "stray"
    /\ pointer' = None /\ joinedAt' = None
    /\ Janitor("idle", None)
    /\ UNCHANGED <<course, sfu, conns, members, entries, proc, shown, lost>>

(***************************************************************************)
(* The specification                                                       *)
(***************************************************************************)
Joined(s) ==
    \/ Refuse(s) \/ Record(s) \/ ReadRecorded(s) \/ ReadState(s)
    \/ CreateKeys(s) \/ CreateRoster(s) \/ OverCap(s) \/ Drop(s) \/ Announce(s)
LeftHook(s) ==
    DeleteConnection(s) \/ Confirm(s) \/ List(s) \/ DeleteStale(s) \/ AnnounceLeave(s)
Removal(p) ==
    RemoveRead(p) \/ RemoveHolds(p) \/ RemoveEvict(p) \/ RemoveTeardown(p) \/ RemovePublish(p)
JanitorNext ==
    RepairState \/ RepairDelete \/ SweepDelete \/ SweepStray \/ SweepStrayDelete

Next ==
    \/ \E s \in Conns :
          \/ Connect(s) \/ Disconnect(s) \/ Retry(s) \/ LoseJoined(s) \/ LoseLeft(s)
          \/ Joined(s) \/ LeftHook(s) \/ Removal(s)
    \/ \E c \in Removable : RemoveFails(c) \/ Removal(c)
    \/ \E c \in Channels : RoomFinished(c) \/ RepairRoster(c) \/ SweepGhost(c)
    \/ JanitorNext

Spec == Init /\ [][Next]_vars

(***************************************************************************)
(* Properties                                                              *)
(***************************************************************************)

\* Every webhook that was not lost has been handled, nothing is running
AtRest ==
    /\ \A s \in Conns : proc[s].pc \in {"in", "dropped", "out"} \/ sfu[s] = "new"
    /\ \A s \in Conns : sfu[s] = "gone" => At(s, "out")
    /\ \A c \in Removable : At(c, "idle")
    /\ janitor.pc = "idle"

\* A connection in the call whose join was answered
InCall(s) == sfu[s] = "live" /\ At(s, "in")

(***************************************************************************)
(* At rest a user who is connected is seen: recorded, on the roster, with  *)
(* the readable state of this channel. No late leave of another channel,   *)
(* no leave or removal of a sibling connection takes that away.            *)
(***************************************************************************)
ConnectedIsSeen ==
    AtRest /\ Calm =>
        \A s \in Conns : InCall(s) =>
            /\ s \in conns
            /\ Room[s] \in members \cap entries
            /\ \/ pointer = Room[s] /\ joinedAt # None
               \/ \E c \in Channels : Lost("left", c) # {}

(***************************************************************************)
(* At rest nobody is on a roster without a connection in the call, unless  *)
(* the leave that would have told was lost and none was handled since; and *)
(* no client shows them there unless a leave was lost.                     *)
(***************************************************************************)
NoGhost ==
    AtRest => \A c \in Channels : Live(c) = {} =>
        /\ c \in members => Lost("ghost", c) # {}
        /\ shown[c] = "in" => Lost("left", c) # {}

(***************************************************************************)
(* At rest a user who is connected was announced, however often the join   *)
(* was retried, unless a join webhook was given up for good, a Leave       *)
(* overtook the join, or the join that wrote the state was over a cap: its *)
(* removal of the siblings misses one that came after the listing.         *)
(***************************************************************************)
ConnectedIsShown ==
    AtRest /\ Calm =>
        \A s \in Conns : InCall(s) =>
            \/ shown[Room[s]] # "out"
            \/ Lost("joined", Room[s]) \cup Lost("capped", Room[s]) # {}
=============================================================================
