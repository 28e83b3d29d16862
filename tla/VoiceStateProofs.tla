-------------------------- MODULE VoiceStateProofs --------------------------
(***************************************************************************)
(* Proofs about VoiceState for any connections, channels, removals, losses *)
(* and courses: its types, and the three properties at rest. Each rests on *)
(* who still has to act: a roster entry without a connection in the call   *)
(* has somebody whose leave will find it, and so on.                       *)
(***************************************************************************)
EXTENDS VoiceState, TLAPS

Procs == Conns \cup Removable

\* The join was answered or given up
Answered(s) == proc[s].pc \in {"in", "dropped", "out"} \/ Leaving(s)

\* The join is still to be handled, or being handled
Joins(s) == sfu[s] # "new" /\ ~Answered(s)

\* The delete of its leave is still to come
Owing(s) == sfu[s] # "new" /\ ~Leaving(s) /\ ~At(s, "out")

SomeLeftLost == \E t \in Conns : <<"left", t>> \in lost

\* What LiveKit tells and what the handlers know of it go together
ConnAt(s) ==
    /\ sfu[s] = "new" => At(s, "idle") /\ s \notin conns
    /\ Leaving(s) \/ At(s, "out") => sfu[s] = "gone"
    /\ proc[s].pc \in {"drop", "read", "holds", "evict", "teardown", "publish"} => sfu[s] = "gone"

\* A record that was read, and later what is to be deleted, is of connections of the channel
\* that were made, and later of ones that are gone
ReadAt(p) ==
    /\ At(p, "teardown") \/ proc[p].got = {}
    /\ \A s \in proc[p].rec \cup proc[p].got :
          /\ s \in Of(ChannelOf(p)) /\ sfu[s] # "new"
          /\ proc[p].pc \in {"stale", "teardown"} => sfu[s] = "gone"

ConnInv == (\A s \in Conns : ConnAt(s)) /\ (\A p \in Procs : ReadAt(p))

\* The keys of the server are written and deleted together
KeysInv ==
    /\ joinedAt = None => pointer = None
    /\ joinedAt # None => pointer = Room[joinedAt] /\ sfu[joinedAt] # "new"

\* A record outlives its connection's leave only if that was given up; ghosts are of leaves
\* given up, and so is what a leave will clear
LostInv ==
    /\ \A s \in conns : Owing(s) \/ <<"left", s>> \in lost
    /\ \A s \in Conns : <<"ghost", s>> \in lost => <<"left", s>> \in lost /\ At(s, "out")
    /\ \A p \in Procs : \A s \in Conns : <<"ghost", s>> \in proc[p].owed => At(s, "out")

\* A leave that will find every record of the channel
Cleans(s) ==
    \/ At(s, "confirm")
    \/ proc[s].pc \in {"list", "stale"} /\ Recorded(Room[s]) \subseteq proc[s].rec

\* A leave that was lost, and none that is running will clear it
Haunted(c) ==
    \E s \in Of(c) : <<"ghost", s>> \in lost
                     /\ \A p \in Conns : <<"ghost", s>> \notin proc[p].owed

\* Somebody takes the user off the roster: a leave to come or one that is running, which finds a
\* record to delete; unless a leave was lost that no running one answers for
Attended(c) ==
    \/ Haunted(c)
    \/ \E s \in Of(c) : Owing(s)
    \/ Recorded(c) # {} /\ \E s \in Of(c) : Cleans(s)

RosterInv == \A c \in members : c \in entries /\ Attended(c)

\* Who is shown will be announced to have left
ShownInv ==
    \A c \in Channels : shown[c] = "in" =>
        \E s \in Of(c) : Owing(s) \/ At(s, "leave") \/ <<"left", s>> \in lost

-----------------------------------------------------------------------------
(* Without readers, sweeps and torn pipelines *)

\* Whoever is in the call is recorded once the join has recorded it, and on the roster once the
\* join has found or put it there
SeatAt(s) ==
    /\ ~At(s, "roster")
    /\ sfu[s] = "live" /\ proc[s].pc \in {"recorded", "state", "keys", "cap", "in"} => s \in conns
    /\ sfu[s] = "live" /\ proc[s].pc \in {"recorded", "state", "cap", "in"} => Room[s] \in members

SeatInv ==
    ~course.janitor /\ ~course.torn => janitor.pc = "idle" /\ \A s \in Conns : SeatAt(s)

\* Nobody is ahead of the webhooks: joins under way are of one channel, and those of the other
\* channels are answered while somebody is in the call
OneRoomInv ==
    ~course.hurried =>
        \A s, t \in Conns : Room[s] # Room[t] =>
            /\ ~(Joins(s) /\ Joins(t))
            /\ sfu[s] = "live" => sfu[t] = "new" \/ (sfu[t] = "gone" /\ Answered(t))

\* The keys of the server are of the channel the user is in
PointerInv ==
    Calm => SomeLeftLost \/
        \A c \in members :
            /\ pointer = c \/ \E t \in Conns \ Of(c) : sfu[t] # "new"
            /\ Live(c) # {} => pointer = c

\* Who is on a roster was announced or is about to be
AnnouncedInv ==
    Calm => \A c \in members : shown[c] = "out" =>
        \/ Lost("joined", c) \cup Lost("capped", c) # {}
        \/ /\ joinedAt \in Of(c)
           /\ proc[joinedAt].pc \in {"idle", "recorded", "state", "cap", "drop"}

Inv ==
    /\ TypeOK /\ ConnInv /\ KeysInv /\ LostInv /\ RosterInv /\ ShownInv
    /\ SeatInv /\ OneRoomInv /\ PointerInv /\ AnnouncedInv
-----------------------------------------------------------------------------
(* What a step does to the processes, element by element *)

Proc == [pc: Steps, rec: SUBSET Conns, held: BOOLEAN, got: SUBSET Conns,
         owed: SUBSET ({"ghost"} \X Conns)]

LEMMA ProcType == TypeOK => proc \in [Procs -> Proc]
BY DEF TypeOK, Procs, Proc

Moved(p, pc) ==
    proc'[p].pc = pc /\ proc'[p].rec = {} /\ proc'[p].got = {} /\ proc'[p].owed = {}

LEMMA GotoMoves ==
    ASSUME TypeOK, NEW p \in Procs, NEW pc \in Steps, Goto(p, pc)
    PROVE  /\ proc' \in [Procs -> Proc]
           /\ Moved(p, pc)
           /\ \A q \in Procs : q # p => proc'[q] = proc[q]
<1>1. Fresh(pc) \in Proc
  BY DEF Fresh, Proc
<1>2. /\ proc' \in [Procs -> Proc] /\ proc'[p] = Fresh(pc)
      /\ \A q \in Procs : q # p => proc'[q] = proc[q]
  BY <1>1, ProcType DEF Goto
<1> QED
  BY <1>2 DEF Moved, Fresh

LEMMA WithMoves ==
    ASSUME TypeOK, NEW p \in Procs, NEW pc \in Steps, NEW rec \in SUBSET Conns, With(p, pc, rec)
    PROVE  /\ proc' \in [Procs -> Proc]
           /\ proc'[p].pc = pc /\ proc'[p].rec = rec
           /\ proc'[p].got = proc[p].got /\ proc'[p].owed = proc[p].owed
           /\ \A q \in Procs : q # p => proc'[q] = proc[q]
<1>1. proc \in [Procs -> Proc]
  BY ProcType
<1>2. proc' = [proc EXCEPT ![p] = [proc[p] EXCEPT !.pc = pc, !.rec = rec]]
  BY <1>1 DEF With
<1>3. [proc[p] EXCEPT !.pc = pc, !.rec = rec] \in Proc
  BY <1>1 DEF Proc
<1>4. /\ proc'[p] = [proc[p] EXCEPT !.pc = pc, !.rec = rec]
      /\ \A q \in Procs : q # p => proc'[q] = proc[q]
      /\ proc' \in [Procs -> Proc]
  BY <1>1, <1>2, <1>3
<1> QED
  BY <1>1, <1>4 DEF Proc

-----------------------------------------------------------------------------
(* What most steps have in common *)

\* No connection is made, no leave is under way or lost, nothing lost is cleared
Ordinary ==
    /\ UNCHANGED course
    /\ \A x \in Conns : /\ sfu[x] = "new" <=> sfu'[x] = "new"
                        /\ sfu[x] = "gone" => sfu'[x] = "gone"
    /\ \A x \in Conns : Owing(x) => Owing(x)'
    /\ \A x \in Conns : Answered(x) => Answered(x)'
    /\ \A x \in Conns : At(x, "out") => At(x, "out")'
    /\ \A x \in Conns : proc'[x] = proc[x] \/ Owing(x)'
    /\ \A p \in Procs : proc'[p].owed \subseteq proc[p].owed
    /\ \A x \in Conns : /\ <<"left", x>> \in lost' <=> <<"left", x>> \in lost
                        /\ <<"ghost", x>> \in lost' <=> <<"ghost", x>> \in lost

LEMMA OrdinaryMove ==
    ASSUME TypeOK, ConnInv, UNCHANGED course, NEW s \in Procs,
           \A q \in Procs : q # s => proc'[q] = proc[q],
           proc'[s].owed \subseteq proc[s].owed,
           s \in Conns => Owing(s)' /\ (Answered(s) => Answered(s)') /\ ~At(s, "out"),
           \A x \in Conns : /\ sfu[x] = "new" <=> sfu'[x] = "new"
                            /\ sfu[x] = "gone" => sfu'[x] = "gone",
           \A x \in Conns : /\ <<"left", x>> \in lost' <=> <<"left", x>> \in lost
                            /\ <<"ghost", x>> \in lost' <=> <<"ghost", x>> \in lost
    PROVE  Ordinary
<1>1. ASSUME NEW x \in Conns
      PROVE  /\ Owing(x) => Owing(x)'
             /\ Answered(x) => Answered(x)'
             /\ At(x, "out") => At(x, "out")'
             /\ proc'[x] = proc[x] \/ Owing(x)'
  <2>1. CASE x = s
    BY <2>1
  <2>2. CASE x # s
    BY <2>2 DEF Owing, Answered, Leaving, At, Procs
  <2> QED
    BY <2>1, <2>2
<1> QED
  BY <1>1 DEF Ordinary

LEMMA LostSome == ASSUME NEW kind, NEW c, \A y \in Of(c) : <<kind, y>> \notin lost PROVE Lost(kind, c) = {}
BY DEF Lost

LEMMA OrdinaryLost ==
    ASSUME TypeOK, TypeOK', LostInv, ConnInv, Ordinary, \A x \in conns' : x \in conns \/ Owing(x)'
    PROVE  LostInv'
<1>1. ASSUME NEW x \in conns' PROVE Owing(x)' \/ <<"left", x>> \in lost'
  <2>1. x \in Conns
    BY DEF TypeOK
  <2> QED
    BY <1>1, <2>1 DEF LostInv, Ordinary
<1>2. \A x \in Conns : At(x, "out") => At(x, "out")'
  BY DEF Ordinary
<1>3. ASSUME NEW x \in Conns, <<"ghost", x>> \in lost' PROVE <<"left", x>> \in lost' /\ At(x, "out")'
  BY <1>2, <1>3 DEF LostInv, Ordinary
<1>4. ASSUME NEW p \in Procs, NEW x \in Conns, <<"ghost", x>> \in proc'[p].owed PROVE At(x, "out")'
  BY <1>2, <1>4 DEF LostInv, Ordinary
<1> QED
  BY <1>1, <1>3, <1>4 DEF LostInv

LEMMA OneRoomFrame ==
    ASSUME TypeOK, TypeOK', OneRoomInv, UNCHANGED course,
           \A x \in Conns : /\ sfu[x] = "new" <=> sfu'[x] = "new"
                            /\ sfu[x] = "gone" => sfu'[x] = "gone",
           \A x \in Conns : Answered(x) => Answered(x)'
    PROVE  OneRoomInv'
<1>1. \A x \in Conns : Joins(x)' => Joins(x)
  BY DEF Joins
<1>2. \A x \in Conns : sfu'[x] = "live" => sfu[x] = "live"
  BY DEF TypeOK
<1> QED
  BY <1>1, <1>2 DEF OneRoomInv

LEMMA OrdinaryOneRoom ==
    ASSUME TypeOK, TypeOK', OneRoomInv, Ordinary
    PROVE  OneRoomInv'
BY OneRoomFrame DEF Ordinary

\* Who is shown is so as before, or has a leave to come
LEMMA OrdinaryShown ==
    ASSUME TypeOK, TypeOK', ShownInv, Ordinary,
           \A c \in Channels : shown'[c] = "in" => shown[c] = "in" \/ \E y \in Of(c) : Owing(y)'
    PROVE  ShownInv'
<1> SUFFICES ASSUME NEW c \in Channels, shown'[c] = "in", ~ \E y \in Of(c) : Owing(y)'
             PROVE  \E s \in Of(c) : At(s, "leave")' \/ <<"left", s>> \in lost'
  BY DEF ShownInv, Of
<1>1. PICK s \in Of(c) : Owing(s) \/ At(s, "leave") \/ <<"left", s>> \in lost
  BY DEF ShownInv
<1>2. s \in Conns /\ ~Owing(s)'
  BY DEF Of
<1> QED
  BY <1>1, <1>2 DEF Ordinary, At

\* A roster keeps who will take the user off it, if no last record goes
LEMMA OrdinaryRoster ==
    ASSUME TypeOK, TypeOK', RosterInv, Ordinary,
           \A c \in members' :
               /\ c \in entries'
               /\ \/ \E y \in Of(c) : Owing(y)'
                  \/ /\ c \in members
                     /\ Recorded(c)' \subseteq Recorded(c)
                     /\ Recorded(c) # {} => Recorded(c)' # {}
    PROVE  RosterInv'
<1> SUFFICES ASSUME NEW c \in members', ~ \E y \in Of(c) : Owing(y)'
             PROVE  Haunted(c)' \/ (Recorded(c)' # {} /\ \E s \in Of(c) : Cleans(s)')
  BY DEF RosterInv, Attended, Of
<1>1. c \in members /\ \A y \in Of(c) : ~Owing(y) /\ proc'[y] = proc[y]
  BY DEF Of, Ordinary
<1>2. CASE Haunted(c)
  <2>1. PICK s \in Of(c) : <<"ghost", s>> \in lost /\ \A p \in Conns : <<"ghost", s>> \notin proc[p].owed
    BY <1>2 DEF Haunted
  <2>2. <<"ghost", s>> \in lost' /\ \A p \in Conns : <<"ghost", s>> \notin proc'[p].owed
    BY <2>1 DEF Of, Ordinary, Procs
  <2> QED
    BY <2>2 DEF Haunted, Of
<1>3. CASE ~Haunted(c)
  <2>1. PICK s \in Of(c) : Recorded(c) # {} /\ Cleans(s)
    BY <1>1, <1>3 DEF RosterInv, Attended
  <2>2. Recorded(c)' # {} /\ Recorded(c)' \subseteq Recorded(c)
    BY <2>1
  <2>3. Cleans(s)'
    BY <1>1, <2>1, <2>2 DEF Cleans, At, Of, Recorded
  <2> QED
    BY <2>2, <2>3
<1> QED
  BY <1>2, <1>3

\* The four together, for a step that changes no record and tells no client
LEMMA OrdinaryStep ==
    ASSUME Inv, TypeOK', Ordinary, UNCHANGED <<conns, shown>>,
           \A c \in members' : c \in entries' /\ (c \in members \/ \E y \in Of(c) : Owing(y)')
    PROVE  LostInv' /\ OneRoomInv' /\ ShownInv' /\ RosterInv'
<1> USE DEF Inv
<1>1. LostInv' /\ OneRoomInv' /\ ShownInv'
  BY OrdinaryLost, OrdinaryOneRoom, OrdinaryShown
<1>2. \A c \in members' : Recorded(c)' = Recorded(c)
  BY DEF Recorded
<1> QED
  BY <1>1, <1>2, OrdinaryRoster

\* One process moves; connections only leave; a record is of a connection that was made
LEMMA ConnFrame ==
    ASSUME TypeOK, TypeOK', ConnInv, NEW s \in Procs,
           \A q \in Procs : q # s => proc'[q] = proc[q],
           \A x \in Conns : /\ sfu[x] # "new" => sfu'[x] # "new"
                            /\ sfu[x] = "gone" => sfu'[x] = "gone",
           \A x \in conns' : sfu'[x] # "new",
           s \in Conns => ConnAt(s)',
           ReadAt(s)'
    PROVE  ConnInv'
<1>1. ASSUME NEW x \in Conns, x # s PROVE ConnAt(x)'
  <2>1. proc'[x] = proc[x]
    BY <1>1 DEF Procs
  <2> QED
    BY <2>1 DEF ConnInv, ConnAt, At, Leaving, TypeOK
<1>2. ASSUME NEW p \in Procs, p # s PROVE ReadAt(p)'
  <2>1. proc'[p] = proc[p] /\ ReadAt(p)
    BY <1>2 DEF ConnInv
  <2>2. \A x \in proc[p].rec \cup proc[p].got : x \in Conns
    BY <2>1 DEF ReadAt, Of
  <2> QED
    BY <2>1, <2>2 DEF ReadAt, At
<1> QED
  BY <1>1, <1>2 DEF ConnInv

LEMMA KeysFrame ==
    ASSUME TypeOK, KeysInv, \A x \in Conns : sfu[x] # "new" => sfu'[x] # "new",
           UNCHANGED <<pointer, joinedAt>> \/ (pointer' = None /\ joinedAt' = None)
    PROVE  KeysInv'
BY DEF TypeOK, KeysInv

\* One process moves; no record and no roster of a connection in the call goes
LEMMA SeatFrame ==
    ASSUME TypeOK, TypeOK', SeatInv, UNCHANGED course,
           ~course.janitor /\ ~course.torn /\ janitor.pc = "idle" => janitor'.pc = "idle",
           NEW s \in Procs,
           \A q \in Procs : q # s => proc'[q] = proc[q],
           \A x \in Conns : x # s /\ sfu'[x] = "live" =>
               /\ sfu[x] = "live"
               /\ x \in conns => x \in conns'
               /\ x \in conns /\ Room[x] \in members => Room[x] \in members',
           s \in Conns /\ ~course.janitor /\ ~course.torn => SeatAt(s)'
    PROVE  SeatInv'
<1> SUFFICES ASSUME ~course.janitor, ~course.torn, NEW x \in Conns, x # s PROVE SeatAt(x)'
  BY DEF SeatInv
<1>1. proc'[x] = proc[x] /\ SeatAt(x)
  BY DEF Procs, SeatInv
<1> QED
  BY <1>1 DEF SeatAt, At

LEMMA PointerFrame ==
    ASSUME TypeOK, TypeOK', PointerInv, UNCHANGED course,
           \A c \in members' : c \in members /\ (pointer = c => pointer' = c),
           \A x \in Conns : /\ sfu[x] # "new" => sfu'[x] # "new"
                            /\ sfu'[x] = "live" => sfu[x] = "live",
           \A x \in Conns : <<"left", x>> \in lost => <<"left", x>> \in lost'
    PROVE  PointerInv'
<1> SUFFICES ASSUME Calm', ~SomeLeftLost', NEW c \in members'
             PROVE  /\ pointer' = c \/ \E t \in Conns \ Of(c) : sfu'[t] # "new"
                    /\ Live(c)' # {} => pointer' = c
  BY DEF PointerInv, Of
<1>1. Calm /\ ~SomeLeftLost /\ c \in members
  BY DEF Calm, SomeLeftLost
<1>2. /\ pointer = c \/ \E t \in Conns \ Of(c) : sfu[t] # "new"
      /\ Live(c) # {} => pointer = c
  BY <1>1 DEF PointerInv
<1>3. Live(c)' # {} => Live(c) # {}
  BY DEF Live, Of
<1> QED
  BY <1>2, <1>3 DEF Of

\* The one to announce the user still will, or a join is lost, or there is nobody to announce
Announces == {"idle", "recorded", "state", "cap", "drop"}

LEMMA AnnouncedFrame ==
    ASSUME TypeOK, TypeOK', AnnouncedInv, UNCHANGED course,
           \A c \in members' : shown'[c] = "out" =>
               \/ c \in members /\ shown[c] = "out"
               \/ joinedAt' \in Of(c) /\ proc'[joinedAt'].pc \in Announces,
           \A x \in Conns : /\ <<"joined", x>> \in lost => <<"joined", x>> \in lost'
                            /\ <<"capped", x>> \in lost => <<"capped", x>> \in lost',
           \A x \in Conns :
               /\ Calm /\ joinedAt = x /\ proc[x].pc \in Announces
               /\ Room[x] \in members' /\ shown'[Room[x]] = "out"
               => \/ joinedAt' = x /\ proc'[x].pc \in Announces
                  \/ \E y \in Of(Room[x]) : <<"joined", y>> \in lost' \/ <<"capped", y>> \in lost'
                  \/ joinedAt' \in Of(Room[x]) /\ proc'[joinedAt'].pc \in Announces
    PROVE  AnnouncedInv'
<1> SUFFICES ASSUME Calm, NEW c \in members', shown'[c] = "out",
                    \A y \in Of(c) : <<"joined", y>> \notin lost' /\ <<"capped", y>> \notin lost'
             PROVE  joinedAt' \in Of(c) /\ proc'[joinedAt'].pc \in Announces
  BY DEF AnnouncedInv, Calm, Lost, Announces, Of
<1>1. \A y \in Of(c) : <<"joined", y>> \notin lost /\ <<"capped", y>> \notin lost
  BY DEF Of
<1>2. Lost("joined", c) \cup Lost("capped", c) = {}
  BY <1>1, LostSome
<1>3. SUFFICES ASSUME c \in members, shown[c] = "out"
               PROVE  joinedAt' \in Of(c) /\ proc'[joinedAt'].pc \in Announces
  OBVIOUS
<1>4. joinedAt \in Of(c) /\ proc[joinedAt].pc \in Announces
  BY <1>2, <1>3 DEF AnnouncedInv, Announces
<1>5. joinedAt \in Conns /\ Room[joinedAt] = c
  BY <1>4 DEF Of
<1> QED
  BY <1>4, <1>5 DEF Of

LEMMA AnnouncedMove ==
    ASSUME TypeOK, TypeOK', AnnouncedInv, UNCHANGED course, NEW s \in Procs,
           \A q \in Procs : q # s => proc'[q] = proc[q],
           \A c \in members' : shown'[c] = "out" => c \in members /\ shown[c] = "out",
           \A x \in Conns : /\ <<"joined", x>> \in lost => <<"joined", x>> \in lost'
                            /\ <<"capped", x>> \in lost => <<"capped", x>> \in lost',
           \A x \in Conns : joinedAt = x /\ Room[x] \in members' => joinedAt' = x,
           /\ Calm /\ s \in Conns /\ joinedAt = s /\ proc[s].pc \in Announces
           /\ Room[s] \in members' /\ shown'[Room[s]] = "out"
           => \/ proc'[s].pc \in Announces
              \/ <<"joined", s>> \in lost' \/ <<"capped", s>> \in lost'
    PROVE  AnnouncedInv'
<1>1. ASSUME NEW x \in Conns, Calm, joinedAt = x, proc[x].pc \in Announces,
             Room[x] \in members', shown'[Room[x]] = "out"
      PROVE  \/ joinedAt' = x /\ proc'[x].pc \in Announces
             \/ \E y \in Of(Room[x]) : <<"joined", y>> \in lost' \/ <<"capped", y>> \in lost'
  <2>1. CASE x = s
    BY <1>1, <2>1 DEF Of
  <2>2. CASE x # s
    BY <1>1, <2>2 DEF Procs
  <2> QED
    BY <2>1, <2>2
<1> QED
  BY <1>1, AnnouncedFrame

LEMMA RetryEffect ==
    ASSUME TypeOK, NEW s \in Conns, Retry(s)
    PROVE  /\ proc' \in [Procs -> Proc]
           /\ \A q \in Procs : q # s => proc'[q] = proc[q]
           /\ \/ Joining(s) /\ Moved(s, "idle")
              \/ Leaving(s) /\ Moved(s, "in")
           /\ UNCHANGED <<course, sfu, conns, members, entries, pointer, joinedAt, janitor, shown, lost>>
<1>1. s \in Procs /\ "idle" \in Steps /\ "in" \in Steps
  BY DEF Procs, Steps
<1>2. UNCHANGED <<course, sfu, conns, members, entries, pointer, joinedAt, janitor, shown, lost>>
  BY DEF Retry, redis
<1>3. CASE Joining(s) /\ Goto(s, "idle")
  BY <1>1, <1>2, <1>3, GotoMoves
<1>4. CASE Leaving(s) /\ Goto(s, "in")
  BY <1>1, <1>2, <1>4, GotoMoves
<1> QED
  BY <1>3, <1>4 DEF Retry

LEMMA LoseLeftEffect ==
    ASSUME TypeOK, NEW s \in Conns, LoseLeft(s)
    PROVE  /\ sfu[s] = "gone" \/ Leaving(s)
           /\ proc[s].pc \in {"in", "dropped"} \/ Leaving(s)
           /\ proc' \in [Procs -> Proc]
           /\ \A q \in Procs : q # s => proc'[q] = proc[q]
           /\ Moved(s, "out")
           /\ lost' = lost \cup {<<"left", s>>, <<"ghost", s>>}
           /\ UNCHANGED <<course, sfu, conns, members, entries, pointer, joinedAt, janitor, shown>>
<1>1. s \in Procs /\ "out" \in Steps
  BY DEF Procs, Steps
<1>2. {"left", "ghost"} \X {s} = {<<"left", s>>, <<"ghost", s>>}
  OBVIOUS
<1> QED
  BY <1>1, <1>2, GotoMoves DEF LoseLeft, LeaveDue, redis

LEMMA ReadRecordedEffect ==
    ASSUME TypeOK, NEW s \in Conns, ReadRecorded(s)
    PROVE  /\ proc[s].pc = "recorded"
           /\ proc' \in [Procs -> Proc]
           /\ \A q \in Procs : q # s => proc'[q] = proc[q]
           /\ proc'[s].pc = "state" /\ proc'[s].rec = Recorded(Room[s])
           /\ proc'[s].got = proc[s].got /\ proc'[s].owed = proc[s].owed
           /\ UNCHANGED <<course, sfu, conns, members, entries, pointer, joinedAt, janitor, shown, lost>>
<1>1. s \in Procs /\ "state" \in Steps /\ Recorded(Room[s]) \in SUBSET Conns
  BY RoomAssumption DEF Procs, Steps, Recorded, Of
<1>2. With(s, "state", Recorded(Room[s]))
  BY DEF ReadRecorded
<1> QED
  BY <1>1, <1>2, WithMoves, RoomAssumption DEF ReadRecorded, redis, At

LEMMA ConfirmEffect ==
    ASSUME TypeOK, NEW s \in Conns, Confirm(s)
    PROVE  /\ proc[s].pc = "confirm"
           /\ proc' \in [Procs -> Proc]
           /\ \A q \in Procs : q # s => proc'[q] = proc[q]
           /\ proc'[s].pc = "list" /\ proc'[s].rec = Recorded(Room[s])
           /\ proc'[s].got = proc[s].got /\ proc'[s].owed = proc[s].owed
           /\ UNCHANGED <<course, sfu, conns, members, entries, pointer, joinedAt, janitor, shown, lost>>
<1>1. s \in Procs /\ "list" \in Steps /\ Recorded(Room[s]) \in SUBSET Conns
  BY RoomAssumption DEF Procs, Steps, Recorded, Of
<1>2. With(s, "list", Recorded(Room[s]))
  BY DEF Confirm
<1> QED
  BY <1>1, <1>2, WithMoves, RoomAssumption DEF Confirm, redis, At

LEMMA RemoveReadEffect ==
    ASSUME TypeOK, NEW s \in Procs, RemoveRead(s)
    PROVE  /\ proc[s].pc \in {"idle", "read"} /\ (s \in Conns => proc[s].pc = "read")
           /\ proc' \in [Procs -> Proc]
           /\ \A q \in Procs : q # s => proc'[q] = proc[q]
           /\ proc'[s].pc = "holds" /\ proc'[s].rec = Recorded(ChannelOf(s))
           /\ proc'[s].got = proc[s].got /\ proc'[s].owed = proc[s].owed
           /\ UNCHANGED <<course, sfu, conns, members, entries, pointer, joinedAt, janitor, shown, lost>>
<1>1. s \in Procs /\ "holds" \in Steps /\ Recorded(ChannelOf(s)) \in SUBSET Conns
  BY RoomAssumption DEF Procs, Steps, Recorded, Of
<1>2. With(s, "holds", Recorded(ChannelOf(s)))
  BY DEF RemoveRead
<1> QED
  BY <1>1, <1>2, WithMoves, RoomAssumption DEF RemoveRead, redis, At

LEMMA RemoveHoldsEffect ==
    ASSUME TypeOK, NEW s \in Procs, RemoveHolds(s)
    PROVE  /\ proc[s].pc = "holds"
           /\ proc' \in [Procs -> Proc]
           /\ \A q \in Procs : q # s => proc'[q] = proc[q]
           /\ proc'[s].pc = "evict" /\ proc'[s].rec = proc[s].rec
           /\ proc'[s].got = proc[s].got /\ proc'[s].owed = proc[s].owed
           /\ UNCHANGED <<course, sfu, conns, members, entries, pointer, joinedAt, janitor, shown, lost>>
<1> DEFINE h == \/ proc[s].held \/ proc[s].rec # {} \/ ChannelOf(s) \in members
                \/ ChannelOf(s) \in entries \/ pointer = ChannelOf(s)
<1>1. proc \in [Procs -> Proc] /\ proc[s] \in Proc
  BY ProcType
<1>2. proc' = [proc EXCEPT ![s] = [proc[s] EXCEPT !.pc = "evict", !.held = h]]
  BY <1>1 DEF RemoveHolds
<1>3. h \in BOOLEAN
  BY <1>1 DEF Proc
<1>4. [proc[s] EXCEPT !.pc = "evict", !.held = h] \in Proc
  BY <1>1, <1>3 DEF Proc, Steps
<1>5. /\ proc'[s] = [proc[s] EXCEPT !.pc = "evict", !.held = h]
      /\ \A q \in Procs : q # s => proc'[q] = proc[q]
      /\ proc' \in [Procs -> Proc]
  BY <1>1, <1>2, <1>4
<1> QED
  BY <1>1, <1>5 DEF Proc, RemoveHolds, redis, At

LEMMA RemoveEvictEffect ==
    ASSUME TypeOK, NEW s \in Procs, RemoveEvict(s)
    PROVE  /\ proc[s].pc = "evict"
           /\ proc' \in [Procs -> Proc]
           /\ \A q \in Procs : q # s => proc'[q] = proc[q]
           /\ \A x \in Conns : sfu'[x] = IF x \in Live(ChannelOf(s)) THEN "gone" ELSE sfu[x]
           /\ \/ Moved(s, RemoveDone(s))
              \/ /\ proc'[s].pc = "teardown" /\ proc'[s].rec = proc[s].rec
                 /\ proc'[s].got = Live(ChannelOf(s)) /\ proc'[s].owed = proc[s].owed
           /\ sfu' \in [Conns -> {"new", "live", "gone"}]
           /\ UNCHANGED <<course, conns, members, entries, pointer, joinedAt, janitor, shown, lost>>
<1>1. proc \in [Procs -> Proc] /\ proc[s] \in Proc
  BY ProcType
<1>2. /\ proc[s].pc = "evict"
      /\ UNCHANGED <<course, conns, members, entries, pointer, joinedAt, janitor, shown, lost>>
      /\ sfu' = [x \in Conns |-> IF x \in Live(ChannelOf(s)) THEN "gone" ELSE sfu[x]]
  BY DEF RemoveEvict, redis, At
<1>3. sfu' \in [Conns -> {"new", "live", "gone"}]
  BY <1>2 DEF TypeOK
<1>4. CASE Goto(s, RemoveDone(s))
  <2>1. RemoveDone(s) \in Steps
    BY DEF RemoveDone, Steps
  <2> QED
    BY <1>2, <1>3, <1>4, <2>1, GotoMoves
<1>5. CASE proc' = [proc EXCEPT ![s].pc = "teardown", ![s].got = Live(ChannelOf(s))]
  <2>1. proc' = [proc EXCEPT ![s] = [proc[s] EXCEPT !.pc = "teardown", !.got = Live(ChannelOf(s))]]
    BY <1>1, <1>5
  <2>2. [proc[s] EXCEPT !.pc = "teardown", !.got = Live(ChannelOf(s))] \in Proc
    BY <1>1 DEF Proc, Steps, Live, Of
  <2>3. /\ proc'[s] = [proc[s] EXCEPT !.pc = "teardown", !.got = Live(ChannelOf(s))]
        /\ \A q \in Procs : q # s => proc'[q] = proc[q]
        /\ proc' \in [Procs -> Proc]
    BY <1>1, <2>1, <2>2
  <2>4. /\ proc'[s].pc = "teardown" /\ proc'[s].rec = proc[s].rec
        /\ proc'[s].got = Live(ChannelOf(s)) /\ proc'[s].owed = proc[s].owed
    BY <1>1, <2>3 DEF Proc
  <2> QED
    BY <1>2, <1>3, <2>3, <2>4
<1> QED
  BY <1>4, <1>5 DEF RemoveEvict

LEMMA DeletesEffect ==
    ASSUME TypeOK, NEW c \in Channels, NEW sids \in SUBSET Of(c), DeleteConnections(c, sids)
    PROVE  /\ conns' = conns \ sids
           /\ members' \subseteq members /\ entries' \subseteq entries
           /\ \A x \in members' : x \in entries => x \in entries'
           /\ \A x \in Channels : x # c => Recorded(x)' = Recorded(x)
           /\ Recorded(c)' = Recorded(c) \ sids
           /\ \/ Survives(c, sids) /\ UNCHANGED <<members, entries, pointer, joinedAt>>
              \/ /\ ~Survives(c, sids) /\ c \notin members'
                 /\ \/ UNCHANGED <<pointer, joinedAt>>
                    \/ pointer \in {None, c} /\ pointer' = None /\ joinedAt' = None
           /\ \A x \in members' : pointer = x => pointer' = x
           /\ pointer' \in {pointer, None} /\ joinedAt' \in {joinedAt, None}
           /\ \A x \in Conns \ sids : x \in conns =>
                 x \in conns' /\ (Room[x] \in members => Room[x] \in members')
<1>1. conns' = conns \ sids
  BY DEF DeleteConnections
<1>2. \A x \in Channels : x # c => Recorded(x)' = Recorded(x)
  BY <1>1 DEF Recorded, Of
<1>3. Recorded(c)' = Recorded(c) \ sids
  BY <1>1 DEF Recorded
<1>6. \A x \in Conns \ sids : x \in conns => x \in conns' /\ (Room[x] = c => Survives(c, sids))
  BY <1>1 DEF Survives, Recorded, Of
<1>4. CASE Survives(c, sids)
  BY <1>1, <1>2, <1>3, <1>6, <1>4 DEF DeleteConnections
<1>5. CASE ~Survives(c, sids)
  <2>1. Teardown(c)
    BY <1>5 DEF DeleteConnections
  <2> QED
    BY <1>1, <1>2, <1>3, <1>6, <1>5, <2>1, NoneAssumption, RoomAssumption DEF Teardown, TypeOK
<1> QED
  BY <1>4, <1>5

LEMMA DropEffect ==
    ASSUME TypeOK, NEW s \in Conns, Drop(s)
    PROVE  /\ proc[s].pc = "drop"
           /\ DeleteConnections(Room[s], {s})
           /\ proc' \in [Procs -> Proc]
           /\ \A q \in Procs : q # s => proc'[q] = proc[q]
           /\ \/ /\ Survives(Room[s], {s}) /\ Moved(s, "read")
                 /\ lost' = lost \cup {<<"capped", s>>}
              \/ /\ ~Survives(Room[s], {s}) /\ Moved(s, "in") /\ lost' = lost
           /\ UNCHANGED <<course, sfu, janitor, shown>>
<1>1. s \in Procs /\ "read" \in Steps /\ "in" \in Steps
  BY DEF Procs, Steps
<1> QED
  BY <1>1, GotoMoves DEF Drop, At

LEMMA DeleteConnectionEffect ==
    ASSUME TypeOK, NEW s \in Conns, DeleteConnection(s)
    PROVE  /\ sfu[s] = "gone" /\ proc[s].pc \in {"in", "dropped"}
           /\ DeleteConnections(Room[s], {s})
           /\ proc' \in [Procs -> Proc]
           /\ \A q \in Procs : q # s => proc'[q] = proc[q]
           /\ proc'[s].pc = IF Survives(Room[s], {s}) THEN "confirm" ELSE "leave"
           /\ proc'[s].rec = proc[s].rec /\ proc'[s].got = proc[s].got
           /\ proc'[s].owed = Lost("ghost", Room[s])
           /\ UNCHANGED <<course, sfu, janitor, shown, lost>>
<1> DEFINE pc == IF Survives(Room[s], {s}) THEN "confirm" ELSE "leave"
           owed == Lost("ghost", Room[s])
<1>1. proc \in [Procs -> Proc] /\ proc[s] \in Proc /\ s \in Procs
  BY ProcType DEF Procs
<1>2. proc' = [proc EXCEPT ![s] = [proc[s] EXCEPT !.pc = pc, !.owed = owed]]
  BY <1>1 DEF DeleteConnection
<1>3. pc \in Steps /\ owed \in SUBSET ({"ghost"} \X Conns)
  BY DEF Steps, Lost, Of
<1> HIDE DEF pc, owed
<1>4. [proc[s] EXCEPT !.pc = pc, !.owed = owed] \in Proc
  BY <1>1, <1>3 DEF Proc
<1>5. /\ proc'[s] = [proc[s] EXCEPT !.pc = pc, !.owed = owed]
      /\ \A q \in Procs : q # s => proc'[q] = proc[q]
      /\ proc' \in [Procs -> Proc]
  BY <1>1, <1>2, <1>4
<1>6. proc'[s].pc = pc /\ proc'[s].owed = owed /\ proc'[s].rec = proc[s].rec /\ proc'[s].got = proc[s].got
  BY <1>1, <1>5 DEF Proc
<1> QED
  BY <1>5, <1>6 DEF pc, owed, DeleteConnection, LeaveDue

LEMMA ListEffect ==
    ASSUME TypeOK, NEW s \in Conns, List(s)
    PROVE  /\ proc[s].pc = "list"
           /\ proc' \in [Procs -> Proc]
           /\ \A q \in Procs : q # s => proc'[q] = proc[q]
           /\ \/ /\ proc[s].rec \subseteq Live(Room[s]) /\ Moved(s, "out")
                 /\ lost' = lost \ proc[s].owed
              \/ /\ proc'[s].pc = "stale" /\ proc'[s].rec = proc[s].rec \ Live(Room[s])
                 /\ proc'[s].got = proc[s].got /\ proc'[s].owed = proc[s].owed
                 /\ proc[s].rec \ Live(Room[s]) # {} /\ lost' = lost
           /\ UNCHANGED <<course, sfu, conns, members, entries, pointer, joinedAt, janitor, shown>>
<1> DEFINE stale == proc[s].rec \ Live(Room[s])
<1>1. s \in Procs /\ {"out", "stale"} \subseteq Steps /\ stale \in SUBSET Conns
  <2>1. proc[s] \in Proc
    BY ProcType DEF Procs
  <2> QED
    BY <2>1 DEF Procs, Steps, Proc
<1>2. proc[s].pc = "list" /\ UNCHANGED <<course, sfu, conns, members, entries, pointer, joinedAt, janitor, shown>>
  BY DEF List, redis, At
<1>3. CASE stale = {}
  <2>1. Goto(s, "out") /\ lost' = lost \ proc[s].owed
    BY <1>3 DEF List, Left
  <2> QED
    BY <1>1, <1>2, <1>3, <2>1, GotoMoves
<1>4. CASE stale # {}
  <2>1. With(s, "stale", stale) /\ lost' = lost
    BY <1>4 DEF List
  <2> HIDE DEF stale
  <2>2. /\ proc' \in [Procs -> Proc] /\ proc'[s].pc = "stale" /\ proc'[s].rec = stale
        /\ proc'[s].got = proc[s].got /\ proc'[s].owed = proc[s].owed
        /\ \A q \in Procs : q # s => proc'[q] = proc[q]
    BY <1>1, <2>1, WithMoves
  <2> QED
    BY <1>2, <1>4, <2>1, <2>2 DEF stale
<1> QED
  BY <1>3, <1>4

LEMMA DeleteStaleEffect ==
    ASSUME TypeOK, NEW s \in Conns, DeleteStale(s)
    PROVE  /\ proc[s].pc = "stale"
           /\ DeleteConnections(Room[s], proc[s].rec)
           /\ proc' \in [Procs -> Proc]
           /\ \A q \in Procs : q # s => proc'[q] = proc[q]
           /\ \/ /\ Survives(Room[s], proc[s].rec) /\ Moved(s, "out")
                 /\ lost' = lost \ proc[s].owed
              \/ /\ ~Survives(Room[s], proc[s].rec)
                 /\ proc'[s].pc = "leave" /\ proc'[s].rec = {}
                 /\ proc'[s].got = proc[s].got /\ proc'[s].owed = proc[s].owed /\ lost' = lost
           /\ UNCHANGED <<course, sfu, janitor, shown>>
<1>1. s \in Procs /\ {"out", "leave"} \subseteq Steps
  BY DEF Procs, Steps
<1>2. /\ proc[s].pc = "stale" /\ DeleteConnections(Room[s], proc[s].rec)
      /\ UNCHANGED <<course, sfu, janitor, shown>>
  BY DEF DeleteStale, At
<1>3. CASE Survives(Room[s], proc[s].rec)
  <2>1. Goto(s, "out") /\ lost' = lost \ proc[s].owed
    BY <1>3 DEF DeleteStale, Left
  <2> QED
    BY <1>1, <1>2, <1>3, <2>1, GotoMoves
<1>4. CASE ~Survives(Room[s], proc[s].rec)
  <2>1. With(s, "leave", {}) /\ lost' = lost
    BY <1>4 DEF DeleteStale
  <2>2. /\ proc' \in [Procs -> Proc] /\ proc'[s].pc = "leave" /\ proc'[s].rec = {}
        /\ proc'[s].got = proc[s].got /\ proc'[s].owed = proc[s].owed
        /\ \A q \in Procs : q # s => proc'[q] = proc[q]
    BY <1>1, <2>1, WithMoves
  <2> QED
    BY <1>2, <1>4, <2>1, <2>2
<1> QED
  BY <1>3, <1>4

LEMMA RemoveTeardownEffect ==
    ASSUME TypeOK, NEW s \in Procs, RemoveTeardown(s)
    PROVE  /\ proc[s].pc = "teardown"
           /\ DeleteConnections(ChannelOf(s), proc[s].got \cup proc[s].rec)
           /\ proc' \in [Procs -> Proc]
           /\ \A q \in Procs : q # s => proc'[q] = proc[q]
           /\ \E pc \in {"publish", RemoveDone(s)} : Moved(s, pc)
           /\ UNCHANGED <<course, sfu, janitor, shown, lost>>
<1>1. "publish" \in Steps /\ RemoveDone(s) \in Steps
  BY DEF RemoveDone, Steps
<1> QED
  BY <1>1, GotoMoves DEF RemoveTeardown, At

LEMMA CreateKeysEffect ==
    ASSUME TypeOK, NEW s \in Conns, CreateKeys(s)
    PROVE  /\ proc[s].pc = "keys"
           /\ proc' \in [Procs -> Proc]
           /\ \A q \in Procs : q # s => proc'[q] = proc[q]
           /\ pointer' = Room[s] /\ joinedAt' = s
           /\ \/ course.torn /\ Moved(s, "roster") /\ UNCHANGED <<members, entries>>
              \/ /\ ~course.torn /\ Moved(s, "cap")
                 /\ members' = members \cup {Room[s]} /\ entries' = entries \cup {Room[s]}
           /\ UNCHANGED <<course, sfu, conns, janitor, shown, lost>>
<1>1. s \in Procs /\ {"roster", "cap"} \subseteq Steps
  BY DEF Procs, Steps
<1>2. CASE course.torn
  BY <1>1, <1>2, GotoMoves DEF CreateKeys, At
<1>3. CASE ~course.torn
  BY <1>1, <1>3, GotoMoves DEF CreateKeys, AddToRoster, At
<1> QED
  BY <1>2, <1>3

LEMMA LoseJoinedEffect ==
    ASSUME TypeOK, NEW s \in Conns, LoseJoined(s)
    PROVE  /\ (proc[s].pc = "idle" /\ sfu[s] # "new") \/ Joining(s)
           /\ proc' \in [Procs -> Proc]
           /\ \A q \in Procs : q # s => proc'[q] = proc[q]
           /\ Moved(s, "dropped")
           /\ lost' = lost \cup {<<"joined", s>>}
           /\ UNCHANGED <<course, sfu, conns, members, entries, pointer, joinedAt, janitor, shown>>
<1>1. s \in Procs /\ {"dropped"} \subseteq Steps
  BY DEF Procs, Steps, RemoveDone
<1> QED
  BY <1>1, GotoMoves DEF LoseJoined, redis, At, JoinDue

LEMMA RefuseEffect ==
    ASSUME TypeOK, NEW s \in Conns, Refuse(s)
    PROVE  /\ proc[s].pc = "idle" /\ sfu[s] # "new"
           /\ proc' \in [Procs -> Proc]
           /\ \A q \in Procs : q # s => proc'[q] = proc[q]
           /\ Moved(s, "in")
           /\ sfu' \in [Conns -> {"new", "live", "gone"}] /\ sfu'[s] = "gone"
           /\ \A x \in Conns : x # s => sfu'[x] = sfu[x]
           /\ lost' = lost \cup {<<"joined", s>>}
           /\ UNCHANGED <<course, conns, members, entries, pointer, joinedAt, janitor, shown>>
<1>1. s \in Procs /\ {"in"} \subseteq Steps
  BY DEF Procs, Steps, RemoveDone
<1> QED
  BY <1>1, GotoMoves DEF Refuse, redis, At, JoinDue, TypeOK

LEMMA RecordEffect ==
    ASSUME TypeOK, NEW s \in Conns, Record(s)
    PROVE  /\ proc[s].pc = "idle" /\ sfu[s] # "new"
           /\ proc' \in [Procs -> Proc]
           /\ \A q \in Procs : q # s => proc'[q] = proc[q]
           /\ Moved(s, IF Room[s] \in members THEN "recorded" ELSE "keys")
           /\ conns' = conns \cup {s}
           /\ UNCHANGED <<course, sfu, members, entries, pointer, joinedAt, janitor, shown, lost>>
<1>1. s \in Procs /\ {"recorded", "keys"} \subseteq Steps
  BY DEF Procs, Steps, RemoveDone
<1> QED
  BY <1>1, GotoMoves DEF Record, redis, At, JoinDue

LEMMA ReadStateEffect ==
    ASSUME TypeOK, NEW s \in Conns, ReadState(s)
    PROVE  /\ proc[s].pc = "state"
           /\ proc' \in [Procs -> Proc]
           /\ \A q \in Procs : q # s => proc'[q] = proc[q]
           /\ Moved(s, IF ~RetriedJoin(s) THEN "in" ELSE IF joinedAt = None THEN "keys" ELSE "cap")
           /\ UNCHANGED <<course, sfu, conns, members, entries, pointer, joinedAt, janitor, shown, lost>>
<1>1. s \in Procs /\ {"in", "keys", "cap"} \subseteq Steps
  BY DEF Procs, Steps, RemoveDone
<1> QED
  BY <1>1, GotoMoves DEF ReadState, redis, At

LEMMA CreateRosterEffect ==
    ASSUME TypeOK, NEW s \in Conns, CreateRoster(s)
    PROVE  /\ proc[s].pc = "roster"
           /\ proc' \in [Procs -> Proc]
           /\ \A q \in Procs : q # s => proc'[q] = proc[q]
           /\ Moved(s, "cap")
           /\ members' = members \cup {Room[s]} /\ entries' = entries \cup {Room[s]}
           /\ UNCHANGED <<course, sfu, conns, pointer, joinedAt, janitor, shown, lost>>
<1>1. s \in Procs /\ {"cap"} \subseteq Steps
  BY DEF Procs, Steps, RemoveDone
<1> QED
  BY <1>1, GotoMoves DEF CreateRoster, redis, At, AddToRoster

LEMMA OverCapEffect ==
    ASSUME TypeOK, NEW s \in Conns, OverCap(s)
    PROVE  /\ proc[s].pc = "cap"
           /\ proc' \in [Procs -> Proc]
           /\ \A q \in Procs : q # s => proc'[q] = proc[q]
           /\ Moved(s, "drop")
           /\ sfu' \in [Conns -> {"new", "live", "gone"}] /\ sfu'[s] = "gone"
           /\ \A x \in Conns : x # s => sfu'[x] = sfu[x]
           /\ UNCHANGED <<course, conns, members, entries, pointer, joinedAt, janitor, shown, lost>>
<1>1. s \in Procs /\ {"drop"} \subseteq Steps
  BY DEF Procs, Steps, RemoveDone
<1> QED
  BY <1>1, GotoMoves DEF OverCap, redis, At, TypeOK

LEMMA AnnounceEffect ==
    ASSUME TypeOK, NEW s \in Conns, Announce(s)
    PROVE  /\ proc[s].pc = "cap"
           /\ proc' \in [Procs -> Proc]
           /\ \A q \in Procs : q # s => proc'[q] = proc[q]
           /\ Moved(s, "in")
           /\ shown' = [shown EXCEPT ![Room[s]] = "in"]
           /\ UNCHANGED <<course, sfu, conns, members, entries, pointer, joinedAt, janitor, lost>>
<1>1. s \in Procs /\ {"in"} \subseteq Steps
  BY DEF Procs, Steps, RemoveDone
<1> QED
  BY <1>1, GotoMoves DEF Announce, redis, At

LEMMA AnnounceLeaveEffect ==
    ASSUME TypeOK, NEW s \in Conns, AnnounceLeave(s)
    PROVE  /\ proc[s].pc = "leave"
           /\ proc' \in [Procs -> Proc]
           /\ \A q \in Procs : q # s => proc'[q] = proc[q]
           /\ Moved(s, "out")
           /\ Leave(Room[s])
           /\ lost' = lost \ proc[s].owed
           /\ UNCHANGED <<course, sfu, conns, members, entries, pointer, joinedAt, janitor>>
<1>1. s \in Procs /\ {"out"} \subseteq Steps
  BY DEF Procs, Steps, RemoveDone
<1> QED
  BY <1>1, GotoMoves DEF AnnounceLeave, redis, At, Left

LEMMA RemovePublishEffect ==
    ASSUME TypeOK, NEW s \in Procs, RemovePublish(s)
    PROVE  /\ proc[s].pc = "publish"
           /\ proc' \in [Procs -> Proc]
           /\ \A q \in Procs : q # s => proc'[q] = proc[q]
           /\ Moved(s, RemoveDone(s))
           /\ Leave(ChannelOf(s))
           /\ UNCHANGED <<course, sfu, conns, members, entries, pointer, joinedAt, janitor, lost>>
<1>1. s \in Procs /\ {RemoveDone(s)} \subseteq Steps
  BY DEF Procs, Steps, RemoveDone
<1> QED
  BY <1>1, GotoMoves DEF RemovePublish, redis, At

LEMMA RemoveFailsEffect ==
    ASSUME TypeOK, NEW s \in Removable, RemoveFails(s)
    PROVE  /\ proc[s].pc \in {"holds", "evict", "teardown"}
           /\ proc' \in [Procs -> Proc]
           /\ \A q \in Procs : q # s => proc'[q] = proc[q]
           /\ Moved(s, "idle")
           /\ sfu' \in [Conns -> {"new", "live", "gone"}]
           /\ \A x \in Conns : sfu'[x] = sfu[x] \/ (sfu[x] = "live" /\ sfu'[x] = "gone")
           /\ UNCHANGED <<course, conns, members, entries, pointer, joinedAt, janitor, shown, lost>>
<1>1. s \in Procs /\ {"idle"} \subseteq Steps
  BY DEF Procs, Steps, RemoveDone
<1> QED
  BY <1>1, GotoMoves DEF RemoveFails, redis, At, TypeOK, Live, Of

-----------------------------------------------------------------------------
(* The steps of a leave *)

LEMMA LeaveLost ==
    ASSUME TypeOK, TypeOK', LostInv, conns' \subseteq conns,
           \A x \in conns' : Owing(x) => Owing(x)' \/ <<"left", x>> \in lost',
           \A x \in Conns : <<"left", x>> \in lost => <<"left", x>> \in lost',
           \A x \in Conns : <<"ghost", x>> \in lost' =>
               <<"ghost", x>> \in lost \/ (<<"left", x>> \in lost' /\ At(x, "out")'),
           \A x \in Conns : At(x, "out") => At(x, "out")',
           \A p \in Procs : \A x \in Conns : <<"ghost", x>> \in proc'[p].owed =>
               <<"ghost", x>> \in proc[p].owed \cup lost
    PROVE  LostInv'
<1>1. \A x \in conns' : x \in Conns
  BY DEF TypeOK
<1> QED
  BY <1>1 DEF LostInv

LEMMA LeaveShown ==
    ASSUME ShownInv,
           \A c \in Channels : shown'[c] = "in" =>
               /\ shown[c] = "in"
               /\ \A y \in Of(c) : Owing(y) \/ At(y, "leave") \/ <<"left", y>> \in lost =>
                     \E z \in Of(c) : Owing(z)' \/ At(z, "leave")' \/ <<"left", z>> \in lost'
    PROVE  ShownInv'
<1> SUFFICES ASSUME NEW c \in Channels, shown'[c] = "in"
             PROVE  \E z \in Of(c) : Owing(z)' \/ At(z, "leave")' \/ <<"left", z>> \in lost'
  BY DEF ShownInv, Of
<1>1. PICK y \in Of(c) : Owing(y) \/ At(y, "leave") \/ <<"left", y>> \in lost
  BY DEF ShownInv
<1> QED
  BY <1>1

\* Only the leave that moves may fail its roster; a ghost nobody owes is not cleared
LEMMA LeaveRoster ==
    ASSUME TypeOK, TypeOK', RosterInv, NEW s \in Conns, UNCHANGED sfu,
           \A q \in Procs : q # s => proc'[q] = proc[q],
           \A x \in Conns : <<"ghost", x>> \in lost /\ <<"ghost", x>> \notin proc[s].owed
                            => <<"ghost", x>> \in lost',
           \A c \in members' :
               /\ c \in members /\ c \in entries'
               /\ Recorded(c)' \subseteq Recorded(c)
               /\ Recorded(c) # {} => Recorded(c)' # {}
               /\ \/ proc'[s].owed \subseteq proc[s].owed
                  \/ c = Room[s] /\ Attended(c)'
                  \/ c # Room[s] /\ \A x \in Of(c) : <<"ghost", x>> \notin proc'[s].owed,
           Room[s] \in members' /\ (Owing(s) \/ (Cleans(s) /\ Recorded(Room[s]) # {}))
               => Attended(Room[s])'
    PROVE  RosterInv'
<1> SUFFICES ASSUME NEW c \in members' PROVE Attended(c)'
  BY DEF RosterInv
<1>1. CASE Haunted(c)
  <2>1. PICK x \in Of(c) : <<"ghost", x>> \in lost /\ \A p \in Conns : <<"ghost", x>> \notin proc[p].owed
    BY <1>1 DEF Haunted
  <2>2. x \in Conns /\ <<"ghost", x>> \in lost'
    BY <2>1 DEF Of
  <2>3. \A p \in Conns : p # s => <<"ghost", x>> \notin proc'[p].owed
    BY <2>1 DEF Procs
  <2>4. Attended(c)' \/ <<"ghost", x>> \notin proc'[s].owed
    BY <2>1
  <2> QED
    BY <2>1, <2>2, <2>3, <2>4 DEF Attended, Haunted, Of
<1>2. CASE \E y \in Of(c) : Owing(y)
  <2>1. PICK y \in Of(c) : Owing(y)
    BY <1>2
  <2>2. CASE y = s
    BY <2>1, <2>2 DEF Of
  <2>3. CASE y # s
    <3>1. Owing(y)'
      BY <2>1, <2>3 DEF Owing, Leaving, At, Of, Procs
    <3> QED
      BY <3>1 DEF Attended, Of
  <2> QED
    BY <2>2, <2>3
<1>3. CASE Recorded(c) # {} /\ \E y \in Of(c) : Cleans(y)
  <2>1. PICK y \in Of(c) : Cleans(y)
    BY <1>3
  <2>2. CASE y = s
    BY <1>3, <2>1, <2>2 DEF Of
  <2>3. CASE y # s
    <3>1. Recorded(c)' # {} /\ Recorded(c)' \subseteq Recorded(c)
      BY <1>3
    <3>2. Cleans(y)'
      BY <2>1, <2>3, <3>1 DEF Cleans, At, Of, Procs, Recorded
    <3> QED
      BY <3>1, <3>2 DEF Attended, Of
  <2> QED
    BY <2>2, <2>3
<1> QED
  BY <1>1, <1>2, <1>3 DEF RosterInv, Attended

\* What a leave clears are ghosts
LEMMA OwedGhosts ==
    ASSUME TypeOK, NEW s \in Conns, NEW kind, NEW x, <<kind, x>> \in proc[s].owed
    PROVE  kind = "ghost"
<1>1. proc[s].owed \in SUBSET ({"ghost"} \X Conns)
  BY ProcType DEF Procs, Proc
<1> QED
  BY <1>1

-----------------------------------------------------------------------------
(* The steps that move no handler and no removal *)

\* Connections only leave, records and rosters only go
LEMMA StillKeeps ==
    ASSUME Inv, TypeOK', UNCHANGED <<course, proc, lost>>,
           \A x \in Conns : /\ sfu[x] = "new" <=> sfu'[x] = "new"
                            /\ sfu[x] = "gone" => sfu'[x] = "gone",
           conns' \subseteq conns, members' \subseteq members,
           \A c \in members' : c \in entries' /\ Recorded(c)' = Recorded(c),
           UNCHANGED <<pointer, joinedAt>> \/ (pointer' = None /\ joinedAt' = None),
           \A c \in Channels : shown'[c] = "in" => shown[c] = "in"
    PROVE  ConnInv' /\ KeysInv' /\ LostInv' /\ RosterInv' /\ ShownInv' /\ OneRoomInv'
<1> USE DEF Inv
<1>1. Ordinary
  <2>1. \A x \in Conns : /\ Owing(x) => Owing(x)'
                         /\ Answered(x) => Answered(x)'
                         /\ At(x, "out") => At(x, "out")'
    BY DEF Owing, Answered, Leaving, At
  <2> QED
    BY <2>1 DEF Ordinary
<1>2. ConnInv'
  <2>1. \A x \in Conns : ConnAt(x)'
    BY DEF ConnInv, ConnAt, Leaving, At
  <2>2. ASSUME NEW p \in Procs PROVE ReadAt(p)'
    BY DEF ConnInv, ReadAt, At, Of
  <2> QED
    BY <2>1, <2>2 DEF ConnInv
<1>3. KeysInv'
  BY KeysFrame
<1>4. LostInv' /\ OneRoomInv' /\ ShownInv' /\ RosterInv'
  BY <1>1, OrdinaryLost, OrdinaryOneRoom, OrdinaryShown, OrdinaryRoster DEF RosterInv
<1> QED
  BY <1>2, <1>3, <1>4

\* Readers and the sweep leave what holds without them alone
LEMMA JanitorKeeps ==
    ASSUME Inv, UNCHANGED course, course.janitor \/ janitor.pc # "idle"
    PROVE  SeatInv' /\ PointerInv' /\ AnnouncedInv'
<1>1. course.janitor \/ course.torn
  BY DEF Inv, SeatInv
<1> QED
  BY <1>1 DEF SeatInv, PointerInv, AnnouncedInv, Calm

LEMMA DisconnectKeeps ==
    ASSUME Inv, NEW s \in Conns, Disconnect(s)
    PROVE  Inv'
<1> USE DEF Inv
<1>1. TypeOK'
  BY DEF Disconnect, TypeOK, redis
<1>2. /\ sfu[s] = "live" /\ sfu'[s] = "gone" /\ \A x \in Conns : x # s => sfu'[x] = sfu[x]
      /\ UNCHANGED <<course, proc, lost, conns, members, entries, pointer, joinedAt, janitor, shown>>
  BY DEF Disconnect, TypeOK, redis
<1>3. \A c \in Channels : c \in members => c \in entries
  BY DEF RosterInv
<1>4. ConnInv' /\ KeysInv' /\ LostInv' /\ RosterInv' /\ ShownInv' /\ OneRoomInv'
  BY <1>1, <1>2, <1>3, StillKeeps DEF Recorded, TypeOK
<1>5. SeatInv'
  BY <1>2 DEF SeatInv, SeatAt, At
<1>6. PointerInv'
  BY <1>1, <1>2, PointerFrame
<1>7. AnnouncedInv'
  BY <1>1, <1>2, AnnouncedFrame
<1> QED
  BY <1>1, <1>4, <1>5, <1>6, <1>7

LEMMA RoomFinishedKeeps ==
    ASSUME Inv, NEW c \in Channels, RoomFinished(c)
    PROVE  Inv'
<1> USE DEF Inv
<1>1. TypeOK'
  BY DEF RoomFinished, TypeOK
<1>2. /\ members' = members \ {c} /\ conns' = conns \ Of(c)
      /\ UNCHANGED <<course, sfu, entries, pointer, joinedAt, proc, janitor, shown, lost>>
      /\ \A x \in Of(c) : sfu[x] # "live"
  BY DEF RoomFinished, ConnInv, ConnAt, Of
<1>3. \A d \in members' : d \in entries' /\ Recorded(d)' = Recorded(d)
  BY <1>2 DEF RosterInv, Recorded, Of
<1>4. ConnInv' /\ KeysInv' /\ LostInv' /\ RosterInv' /\ ShownInv' /\ OneRoomInv'
  BY <1>1, <1>2, <1>3, StillKeeps
<1>5. SeatInv'
  BY <1>2 DEF SeatInv, SeatAt, At, Of
<1>6. PointerInv'
  BY <1>1, <1>2, PointerFrame
<1>7. AnnouncedInv'
  BY <1>1, <1>2, AnnouncedFrame
<1> QED
  BY <1>1, <1>4, <1>5, <1>6, <1>7

\* Looking changes nothing
LEMMA LooksKeep ==
    ASSUME Inv, \/ \E c \in Channels : RepairRoster(c) \/ SweepGhost(c)
                \/ RepairState \/ SweepStray
    PROVE  Inv'
<1> USE DEF Inv
<1>1. TypeOK'
  BY DEF RepairRoster, SweepGhost, RepairState, SweepStray, Janitor, TypeOK, redis
<1>2. /\ UNCHANGED <<course, sfu, conns, members, entries, pointer, joinedAt, proc, shown, lost>>
      /\ course.janitor \/ janitor.pc # "idle"
  BY DEF RepairRoster, SweepGhost, RepairState, SweepStray, redis
<1>3. \A d \in members' : d \in entries' /\ Recorded(d)' = Recorded(d)
  BY <1>2 DEF RosterInv, Recorded
<1>4. ConnInv' /\ KeysInv' /\ LostInv' /\ RosterInv' /\ ShownInv' /\ OneRoomInv'
  BY <1>1, <1>2, <1>3, StillKeeps
<1> QED
  BY <1>1, <1>2, <1>4, JanitorKeeps

LEMMA CleaningKeeps ==
    ASSUME Inv, RepairDelete \/ SweepDelete \/ SweepStrayDelete
    PROVE  Inv'
<1> USE DEF Inv
<1>1. /\ conns' \subseteq conns /\ members' \subseteq members /\ entries' \subseteq entries
      /\ \A d \in members' : d \in members /\ d \in entries'
      /\ UNCHANGED <<pointer, joinedAt>> \/ (pointer' = None /\ joinedAt' = None)
      /\ \A d \in Channels : shown'[d] \in {shown[d], "out"}
      /\ shown' \in [Channels -> {"out", "in", "overtaken"}]
      /\ janitor' = [pc |-> "idle", c |-> None] /\ janitor.pc # "idle"
      /\ UNCHANGED <<course, sfu, proc, lost>>
  BY DEF RepairDelete, SweepDelete, SweepStrayDelete, DeleteVoiceState, Teardown, Janitor,
         RosterInv, TypeOK
<1>2. \A d \in members' : Recorded(d)' = Recorded(d)
  BY DEF RepairDelete, SweepDelete, SweepStrayDelete, DeleteVoiceState, Teardown, Recorded, Of
<1>3. TypeOK'
  BY <1>1 DEF TypeOK
<1>4. ConnInv' /\ KeysInv' /\ LostInv' /\ RosterInv' /\ ShownInv' /\ OneRoomInv'
  BY <1>1, <1>2, <1>3, StillKeeps
<1> QED
  BY <1>1, <1>3, <1>4, JanitorKeeps

LEMMA ConnectKeeps ==
    ASSUME Inv, NEW s \in Conns, Connect(s)
    PROVE  Inv'
<1> USE DEF Inv
<1>1. TypeOK'
  BY DEF Connect, TypeOK, redis
<1>2. /\ sfu[s] = "new" /\ sfu'[s] = "live" /\ \A x \in Conns : x # s => sfu'[x] = sfu[x]
      /\ UNCHANGED <<course, proc, lost, conns, members, entries, pointer, joinedAt, janitor, shown>>
      /\ \A t \in Conns \ Of(Room[s]) : sfu[t] # "live"
      /\ course.hurried \/ Unhurried(s)
  BY DEF Connect, TypeOK, redis
<1>3. At(s, "idle") /\ s \notin conns
  BY <1>2 DEF ConnInv, ConnAt
<1>4. ~course.hurried => \A t \in Conns : Room[t] # Room[s] =>
         sfu[t] = "new" \/ (sfu[t] = "gone" /\ Answered(t))
  BY <1>2 DEF Unhurried, Answered, Of, TypeOK
<1>5. \A x \in Conns : /\ Owing(x) => Owing(x)'
                       /\ Answered(x)' = Answered(x)
                       /\ At(x, "out")' = At(x, "out") /\ At(x, "leave")' = At(x, "leave")
  BY <1>2 DEF Owing, Answered, Leaving, At
<1>6. ConnInv'
  <2>1. ASSUME NEW x \in Conns PROVE ConnAt(x)'
    BY <1>2, <1>3 DEF ConnInv, ConnAt, At, Leaving
  <2>2. ASSUME NEW p \in Procs PROVE ReadAt(p)'
    <3>1. s \notin proc[p].rec \cup proc[p].got /\ ReadAt(p)
      BY <1>2 DEF ConnInv, ReadAt
    <3> QED
      BY <1>2, <3>1 DEF ReadAt, At, Of
  <2> QED
    BY <2>1, <2>2 DEF ConnInv
<1>7. KeysInv'
  BY <1>2, KeysFrame
<1>8. LostInv'
  BY <1>1, <1>2, <1>5, LeaveLost DEF TypeOK, At
<1>9. ShownInv'
  BY <1>2, <1>5, LeaveShown DEF Of, At
<1>10. RosterInv'
  <2>1. ASSUME NEW c \in members PROVE Attended(c)'
    <3>1. CASE Haunted(c)
      BY <1>2, <3>1 DEF Attended, Haunted
    <3>2. CASE \E x \in Of(c) : Owing(x)
      BY <1>5, <3>2 DEF Attended, Of
    <3>3. CASE Recorded(c) # {} /\ \E x \in Of(c) : Cleans(x)
      BY <1>2, <3>3 DEF Attended, Recorded, Cleans, At
    <3> QED
      BY <3>1, <3>2, <3>3 DEF RosterInv, Attended
  <2> QED
    BY <1>2, <2>1 DEF RosterInv
<1>11. SeatInv'
  BY <1>2, <1>3 DEF SeatInv, SeatAt, At
<1>12. OneRoomInv'
  <2> SUFFICES ASSUME ~course.hurried, NEW x \in Conns, NEW t \in Conns, Room[x] # Room[t]
               PROVE  /\ ~(Joins(x)' /\ Joins(t)')
                      /\ sfu'[x] = "live" => sfu'[t] = "new" \/ (sfu'[t] = "gone" /\ Answered(t)')
    BY <1>2 DEF OneRoomInv
  <2>1. CASE x = s
    BY <1>2, <1>4, <2>1 DEF Joins, Answered, Leaving
  <2>2. CASE t = s
    BY <1>2, <1>4, <2>2 DEF Joins, Answered, Leaving
  <2>3. CASE x # s /\ t # s
    <3>1. /\ ~(Joins(x) /\ Joins(t))
          /\ sfu[x] = "live" => sfu[t] = "new" \/ (sfu[t] = "gone" /\ Answered(t))
      BY DEF OneRoomInv
    <3> QED
      BY <1>2, <2>3, <3>1 DEF Joins, Answered, Leaving
  <2> QED
    BY <2>1, <2>2, <2>3
<1>13. PointerInv'
  <2> SUFFICES ASSUME Calm, ~SomeLeftLost, NEW c \in members
               PROVE  /\ pointer = c \/ \E t \in Conns \ Of(c) : sfu'[t] # "new"
                      /\ Live(c)' # {} => pointer = c
    BY <1>2 DEF PointerInv, Calm, SomeLeftLost, Of
  <2>1. /\ pointer = c \/ \E t \in Conns \ Of(c) : sfu[t] # "new"
        /\ Live(c) # {} => pointer = c
    BY DEF PointerInv
  <2>2. ASSUME Live(c)' # {}, Live(c) = {}, pointer # c PROVE FALSE
    <3>1. c = Room[s]
      BY <1>2, <2>2 DEF Live, Of
    <3>2. PICK t \in Conns \ Of(c) : sfu[t] # "new"
      BY <2>1, <2>2
    <3>3. sfu[t] = "gone"
      BY <1>2, <3>1, <3>2 DEF TypeOK
    <3>4. \A y \in Of(c) : sfu[y] = "gone" => At(y, "out")
      BY <1>2, <3>1, <3>2, <3>3 DEF Unhurried, Calm
    <3>5. \A y \in Of(c) : sfu[y] = "new" \/ At(y, "out")
      BY <2>2, <3>4 DEF Live, Of, TypeOK
    <3>6. \A y \in Of(c) : ~Owing(y) /\ ~Cleans(y)
      BY <3>5 DEF Owing, Cleans, At, ConnInv, ConnAt, Of
    <3>7. Haunted(c)
      BY <3>6 DEF RosterInv, Attended
    <3> QED
      BY <3>7 DEF Haunted, LostInv, SomeLeftLost, Of
  <2> QED
    BY <1>2, <2>1, <2>2
<1>14. AnnouncedInv'
  BY <1>1, <1>2, AnnouncedFrame
<1> QED
  BY <1>1, <1>6, <1>7, <1>8, <1>9, <1>10, <1>11, <1>12, <1>13, <1>14

-----------------------------------------------------------------------------
(* LiveKit's retries and losses, participant_joined and the removal *)

LEMMA RetryKeeps ==
    ASSUME Inv, NEW s \in Conns, Retry(s)
    PROVE  Inv'
<1> USE DEF Inv
<1>1. TypeOK'
  BY RetryEffect, RoomAssumption, NoneAssumption DEF TypeOK, Proc, Procs
<1>2. Ordinary
  <2>1. s \in Conns => Owing(s)' /\ (Answered(s) => Answered(s)') /\ ~At(s, "out")
    BY RetryEffect, RoomAssumption DEF Owing, Answered, At, Leaving, Moved, Procs, Joining,
         ConnInv, ConnAt, TypeOK
  <2> QED
    BY <2>1, OrdinaryMove, RetryEffect DEF Moved, Procs, TypeOK
<1>3. LostInv' /\ OneRoomInv' /\ ShownInv' /\ RosterInv'
  BY <1>1, <1>2, RetryEffect, RoomAssumption, OrdinaryStep DEF Owing, At, Leaving, Moved, Procs,
       Of, RosterInv, ConnInv, ConnAt
<1>4. ConnInv'
  <2>1. s \in Conns => ConnAt(s)'
    BY RetryEffect DEF ConnInv, ConnAt, At, Leaving, Moved, Procs, Joining, TypeOK
  <2>2. ReadAt(s)'
    BY RetryEffect, RoomAssumption DEF ConnInv, ConnAt, ReadAt, ChannelOf, Of, Recorded, Live, At,
         Leaving, Moved, Procs, Joining, TypeOK
  <2> QED
    BY <1>1, <2>1, <2>2, RetryEffect, ConnFrame DEF Procs, ConnInv, ConnAt, TypeOK
<1>5. KeysInv'
  BY RetryEffect, KeysFrame DEF KeysInv
<1>6. SeatInv'
  <2>1. s \in Conns /\ ~course.janitor /\ ~course.torn => SeatAt(s)'
    BY RetryEffect, RoomAssumption DEF SeatInv, SeatAt, At, Leaving, Moved, Procs, Joining, TypeOK,
         ConnInv, ConnAt
  <2>2. \A x \in Conns : x # s /\ sfu'[x] = "live" =>
           /\ sfu[x] = "live"
           /\ x \in conns => x \in conns'
           /\ x \in conns /\ Room[x] \in members => Room[x] \in members'
    BY RetryEffect DEF TypeOK
  <2> QED
    BY <1>1, <2>1, <2>2, RetryEffect, SeatFrame DEF Procs
<1>7. PointerInv'
  BY <1>1, RetryEffect, PointerFrame DEF TypeOK
<1>8. AnnouncedInv'
  <2>1. /\ Calm /\ s \in Conns /\ joinedAt = s /\ proc[s].pc \in Announces
        /\ Room[s] \in members' /\ shown'[Room[s]] = "out"
        => \/ proc'[s].pc \in Announces
           \/ <<"joined", s>> \in lost' \/ <<"capped", s>> \in lost'
    BY <1>1, RetryEffect, RoomAssumption, NoneAssumption DEF Announces, Moved, TypeOK, Leaving,
         Joining
  <2> QED
    BY <1>1, <2>1, RetryEffect, AnnouncedMove DEF Procs
<1> QED
  BY <1>1, <1>3, <1>4, <1>5, <1>6, <1>7, <1>8

LEMMA LoseJoinedKeeps ==
    ASSUME Inv, NEW s \in Conns, LoseJoined(s)
    PROVE  Inv'
<1> USE DEF Inv
<1>1. TypeOK'
  BY LoseJoinedEffect, RoomAssumption, NoneAssumption DEF TypeOK, Proc, Procs
<1>2. Ordinary
  <2>1. s \in Conns => Owing(s)' /\ (Answered(s) => Answered(s)') /\ ~At(s, "out")
    BY LoseJoinedEffect, RoomAssumption DEF Owing, Answered, At, Leaving, Moved, Procs, Joining,
         ConnInv, ConnAt, TypeOK
  <2> QED
    BY <2>1, OrdinaryMove, LoseJoinedEffect DEF Moved, Procs, TypeOK
<1>3. LostInv' /\ OneRoomInv' /\ ShownInv' /\ RosterInv'
  BY <1>1, <1>2, LoseJoinedEffect, RoomAssumption, OrdinaryStep DEF Owing, At, Leaving, Moved,
       Procs, Of, RosterInv, ConnInv, ConnAt
<1>4. ConnInv'
  <2>1. s \in Conns => ConnAt(s)'
    BY LoseJoinedEffect DEF ConnInv, ConnAt, At, Leaving, Moved, Procs, Joining, TypeOK
  <2>2. ReadAt(s)'
    BY LoseJoinedEffect, RoomAssumption DEF ConnInv, ConnAt, ReadAt, ChannelOf, Of, Recorded, Live,
         At, Leaving, Moved, Procs, Joining, TypeOK
  <2> QED
    BY <1>1, <2>1, <2>2, LoseJoinedEffect, ConnFrame DEF Procs, ConnInv, ConnAt, TypeOK
<1>5. KeysInv'
  BY LoseJoinedEffect, KeysFrame DEF KeysInv
<1>6. SeatInv'
  <2>1. s \in Conns /\ ~course.janitor /\ ~course.torn => SeatAt(s)'
    BY LoseJoinedEffect, RoomAssumption DEF SeatInv, SeatAt, At, Leaving, Moved, Procs, Joining,
         TypeOK, ConnInv, ConnAt
  <2>2. \A x \in Conns : x # s /\ sfu'[x] = "live" =>
           /\ sfu[x] = "live"
           /\ x \in conns => x \in conns'
           /\ x \in conns /\ Room[x] \in members => Room[x] \in members'
    BY LoseJoinedEffect DEF TypeOK
  <2> QED
    BY <1>1, <2>1, <2>2, LoseJoinedEffect, SeatFrame DEF Procs
<1>7. PointerInv'
  BY <1>1, LoseJoinedEffect, PointerFrame DEF TypeOK
<1>8. AnnouncedInv'
  <2>1. /\ Calm /\ s \in Conns /\ joinedAt = s /\ proc[s].pc \in Announces
        /\ Room[s] \in members' /\ shown'[Room[s]] = "out"
        => \/ proc'[s].pc \in Announces
           \/ <<"joined", s>> \in lost' \/ <<"capped", s>> \in lost'
    BY <1>1, LoseJoinedEffect, RoomAssumption, NoneAssumption DEF Announces, Moved, TypeOK, Joining
  <2> QED
    BY <1>1, <2>1, LoseJoinedEffect, AnnouncedMove DEF Procs
<1> QED
  BY <1>1, <1>3, <1>4, <1>5, <1>6, <1>7, <1>8

LEMMA RefuseKeeps ==
    ASSUME Inv, NEW s \in Conns, Refuse(s)
    PROVE  Inv'
<1> USE DEF Inv
<1>1. TypeOK'
  BY RefuseEffect, RoomAssumption, NoneAssumption DEF TypeOK, Proc, Procs
<1>2. Ordinary
  <2>1. s \in Conns => Owing(s)' /\ (Answered(s) => Answered(s)') /\ ~At(s, "out")
    BY RefuseEffect, RoomAssumption DEF Owing, Answered, At, Leaving, Moved, Procs, ConnInv,
         ConnAt, TypeOK
  <2> QED
    BY <2>1, OrdinaryMove, RefuseEffect DEF Moved, Procs, TypeOK
<1>3. LostInv' /\ OneRoomInv' /\ ShownInv' /\ RosterInv'
  BY <1>1, <1>2, RefuseEffect, RoomAssumption, OrdinaryStep DEF Owing, At, Leaving, Moved, Procs,
       Of, RosterInv, ConnInv, ConnAt
<1>4. ConnInv'
  <2>1. s \in Conns => ConnAt(s)'
    BY RefuseEffect DEF ConnInv, ConnAt, At, Leaving, Moved, Procs, TypeOK
  <2>2. ReadAt(s)'
    BY RefuseEffect, RoomAssumption DEF ConnInv, ConnAt, ReadAt, ChannelOf, Of, Recorded, Live, At,
         Leaving, Moved, Procs, TypeOK
  <2> QED
    BY <1>1, <2>1, <2>2, RefuseEffect, ConnFrame DEF Procs, ConnInv, ConnAt, TypeOK
<1>5. KeysInv'
  BY RefuseEffect, KeysFrame DEF TypeOK
<1>6. SeatInv'
  <2>1. s \in Conns /\ ~course.janitor /\ ~course.torn => SeatAt(s)'
    BY RefuseEffect, RoomAssumption DEF SeatInv, SeatAt, At, Leaving, Moved, Procs, TypeOK,
         ConnInv, ConnAt
  <2>2. \A x \in Conns : x # s /\ sfu'[x] = "live" =>
           /\ sfu[x] = "live"
           /\ x \in conns => x \in conns'
           /\ x \in conns /\ Room[x] \in members => Room[x] \in members'
    BY RefuseEffect DEF TypeOK
  <2> QED
    BY <1>1, <2>1, <2>2, RefuseEffect, SeatFrame DEF Procs
<1>7. PointerInv'
  BY <1>1, RefuseEffect, PointerFrame DEF TypeOK
<1>8. AnnouncedInv'
  <2>1. /\ Calm /\ s \in Conns /\ joinedAt = s /\ proc[s].pc \in Announces
        /\ Room[s] \in members' /\ shown'[Room[s]] = "out"
        => \/ proc'[s].pc \in Announces
           \/ <<"joined", s>> \in lost' \/ <<"capped", s>> \in lost'
    BY <1>1, RefuseEffect, RoomAssumption, NoneAssumption DEF Announces, Moved, TypeOK
  <2> QED
    BY <1>1, <2>1, RefuseEffect, AnnouncedMove DEF Procs
<1> QED
  BY <1>1, <1>3, <1>4, <1>5, <1>6, <1>7, <1>8

LEMMA RecordKeeps ==
    ASSUME Inv, NEW s \in Conns, Record(s)
    PROVE  Inv'
<1> USE DEF Inv
<1>1. TypeOK'
  BY RecordEffect, RoomAssumption, NoneAssumption DEF TypeOK, Proc, Procs
<1>2. Ordinary
  <2>1. s \in Conns => Owing(s)' /\ (Answered(s) => Answered(s)') /\ ~At(s, "out")
    BY RecordEffect, RoomAssumption DEF Owing, Answered, At, Leaving, Moved, Procs, ConnInv,
         ConnAt, TypeOK
  <2> QED
    BY <2>1, OrdinaryMove, RecordEffect DEF Moved, Procs, TypeOK
<1>3. LostInv' /\ OneRoomInv' /\ ShownInv' /\ RosterInv'
  <2>0. Owing(s)'
    BY RecordEffect DEF Owing, Moved, At, Leaving
  <2>1. LostInv' /\ OneRoomInv'
    BY <1>1, <1>2, RecordEffect, <2>0, OrdinaryLost, OrdinaryOneRoom DEF TypeOK
  <2>2. ShownInv'
    BY <1>1, <1>2, RecordEffect, <2>0, OrdinaryShown
  <2>3. ASSUME NEW c \in members'
        PROVE  /\ c \in entries' /\ c \in members
               /\ \/ \E y \in Of(c) : Owing(y)'
                  \/ Recorded(c)' = Recorded(c)
    <3>1. c \in entries' /\ c \in members
      BY RecordEffect DEF RosterInv
    <3>2. CASE c = Room[s]
      BY <2>0, <3>1, <3>2 DEF Of
    <3>3. CASE c # Room[s]
      BY <3>1, <3>3, RecordEffect DEF Recorded, Of
    <3> QED
      BY <3>2, <3>3
  <2> QED
    BY <1>1, <1>2, <2>1, <2>2, <2>3, OrdinaryRoster
<1>4. ConnInv'
  <2>1. s \in Conns => ConnAt(s)'
    BY RecordEffect DEF ConnInv, ConnAt, At, Leaving, Moved, Procs, TypeOK
  <2>2. ReadAt(s)'
    BY RecordEffect, RoomAssumption DEF ConnInv, ConnAt, ReadAt, ChannelOf, Of, Recorded, Live, At,
         Leaving, Moved, Procs, TypeOK
  <2> QED
    BY <1>1, <2>1, <2>2, RecordEffect, ConnFrame DEF Procs, ConnInv, ConnAt, TypeOK
<1>5. KeysInv'
  BY RecordEffect, KeysFrame DEF KeysInv
<1>6. SeatInv'
  <2>1. s \in Conns /\ ~course.janitor /\ ~course.torn => SeatAt(s)'
    BY RecordEffect, RoomAssumption DEF SeatInv, SeatAt, At, Leaving, Moved, Procs, TypeOK,
         ConnInv, ConnAt
  <2>2. \A x \in Conns : x # s /\ sfu'[x] = "live" =>
           /\ sfu[x] = "live"
           /\ x \in conns => x \in conns'
           /\ x \in conns /\ Room[x] \in members => Room[x] \in members'
    BY RecordEffect DEF TypeOK
  <2> QED
    BY <1>1, <2>1, <2>2, RecordEffect, SeatFrame DEF Procs
<1>7. PointerInv'
  BY <1>1, RecordEffect, PointerFrame DEF TypeOK
<1>8. AnnouncedInv'
  <2>1. /\ Calm /\ s \in Conns /\ joinedAt = s /\ proc[s].pc \in Announces
        /\ Room[s] \in members' /\ shown'[Room[s]] = "out"
        => \/ proc'[s].pc \in Announces
           \/ <<"joined", s>> \in lost' \/ <<"capped", s>> \in lost'
    BY <1>1, RecordEffect, RoomAssumption, NoneAssumption DEF Announces, Moved, TypeOK
  <2> QED
    BY <1>1, <2>1, RecordEffect, AnnouncedMove DEF Procs
<1> QED
  BY <1>1, <1>3, <1>4, <1>5, <1>6, <1>7, <1>8

LEMMA ReadRecordedKeeps ==
    ASSUME Inv, NEW s \in Conns, ReadRecorded(s)
    PROVE  Inv'
<1> USE DEF Inv
<1>1. TypeOK'
  BY ReadRecordedEffect, RoomAssumption, NoneAssumption DEF TypeOK, Proc, Procs
<1>2. Ordinary
  <2>1. s \in Conns => Owing(s)' /\ (Answered(s) => Answered(s)') /\ ~At(s, "out")
    BY ReadRecordedEffect, RoomAssumption DEF Owing, Answered, At, Leaving, Moved, Procs, ConnInv,
         ConnAt, TypeOK
  <2> QED
    BY <2>1, OrdinaryMove, ReadRecordedEffect DEF Moved, Procs, TypeOK
<1>3. LostInv' /\ OneRoomInv' /\ ShownInv' /\ RosterInv'
  BY <1>1, <1>2, ReadRecordedEffect, RoomAssumption, OrdinaryStep DEF Owing, At, Leaving, Moved,
       Procs, Of, RosterInv, ConnInv, ConnAt
<1>4. ConnInv'
  <2>1. s \in Conns => ConnAt(s)'
    BY ReadRecordedEffect DEF ConnInv, ConnAt, At, Leaving, Moved, Procs, TypeOK
  <2>2. ReadAt(s)'
    BY ReadRecordedEffect, RoomAssumption DEF ConnInv, ConnAt, ReadAt, ChannelOf, Of, Recorded,
         Live, At, Leaving, Moved, Procs, TypeOK
  <2> QED
    BY <1>1, <2>1, <2>2, ReadRecordedEffect, ConnFrame DEF Procs, ConnInv, ConnAt, TypeOK
<1>5. KeysInv'
  BY ReadRecordedEffect, KeysFrame DEF KeysInv
<1>6. SeatInv'
  <2>1. s \in Conns /\ ~course.janitor /\ ~course.torn => SeatAt(s)'
    BY ReadRecordedEffect, RoomAssumption DEF SeatInv, SeatAt, At, Leaving, Moved, Procs, TypeOK,
         ConnInv, ConnAt
  <2>2. \A x \in Conns : x # s /\ sfu'[x] = "live" =>
           /\ sfu[x] = "live"
           /\ x \in conns => x \in conns'
           /\ x \in conns /\ Room[x] \in members => Room[x] \in members'
    BY ReadRecordedEffect DEF TypeOK
  <2> QED
    BY <1>1, <2>1, <2>2, ReadRecordedEffect, SeatFrame DEF Procs
<1>7. PointerInv'
  BY <1>1, ReadRecordedEffect, PointerFrame DEF TypeOK
<1>8. AnnouncedInv'
  <2>1. /\ Calm /\ s \in Conns /\ joinedAt = s /\ proc[s].pc \in Announces
        /\ Room[s] \in members' /\ shown'[Room[s]] = "out"
        => \/ proc'[s].pc \in Announces
           \/ <<"joined", s>> \in lost' \/ <<"capped", s>> \in lost'
    BY <1>1, ReadRecordedEffect, RoomAssumption, NoneAssumption DEF Announces, Moved, TypeOK
  <2> QED
    BY <1>1, <2>1, ReadRecordedEffect, AnnouncedMove DEF Procs
<1> QED
  BY <1>1, <1>3, <1>4, <1>5, <1>6, <1>7, <1>8

LEMMA ReadStateKeeps ==
    ASSUME Inv, NEW s \in Conns, ReadState(s)
    PROVE  Inv'
<1> USE DEF Inv
<1>1. TypeOK'
  BY ReadStateEffect, RoomAssumption, NoneAssumption DEF TypeOK, Proc, Procs
<1>2. Ordinary
  <2>1. s \in Conns => Owing(s)' /\ (Answered(s) => Answered(s)') /\ ~At(s, "out")
    BY ReadStateEffect, RoomAssumption DEF Owing, Answered, At, Leaving, Moved, Procs, RetriedJoin,
         ConnInv, ConnAt, TypeOK
  <2> QED
    BY <2>1, OrdinaryMove, ReadStateEffect DEF Moved, Procs, TypeOK
<1>3. LostInv' /\ OneRoomInv' /\ ShownInv' /\ RosterInv'
  BY <1>1, <1>2, ReadStateEffect, RoomAssumption, OrdinaryStep DEF Owing, At, Leaving, Moved,
       Procs, Of, RosterInv, ConnInv, ConnAt
<1>4. ConnInv'
  <2>1. s \in Conns => ConnAt(s)'
    BY ReadStateEffect DEF ConnInv, ConnAt, At, Leaving, Moved, Procs, RetriedJoin, TypeOK
  <2>2. ReadAt(s)'
    BY ReadStateEffect, RoomAssumption DEF ConnInv, ConnAt, ReadAt, ChannelOf, Of, Recorded, Live,
         At, Leaving, Moved, Procs, RetriedJoin, TypeOK
  <2> QED
    BY <1>1, <2>1, <2>2, ReadStateEffect, ConnFrame DEF Procs, ConnInv, ConnAt, TypeOK
<1>5. KeysInv'
  BY ReadStateEffect, KeysFrame DEF KeysInv
<1>6. SeatInv'
  <2>1. s \in Conns /\ ~course.janitor /\ ~course.torn => SeatAt(s)'
    BY ReadStateEffect, RoomAssumption DEF SeatInv, SeatAt, At, Leaving, Moved, Procs, RetriedJoin,
         TypeOK, ConnInv, ConnAt
  <2>2. \A x \in Conns : x # s /\ sfu'[x] = "live" =>
           /\ sfu[x] = "live"
           /\ x \in conns => x \in conns'
           /\ x \in conns /\ Room[x] \in members => Room[x] \in members'
    BY ReadStateEffect DEF TypeOK
  <2> QED
    BY <1>1, <2>1, <2>2, ReadStateEffect, SeatFrame DEF Procs
<1>7. PointerInv'
  BY <1>1, ReadStateEffect, PointerFrame DEF TypeOK
<1>8. AnnouncedInv'
  <2>1. /\ Calm /\ s \in Conns /\ joinedAt = s /\ proc[s].pc \in Announces
        /\ Room[s] \in members' /\ shown'[Room[s]] = "out"
        => \/ proc'[s].pc \in Announces
           \/ <<"joined", s>> \in lost' \/ <<"capped", s>> \in lost'
    BY <1>1, ReadStateEffect, RoomAssumption, NoneAssumption DEF Announces, Moved, TypeOK,
         RetriedJoin
  <2> QED
    BY <1>1, <2>1, ReadStateEffect, AnnouncedMove DEF Procs
<1> QED
  BY <1>1, <1>3, <1>4, <1>5, <1>6, <1>7, <1>8

LEMMA CreateKeysKeeps ==
    ASSUME Inv, NEW s \in Conns, CreateKeys(s)
    PROVE  Inv'
<1> USE DEF Inv
<1>1. TypeOK'
  BY CreateKeysEffect, RoomAssumption, NoneAssumption DEF TypeOK, Proc, Procs
<1>2. Ordinary
  <2>1. s \in Conns => Owing(s)' /\ (Answered(s) => Answered(s)') /\ ~At(s, "out")
    BY CreateKeysEffect, RoomAssumption DEF Owing, Answered, At, Leaving, Moved, Procs, ConnInv,
         ConnAt, TypeOK
  <2> QED
    BY <2>1, OrdinaryMove, CreateKeysEffect DEF Moved, Procs, TypeOK
<1>3. LostInv' /\ OneRoomInv' /\ ShownInv' /\ RosterInv'
  BY <1>1, <1>2, CreateKeysEffect, RoomAssumption, OrdinaryStep DEF Owing, At, Leaving, Moved,
       Procs, Of, RosterInv, ConnInv, ConnAt
<1>4. ConnInv'
  <2>1. s \in Conns => ConnAt(s)'
    BY CreateKeysEffect DEF ConnInv, ConnAt, At, Leaving, Moved, Procs, TypeOK
  <2>2. ReadAt(s)'
    BY CreateKeysEffect, RoomAssumption DEF ConnInv, ConnAt, ReadAt, ChannelOf, Of, Recorded, Live,
         At, Leaving, Moved, Procs, TypeOK
  <2> QED
    BY <1>1, <2>1, <2>2, CreateKeysEffect, ConnFrame DEF Procs, ConnInv, ConnAt, TypeOK
<1>5. KeysInv'
  BY CreateKeysEffect, RoomAssumption, NoneAssumption DEF KeysInv, ConnInv, ConnAt, At
<1>6. SeatInv'
  <2>1. s \in Conns /\ ~course.janitor /\ ~course.torn => SeatAt(s)'
    BY CreateKeysEffect, RoomAssumption DEF SeatInv, SeatAt, At, Leaving, Moved, Procs, TypeOK,
         ConnInv, ConnAt
  <2>2. \A x \in Conns : x # s /\ sfu'[x] = "live" =>
           /\ sfu[x] = "live"
           /\ x \in conns => x \in conns'
           /\ x \in conns /\ Room[x] \in members => Room[x] \in members'
    BY CreateKeysEffect DEF TypeOK
  <2> QED
    BY <1>1, <2>1, <2>2, CreateKeysEffect, SeatFrame DEF Procs
<1>7. PointerInv'
  <2> SUFFICES ASSUME Calm, NEW c \in members', c # Room[s]
               PROVE  s \in Conns \ Of(c) /\ sfu'[s] # "new" /\ Live(c) = {}
    BY CreateKeysEffect DEF PointerInv, Calm, Live, Of
  <2>1. sfu[s] # "new" /\ ~Answered(s)
    BY CreateKeysEffect DEF Answered, Leaving, ConnInv, ConnAt, At
  <2>2. \A t \in Conns : Room[t] = c => sfu[t] # "live"
    BY <2>1 DEF OneRoomInv, Calm
  <2> QED
    BY <2>1, <2>2, CreateKeysEffect DEF Live, Of
<1>8. AnnouncedInv'
  <2>1. ~course.torn => s \in Of(Room[s]) /\ proc'[s].pc \in Announces
    BY CreateKeysEffect DEF Of, Announces, Moved
  <2>2. Joins(s)
    BY CreateKeysEffect DEF Joins, Answered, Leaving, ConnInv, ConnAt, At
  <2>3. ASSUME NEW x \in Conns, Calm, joinedAt = x, proc[x].pc \in Announces
        PROVE  Room[x] = Room[s]
    <3>1. Joins(x)
      BY <2>3, NoneAssumption DEF Joins, Answered, Leaving, Announces, KeysInv
    <3> QED
      BY <2>2, <2>3, <3>1 DEF OneRoomInv, Calm
  <2>4. ASSUME course.torn PROVE ~Calm
    BY <2>4 DEF Calm
  <2>5. CASE course.torn
    BY <2>5, CreateKeysEffect DEF AnnouncedInv, Calm
  <2>6. CASE ~course.torn
    BY <1>1, <2>1, <2>3, <2>6, CreateKeysEffect, AnnouncedFrame
  <2> QED
    BY <2>5, <2>6
<1> QED
  BY <1>1, <1>3, <1>4, <1>5, <1>6, <1>7, <1>8

LEMMA CreateRosterKeeps ==
    ASSUME Inv, NEW s \in Conns, CreateRoster(s)
    PROVE  Inv'
<1> USE DEF Inv
<1>1. TypeOK'
  BY CreateRosterEffect, RoomAssumption, NoneAssumption DEF TypeOK, Proc, Procs
<1>2. Ordinary
  <2>1. s \in Conns => Owing(s)' /\ (Answered(s) => Answered(s)') /\ ~At(s, "out")
    BY CreateRosterEffect, RoomAssumption DEF Owing, Answered, At, Leaving, Moved, Procs, ConnInv,
         ConnAt, TypeOK
  <2> QED
    BY <2>1, OrdinaryMove, CreateRosterEffect DEF Moved, Procs, TypeOK
<1>3. LostInv' /\ OneRoomInv' /\ ShownInv' /\ RosterInv'
  BY <1>1, <1>2, CreateRosterEffect, RoomAssumption, OrdinaryStep DEF Owing, At, Leaving, Moved,
       Procs, Of, RosterInv, ConnInv, ConnAt
<1>4. ConnInv'
  <2>1. s \in Conns => ConnAt(s)'
    BY CreateRosterEffect DEF ConnInv, ConnAt, At, Leaving, Moved, Procs, TypeOK
  <2>2. ReadAt(s)'
    BY CreateRosterEffect, RoomAssumption DEF ConnInv, ConnAt, ReadAt, ChannelOf, Of, Recorded,
         Live, At, Leaving, Moved, Procs, TypeOK
  <2> QED
    BY <1>1, <2>1, <2>2, CreateRosterEffect, ConnFrame DEF Procs, ConnInv, ConnAt, TypeOK
<1>5. KeysInv'
  BY CreateRosterEffect, KeysFrame DEF KeysInv
<1>6. SeatInv'
  <2>1. s \in Conns /\ ~course.janitor /\ ~course.torn => SeatAt(s)'
    BY CreateRosterEffect, RoomAssumption DEF SeatInv, SeatAt, At, Leaving, Moved, Procs, TypeOK,
         ConnInv, ConnAt
  <2>2. \A x \in Conns : x # s /\ sfu'[x] = "live" =>
           /\ sfu[x] = "live"
           /\ x \in conns => x \in conns'
           /\ x \in conns /\ Room[x] \in members => Room[x] \in members'
    BY CreateRosterEffect DEF TypeOK
  <2> QED
    BY <1>1, <2>1, <2>2, CreateRosterEffect, SeatFrame DEF Procs
<1>7. PointerInv'
  BY CreateRosterEffect DEF PointerInv, Calm, SeatInv, SeatAt, At
<1>8. AnnouncedInv'
  BY CreateRosterEffect DEF AnnouncedInv, Calm, SeatInv, SeatAt, At
<1> QED
  BY <1>1, <1>3, <1>4, <1>5, <1>6, <1>7, <1>8

LEMMA OverCapKeeps ==
    ASSUME Inv, NEW s \in Conns, OverCap(s)
    PROVE  Inv'
<1> USE DEF Inv
<1>1. TypeOK'
  BY OverCapEffect, RoomAssumption, NoneAssumption DEF TypeOK, Proc, Procs
<1>2. Ordinary
  <2>1. Owing(s)' /\ (Answered(s) => Answered(s)') /\ ~At(s, "out") /\ sfu[s] # "new"
    BY OverCapEffect DEF Owing, Answered, At, Leaving, Moved, ConnInv, ConnAt
  <2>2. \A x \in Conns : /\ sfu[x] = "new" <=> sfu'[x] = "new"
                         /\ sfu[x] = "gone" => sfu'[x] = "gone"
    BY <2>1, OverCapEffect
  <2> QED
    BY <2>1, <2>2, OverCapEffect, OrdinaryMove DEF Moved, Procs
<1>3. LostInv' /\ OneRoomInv' /\ ShownInv' /\ RosterInv'
  BY <1>1, <1>2, OverCapEffect, RoomAssumption, OrdinaryStep DEF Owing, At, Leaving, Moved, Procs,
       Of, RosterInv, ConnInv, ConnAt
<1>4. ConnInv'
  <2>1. s \in Conns => ConnAt(s)'
    BY OverCapEffect DEF ConnInv, ConnAt, At, Leaving, Moved, Procs, TypeOK
  <2>2. ReadAt(s)'
    BY OverCapEffect, RoomAssumption DEF ConnInv, ConnAt, ReadAt, ChannelOf, Of, Recorded, Live,
         At, Leaving, Moved, Procs, TypeOK
  <2> QED
    BY <1>1, <2>1, <2>2, OverCapEffect, ConnFrame DEF Procs, ConnInv, ConnAt, TypeOK
<1>5. KeysInv'
  BY OverCapEffect, KeysFrame DEF TypeOK
<1>6. SeatInv'
  <2>1. s \in Conns /\ ~course.janitor /\ ~course.torn => SeatAt(s)'
    BY OverCapEffect, RoomAssumption DEF SeatInv, SeatAt, At, Leaving, Moved, Procs, TypeOK,
         ConnInv, ConnAt
  <2>2. \A x \in Conns : x # s /\ sfu'[x] = "live" =>
           /\ sfu[x] = "live"
           /\ x \in conns => x \in conns'
           /\ x \in conns /\ Room[x] \in members => Room[x] \in members'
    BY OverCapEffect DEF TypeOK
  <2> QED
    BY <1>1, <2>1, <2>2, OverCapEffect, SeatFrame DEF Procs
<1>7. PointerInv'
  BY <1>1, OverCapEffect, PointerFrame DEF TypeOK
<1>8. AnnouncedInv'
  <2>1. /\ Calm /\ s \in Conns /\ joinedAt = s /\ proc[s].pc \in Announces
        /\ Room[s] \in members' /\ shown'[Room[s]] = "out"
        => \/ proc'[s].pc \in Announces
           \/ <<"joined", s>> \in lost' \/ <<"capped", s>> \in lost'
    BY <1>1, OverCapEffect, RoomAssumption, NoneAssumption DEF Announces, Moved, TypeOK
  <2> QED
    BY <1>1, <2>1, OverCapEffect, AnnouncedMove DEF Procs
<1> QED
  BY <1>1, <1>3, <1>4, <1>5, <1>6, <1>7, <1>8

LEMMA DropKeeps ==
    ASSUME Inv, NEW s \in Conns, Drop(s)
    PROVE  Inv'
<1> USE DEF Inv
<1>deletes. /\ conns' = conns \ {s} /\ {s} \subseteq Of(Room[s])
            /\ members' \subseteq members /\ entries' \subseteq entries
            /\ \A x \in members' : x \in entries'
            /\ \A x \in Channels : x # Room[s] => Recorded(x)' = Recorded(x)
            /\ Recorded(Room[s])' = Recorded(Room[s]) \ {s}
            /\ \/ Survives(Room[s], {s}) /\ UNCHANGED <<members, entries, pointer, joinedAt>>
               \/ /\ ~Survives(Room[s], {s}) /\ Room[s] \notin members'
                  /\ \/ UNCHANGED <<pointer, joinedAt>>
                     \/ pointer \in {None, Room[s]} /\ pointer' = None /\ joinedAt' = None
            /\ \A x \in members' : pointer = x => pointer' = x
            /\ pointer' \in {pointer, None} /\ joinedAt' \in {joinedAt, None}
            /\ \A x \in Conns \ {s} : x \in conns =>
                  x \in conns' /\ (Room[x] \in members => Room[x] \in members')
  <2>1. Room[s] \in Channels /\ {s} \in SUBSET Of(Room[s])
    BY DropEffect, RoomAssumption DEF Of, ConnInv, ReadAt, Procs, ChannelOf
  <2>2. DeleteConnections(Room[s], {s})
    BY DropEffect
  <2>3. \A x \in members' : x \in members => x \in entries
    BY DEF RosterInv
  <2> QED
    BY <2>1, <2>2, <2>3, DeletesEffect
<1>1. TypeOK'
  BY DropEffect, <1>deletes, RoomAssumption, NoneAssumption DEF TypeOK, Proc, Procs
<1>2. Ordinary
  <2>1. s \in Conns => Owing(s)' /\ (Answered(s) => Answered(s)') /\ ~At(s, "out")
    BY DropEffect, RoomAssumption DEF Owing, Answered, At, Leaving, Moved, Procs, ConnInv, ConnAt,
         TypeOK
  <2> QED
    BY <2>1, OrdinaryMove, DropEffect DEF Moved, Procs, TypeOK
<1>3. LostInv' /\ OneRoomInv' /\ ShownInv' /\ RosterInv'
  <2>1. LostInv' /\ OneRoomInv'
    BY <1>1, <1>2, <1>deletes, DropEffect, OrdinaryLost, OrdinaryOneRoom DEF TypeOK
  <2>2. ShownInv'
    BY <1>1, <1>2, <1>deletes, DropEffect, OrdinaryShown
  <2>3. ASSUME NEW c \in members'
        PROVE  /\ c \in entries' /\ c \in members
               /\ Recorded(c)' \subseteq Recorded(c)
               /\ Recorded(c) # {} => Recorded(c)' # {}
    <3>1. c \in Channels
      BY <1>1 DEF TypeOK
    <3>2. CASE c = Room[s]
      BY <1>deletes, <3>2 DEF Survives
    <3> QED
      BY <1>deletes, <3>1, <3>2
  <2> QED
    BY <1>1, <1>2, <2>1, <2>2, <2>3, OrdinaryRoster
<1>4. ConnInv'
  <2>1. s \in Conns => ConnAt(s)'
    BY DropEffect, <1>deletes DEF ConnInv, ConnAt, At, Leaving, Moved, Procs, TypeOK
  <2>2. ReadAt(s)'
    BY DropEffect, <1>deletes, RoomAssumption DEF ConnInv, ConnAt, ReadAt, ChannelOf, Of, Recorded, Live,
         At, Leaving, Moved, Procs, TypeOK
  <2> QED
    BY <1>1, <2>1, <2>2, DropEffect, <1>deletes, ConnFrame DEF Procs, ConnInv, ConnAt, TypeOK
<1>5. KeysInv'
  BY DropEffect, <1>deletes, KeysFrame DEF KeysInv
<1>6. SeatInv'
  <2>1. s \in Conns /\ ~course.janitor /\ ~course.torn => SeatAt(s)'
    BY DropEffect, <1>deletes, RoomAssumption DEF SeatInv, SeatAt, At, Leaving, Moved, Procs, TypeOK,
         ConnInv, ConnAt
  <2>2. \A x \in Conns : x # s /\ sfu'[x] = "live" =>
           /\ sfu[x] = "live"
           /\ x \in conns => x \in conns'
           /\ x \in conns /\ Room[x] \in members => Room[x] \in members'
    BY DropEffect, <1>deletes DEF TypeOK
  <2> QED
    BY <1>1, <2>1, <2>2, DropEffect, SeatFrame DEF Procs
<1>7. PointerInv'
  BY <1>1, DropEffect, <1>deletes, PointerFrame DEF TypeOK
<1>8. AnnouncedInv'
  <2>1. /\ Calm /\ s \in Conns /\ joinedAt = s /\ proc[s].pc \in Announces
        /\ Room[s] \in members' /\ shown'[Room[s]] = "out"
        => \/ proc'[s].pc \in Announces
           \/ <<"joined", s>> \in lost' \/ <<"capped", s>> \in lost'
    BY <1>1, DropEffect, <1>deletes, RoomAssumption, NoneAssumption DEF Announces, Moved, TypeOK
  <2>2. \A x \in Conns : joinedAt = x /\ Room[x] \in members' => joinedAt' = x
    BY <1>deletes, NoneAssumption, RoomAssumption DEF KeysInv
  <2> QED
    BY <1>1, <2>1, <2>2, DropEffect, <1>deletes, AnnouncedMove DEF Procs
<1> QED
  BY <1>1, <1>3, <1>4, <1>5, <1>6, <1>7, <1>8

LEMMA AnnounceKeeps ==
    ASSUME Inv, NEW s \in Conns, Announce(s)
    PROVE  Inv'
<1> USE DEF Inv
<1>1. TypeOK'
  BY AnnounceEffect, RoomAssumption, NoneAssumption DEF TypeOK, Proc, Procs, Of, Leave, ChannelOf
<1>2. Ordinary
  <2>1. s \in Conns => Owing(s)' /\ (Answered(s) => Answered(s)') /\ ~At(s, "out")
    BY AnnounceEffect, RoomAssumption DEF Owing, Answered, At, Leaving, Moved, Procs, ConnInv,
         ConnAt, TypeOK
  <2> QED
    BY <2>1, OrdinaryMove, AnnounceEffect DEF Moved, Procs, TypeOK
<1>3. LostInv' /\ OneRoomInv' /\ ShownInv' /\ RosterInv'
  <2>0. Owing(s)' /\ s \in Of(Room[s])
    BY AnnounceEffect DEF Owing, Moved, At, Leaving, ConnInv, ConnAt, Of
  <2>1. LostInv' /\ OneRoomInv'
    BY <1>1, <1>2, AnnounceEffect, <2>0, OrdinaryLost, OrdinaryOneRoom DEF TypeOK
  <2>2. ShownInv'
    BY <1>1, <1>2, AnnounceEffect, <2>0, OrdinaryShown DEF TypeOK
  <2>3. ASSUME NEW c \in members' PROVE c \in entries' /\ c \in members /\ Recorded(c)' = Recorded(c)
    BY AnnounceEffect DEF RosterInv, Recorded
  <2> QED
    BY <1>1, <1>2, <2>1, <2>2, <2>3, OrdinaryRoster
<1>4. ConnInv'
  <2>1. s \in Conns => ConnAt(s)'
    BY AnnounceEffect DEF ConnInv, ConnAt, At, Leaving, Moved, Procs, TypeOK
  <2>2. ReadAt(s)'
    BY AnnounceEffect, RoomAssumption DEF ConnInv, ConnAt, ReadAt, ChannelOf, Of, Recorded, Live,
         At, Leaving, Moved, Procs, TypeOK
  <2> QED
    BY <1>1, <2>1, <2>2, AnnounceEffect, ConnFrame DEF Procs, ConnInv, ConnAt, TypeOK
<1>5. KeysInv'
  BY AnnounceEffect, KeysFrame DEF KeysInv
<1>6. SeatInv'
  <2>1. s \in Conns /\ ~course.janitor /\ ~course.torn => SeatAt(s)'
    BY AnnounceEffect, RoomAssumption DEF SeatInv, SeatAt, At, Leaving, Moved, Procs, TypeOK,
         ConnInv, ConnAt
  <2>2. \A x \in Conns : x # s /\ sfu'[x] = "live" =>
           /\ sfu[x] = "live"
           /\ x \in conns => x \in conns'
           /\ x \in conns /\ Room[x] \in members => Room[x] \in members'
    BY AnnounceEffect DEF TypeOK
  <2> QED
    BY <1>1, <2>1, <2>2, AnnounceEffect, SeatFrame DEF Procs
<1>7. PointerInv'
  BY <1>1, AnnounceEffect, PointerFrame DEF TypeOK
<1>8. AnnouncedInv'
  <2>1. /\ Calm /\ s \in Conns /\ joinedAt = s /\ proc[s].pc \in Announces
        /\ Room[s] \in members' /\ shown'[Room[s]] = "out"
        => \/ proc'[s].pc \in Announces
           \/ <<"joined", s>> \in lost' \/ <<"capped", s>> \in lost'
    BY <1>1, AnnounceEffect, RoomAssumption, NoneAssumption DEF Announces, Moved, TypeOK
  <2> QED
    BY <1>1, <2>1, AnnounceEffect, AnnouncedMove DEF Procs, TypeOK, Leave
<1> QED
  BY <1>1, <1>3, <1>4, <1>5, <1>6, <1>7, <1>8

LEMMA RemoveReadKeeps ==
    ASSUME Inv, NEW s \in Procs, RemoveRead(s)
    PROVE  Inv'
<1> USE DEF Inv
<1>1. TypeOK'
  BY RemoveReadEffect, RoomAssumption, NoneAssumption DEF TypeOK, Proc, Procs
<1>2. Ordinary
  <2>1. s \in Conns => Owing(s)' /\ (Answered(s) => Answered(s)') /\ ~At(s, "out")
    BY RemoveReadEffect, RoomAssumption DEF Owing, Answered, At, Leaving, Moved, Procs, ChannelOf,
         ConnInv, ConnAt, TypeOK
  <2> QED
    BY <2>1, OrdinaryMove, RemoveReadEffect DEF Moved, Procs, TypeOK
<1>3. LostInv' /\ OneRoomInv' /\ ShownInv' /\ RosterInv'
  BY <1>1, <1>2, RemoveReadEffect, RoomAssumption, OrdinaryStep DEF Owing, At, Leaving, Moved,
       Procs, Of, RosterInv, ConnInv, ConnAt
<1>4. ConnInv'
  <2>1. s \in Conns => ConnAt(s)'
    BY RemoveReadEffect DEF ConnInv, ConnAt, At, Leaving, Moved, Procs, ChannelOf, TypeOK
  <2>2. ReadAt(s)'
    BY RemoveReadEffect, RoomAssumption DEF ConnInv, ConnAt, ReadAt, ChannelOf, Of, Recorded, Live,
         At, Leaving, Moved, Procs, TypeOK
  <2> QED
    BY <1>1, <2>1, <2>2, RemoveReadEffect, ConnFrame DEF Procs, ConnInv, ConnAt, TypeOK
<1>5. KeysInv'
  BY RemoveReadEffect, KeysFrame DEF KeysInv
<1>6. SeatInv'
  <2>1. s \in Conns /\ ~course.janitor /\ ~course.torn => SeatAt(s)'
    BY RemoveReadEffect, RoomAssumption DEF SeatInv, SeatAt, At, Leaving, Moved, Procs, ChannelOf,
         TypeOK, ConnInv, ConnAt
  <2>2. \A x \in Conns : x # s /\ sfu'[x] = "live" =>
           /\ sfu[x] = "live"
           /\ x \in conns => x \in conns'
           /\ x \in conns /\ Room[x] \in members => Room[x] \in members'
    BY RemoveReadEffect DEF TypeOK
  <2> QED
    BY <1>1, <2>1, <2>2, RemoveReadEffect, SeatFrame DEF Procs
<1>7. PointerInv'
  BY <1>1, RemoveReadEffect, PointerFrame DEF TypeOK
<1>8. AnnouncedInv'
  <2>1. /\ Calm /\ s \in Conns /\ joinedAt = s /\ proc[s].pc \in Announces
        /\ Room[s] \in members' /\ shown'[Room[s]] = "out"
        => \/ proc'[s].pc \in Announces
           \/ <<"joined", s>> \in lost' \/ <<"capped", s>> \in lost'
    BY <1>1, RemoveReadEffect, RoomAssumption, NoneAssumption DEF Announces, Moved, TypeOK,
         ChannelOf
  <2> QED
    BY <1>1, <2>1, RemoveReadEffect, AnnouncedMove DEF Procs
<1> QED
  BY <1>1, <1>3, <1>4, <1>5, <1>6, <1>7, <1>8

LEMMA RemoveHoldsKeeps ==
    ASSUME Inv, NEW s \in Procs, RemoveHolds(s)
    PROVE  Inv'
<1> USE DEF Inv
<1>1. TypeOK'
  BY RemoveHoldsEffect, RoomAssumption, NoneAssumption DEF TypeOK, Proc, Procs
<1>2. Ordinary
  <2>1. s \in Conns => Owing(s)' /\ (Answered(s) => Answered(s)') /\ ~At(s, "out")
    BY RemoveHoldsEffect, RoomAssumption DEF Owing, Answered, At, Leaving, Moved, Procs, ChannelOf,
         ConnInv, ConnAt, TypeOK
  <2> QED
    BY <2>1, OrdinaryMove, RemoveHoldsEffect DEF Moved, Procs, TypeOK
<1>3. LostInv' /\ OneRoomInv' /\ ShownInv' /\ RosterInv'
  BY <1>1, <1>2, RemoveHoldsEffect, RoomAssumption, OrdinaryStep DEF Owing, At, Leaving, Moved,
       Procs, Of, RosterInv, ConnInv, ConnAt
<1>4. ConnInv'
  <2>1. s \in Conns => ConnAt(s)'
    BY RemoveHoldsEffect DEF ConnInv, ConnAt, At, Leaving, Moved, Procs, ChannelOf, TypeOK
  <2>2. ReadAt(s)'
    BY RemoveHoldsEffect, RoomAssumption DEF ConnInv, ConnAt, ReadAt, ChannelOf, Of, Recorded,
         Live, At, Leaving, Moved, Procs, TypeOK
  <2> QED
    BY <1>1, <2>1, <2>2, RemoveHoldsEffect, ConnFrame DEF Procs, ConnInv, ConnAt, TypeOK
<1>5. KeysInv'
  BY RemoveHoldsEffect, KeysFrame DEF KeysInv
<1>6. SeatInv'
  <2>1. s \in Conns /\ ~course.janitor /\ ~course.torn => SeatAt(s)'
    BY RemoveHoldsEffect, RoomAssumption DEF SeatInv, SeatAt, At, Leaving, Moved, Procs, ChannelOf,
         TypeOK, ConnInv, ConnAt
  <2>2. \A x \in Conns : x # s /\ sfu'[x] = "live" =>
           /\ sfu[x] = "live"
           /\ x \in conns => x \in conns'
           /\ x \in conns /\ Room[x] \in members => Room[x] \in members'
    BY RemoveHoldsEffect DEF TypeOK
  <2> QED
    BY <1>1, <2>1, <2>2, RemoveHoldsEffect, SeatFrame DEF Procs
<1>7. PointerInv'
  BY <1>1, RemoveHoldsEffect, PointerFrame DEF TypeOK
<1>8. AnnouncedInv'
  <2>1. /\ Calm /\ s \in Conns /\ joinedAt = s /\ proc[s].pc \in Announces
        /\ Room[s] \in members' /\ shown'[Room[s]] = "out"
        => \/ proc'[s].pc \in Announces
           \/ <<"joined", s>> \in lost' \/ <<"capped", s>> \in lost'
    BY <1>1, RemoveHoldsEffect, RoomAssumption, NoneAssumption DEF Announces, Moved, TypeOK,
         ChannelOf
  <2> QED
    BY <1>1, <2>1, RemoveHoldsEffect, AnnouncedMove DEF Procs
<1> QED
  BY <1>1, <1>3, <1>4, <1>5, <1>6, <1>7, <1>8

LEMMA RemoveEvictKeeps ==
    ASSUME Inv, NEW s \in Procs, RemoveEvict(s)
    PROVE  Inv'
<1> USE DEF Inv
<1>1. TypeOK'
  BY RemoveEvictEffect, RoomAssumption, NoneAssumption DEF TypeOK, Proc, Procs
<1>2. Ordinary
  <2>1. s \in Conns => Owing(s)' /\ (Answered(s) => Answered(s)') /\ ~At(s, "out")
    BY RemoveEvictEffect, RoomAssumption DEF Owing, Answered, At, Leaving, Moved, Procs,
         RemoveDone, Live, ChannelOf, ConnInv, ConnAt, TypeOK
  <2> QED
    BY <2>1, OrdinaryMove, RemoveEvictEffect DEF Moved, Procs, TypeOK, Live
<1>3. LostInv' /\ OneRoomInv' /\ ShownInv' /\ RosterInv'
  BY <1>1, <1>2, RemoveEvictEffect, RoomAssumption, OrdinaryStep DEF Owing, At, Leaving, Moved,
       Procs, Of, RosterInv, ConnInv, ConnAt
<1>4. ConnInv'
  <2>1. s \in Conns => ConnAt(s)'
    BY RemoveEvictEffect DEF ConnInv, ConnAt, At, Leaving, Moved, Procs, RemoveDone, Live,
         ChannelOf, TypeOK
  <2>2. ReadAt(s)'
    BY RemoveEvictEffect, RoomAssumption DEF ConnInv, ConnAt, ReadAt, ChannelOf, Of, Recorded,
         Live, At, Leaving, Moved, Procs, RemoveDone, TypeOK
  <2> QED
    BY <1>1, <2>1, <2>2, RemoveEvictEffect, ConnFrame DEF Procs, ConnInv, ConnAt, TypeOK, Live
<1>5. KeysInv'
  BY RemoveEvictEffect, KeysFrame DEF TypeOK
<1>6. SeatInv'
  <2>1. s \in Conns /\ ~course.janitor /\ ~course.torn => SeatAt(s)'
    BY RemoveEvictEffect, RoomAssumption DEF SeatInv, SeatAt, At, Leaving, Moved, Procs,
         RemoveDone, Live, ChannelOf, TypeOK, ConnInv, ConnAt
  <2>2. \A x \in Conns : x # s /\ sfu'[x] = "live" =>
           /\ sfu[x] = "live"
           /\ x \in conns => x \in conns'
           /\ x \in conns /\ Room[x] \in members => Room[x] \in members'
    BY RemoveEvictEffect DEF TypeOK, Live
  <2> QED
    BY <1>1, <2>1, <2>2, RemoveEvictEffect, SeatFrame DEF Procs
<1>7. PointerInv'
  BY <1>1, RemoveEvictEffect, PointerFrame DEF TypeOK, Live
<1>8. AnnouncedInv'
  <2>1. /\ Calm /\ s \in Conns /\ joinedAt = s /\ proc[s].pc \in Announces
        /\ Room[s] \in members' /\ shown'[Room[s]] = "out"
        => \/ proc'[s].pc \in Announces
           \/ <<"joined", s>> \in lost' \/ <<"capped", s>> \in lost'
    BY <1>1, RemoveEvictEffect, RoomAssumption, NoneAssumption DEF Announces, Moved, TypeOK,
         RemoveDone, Live, ChannelOf
  <2> QED
    BY <1>1, <2>1, RemoveEvictEffect, AnnouncedMove DEF Procs
<1> QED
  BY <1>1, <1>3, <1>4, <1>5, <1>6, <1>7, <1>8

LEMMA RemoveFailsKeeps ==
    ASSUME Inv, NEW s \in Removable, RemoveFails(s)
    PROVE  Inv'
<1> USE DEF Inv
<1>1. TypeOK'
  BY RemoveFailsEffect, RoomAssumption, NoneAssumption DEF TypeOK, Proc, Procs
<1>2. Ordinary
  <2>1. s \in Conns => Owing(s)' /\ (Answered(s) => Answered(s)') /\ ~At(s, "out")
    BY RemoveFailsEffect, RoomAssumption DEF Owing, Answered, At, Leaving, Moved, Procs, ConnInv,
         ConnAt, TypeOK
  <2> QED
    BY <2>1, OrdinaryMove, RemoveFailsEffect DEF Moved, Procs, TypeOK
<1>3. LostInv' /\ OneRoomInv' /\ ShownInv' /\ RosterInv'
  BY <1>1, <1>2, RemoveFailsEffect, RoomAssumption, OrdinaryStep DEF Owing, At, Leaving, Moved,
       Procs, Of, RosterInv, ConnInv, ConnAt
<1>4. ConnInv'
  <2>1. s \in Conns => ConnAt(s)'
    BY RemoveFailsEffect DEF ConnInv, ConnAt, At, Leaving, Moved, Procs, TypeOK
  <2>2. ReadAt(s)'
    BY RemoveFailsEffect, RoomAssumption DEF ConnInv, ConnAt, ReadAt, ChannelOf, Of, Recorded,
         Live, At, Leaving, Moved, Procs, TypeOK
  <2> QED
    BY <1>1, <2>1, <2>2, RemoveFailsEffect, ConnFrame DEF Procs, ConnInv, ConnAt, TypeOK
<1>5. KeysInv'
  BY RemoveFailsEffect, KeysFrame DEF TypeOK
<1>6. SeatInv'
  <2>1. s \in Conns /\ ~course.janitor /\ ~course.torn => SeatAt(s)'
    BY RemoveFailsEffect, RoomAssumption DEF SeatInv, SeatAt, At, Leaving, Moved, Procs, TypeOK,
         ConnInv, ConnAt
  <2>2. \A x \in Conns : x # s /\ sfu'[x] = "live" =>
           /\ sfu[x] = "live"
           /\ x \in conns => x \in conns'
           /\ x \in conns /\ Room[x] \in members => Room[x] \in members'
    BY RemoveFailsEffect DEF TypeOK
  <2> QED
    BY <1>1, <2>1, <2>2, RemoveFailsEffect, SeatFrame DEF Procs
<1>7. PointerInv'
  BY <1>1, RemoveFailsEffect, PointerFrame DEF TypeOK
<1>8. AnnouncedInv'
  <2>1. /\ Calm /\ s \in Conns /\ joinedAt = s /\ proc[s].pc \in Announces
        /\ Room[s] \in members' /\ shown'[Room[s]] = "out"
        => \/ proc'[s].pc \in Announces
           \/ <<"joined", s>> \in lost' \/ <<"capped", s>> \in lost'
    BY <1>1, RemoveFailsEffect, RoomAssumption, NoneAssumption DEF Announces, Moved, TypeOK
  <2> QED
    BY <1>1, <2>1, RemoveFailsEffect, AnnouncedMove DEF Procs
<1> QED
  BY <1>1, <1>3, <1>4, <1>5, <1>6, <1>7, <1>8

LEMMA RemoveTeardownKeeps ==
    ASSUME Inv, NEW s \in Procs, RemoveTeardown(s)
    PROVE  Inv'
<1> USE DEF Inv
<1>deletes. /\ conns' = conns \ (proc[s].got \cup proc[s].rec) /\ (proc[s].got \cup proc[s].rec) \subseteq Of(ChannelOf(s))
            /\ members' \subseteq members /\ entries' \subseteq entries
            /\ \A x \in members' : x \in entries'
            /\ \A x \in Channels : x # ChannelOf(s) => Recorded(x)' = Recorded(x)
            /\ Recorded(ChannelOf(s))' = Recorded(ChannelOf(s)) \ (proc[s].got \cup proc[s].rec)
            /\ \/ Survives(ChannelOf(s), (proc[s].got \cup proc[s].rec)) /\ UNCHANGED <<members, entries, pointer, joinedAt>>
               \/ /\ ~Survives(ChannelOf(s), (proc[s].got \cup proc[s].rec)) /\ ChannelOf(s) \notin members'
                  /\ \/ UNCHANGED <<pointer, joinedAt>>
                     \/ pointer \in {None, ChannelOf(s)} /\ pointer' = None /\ joinedAt' = None
            /\ \A x \in members' : pointer = x => pointer' = x
            /\ pointer' \in {pointer, None} /\ joinedAt' \in {joinedAt, None}
            /\ \A x \in Conns \ (proc[s].got \cup proc[s].rec) : x \in conns =>
                  x \in conns' /\ (Room[x] \in members => Room[x] \in members')
  <2>1. ChannelOf(s) \in Channels /\ (proc[s].got \cup proc[s].rec) \in SUBSET Of(ChannelOf(s))
    BY RemoveTeardownEffect, RoomAssumption DEF Of, ConnInv, ReadAt, Procs, ChannelOf
  <2>2. DeleteConnections(ChannelOf(s), (proc[s].got \cup proc[s].rec))
    BY RemoveTeardownEffect
  <2>3. \A x \in members' : x \in members => x \in entries
    BY DEF RosterInv
  <2> QED
    BY <2>1, <2>2, <2>3, DeletesEffect
<1>1. TypeOK'
  BY RemoveTeardownEffect, <1>deletes, RoomAssumption, NoneAssumption DEF TypeOK, Proc, Procs
<1>2. Ordinary
  <2>1. s \in Conns => Owing(s)' /\ (Answered(s) => Answered(s)') /\ ~At(s, "out")
    BY RemoveTeardownEffect, RoomAssumption DEF Owing, Answered, At, Leaving, Moved, Procs,
         RemoveDone, ChannelOf, ConnInv, ConnAt, TypeOK
  <2> QED
    BY <2>1, OrdinaryMove, RemoveTeardownEffect DEF Moved, Procs, TypeOK
<1>3. LostInv' /\ OneRoomInv' /\ ShownInv' /\ RosterInv'
  <2>1. LostInv' /\ OneRoomInv'
    BY <1>1, <1>2, <1>deletes, RemoveTeardownEffect, OrdinaryLost, OrdinaryOneRoom DEF TypeOK
  <2>2. ShownInv'
    BY <1>1, <1>2, <1>deletes, RemoveTeardownEffect, OrdinaryShown
  <2>3. ASSUME NEW c \in members'
        PROVE  /\ c \in entries' /\ c \in members
               /\ Recorded(c)' \subseteq Recorded(c)
               /\ Recorded(c) # {} => Recorded(c)' # {}
    <3>1. c \in Channels
      BY <1>1 DEF TypeOK
    <3>2. CASE c = ChannelOf(s)
      BY <1>deletes, <3>2 DEF Survives
    <3> QED
      BY <1>deletes, <3>1, <3>2
  <2> QED
    BY <1>1, <1>2, <2>1, <2>2, <2>3, OrdinaryRoster
<1>4. ConnInv'
  <2>1. s \in Conns => ConnAt(s)'
    BY RemoveTeardownEffect, <1>deletes DEF ConnInv, ConnAt, At, Leaving, Moved, Procs, RemoveDone,
         ChannelOf, TypeOK
  <2>2. ReadAt(s)'
    BY RemoveTeardownEffect, <1>deletes, RoomAssumption DEF ConnInv, ConnAt, ReadAt, ChannelOf, Of,
         Recorded, Live, At, Leaving, Moved, Procs, RemoveDone, TypeOK
  <2> QED
    BY <1>1, <2>1, <2>2, RemoveTeardownEffect, <1>deletes, ConnFrame DEF Procs, ConnInv, ConnAt, TypeOK
<1>5. KeysInv'
  BY RemoveTeardownEffect, <1>deletes, KeysFrame DEF KeysInv
<1>6. SeatInv'
  <2>1. s \in Conns /\ ~course.janitor /\ ~course.torn => SeatAt(s)'
    BY RemoveTeardownEffect, <1>deletes, RoomAssumption DEF SeatInv, SeatAt, At, Leaving, Moved, Procs,
         RemoveDone, ChannelOf, TypeOK, ConnInv, ConnAt
  <2>2. \A x \in Conns : x # s /\ sfu'[x] = "live" =>
           /\ sfu[x] = "live"
           /\ x \in conns => x \in conns'
           /\ x \in conns /\ Room[x] \in members => Room[x] \in members'
    BY RemoveTeardownEffect, <1>deletes DEF TypeOK, ConnInv, ReadAt
  <2> QED
    BY <1>1, <2>1, <2>2, RemoveTeardownEffect, SeatFrame DEF Procs
<1>7. PointerInv'
  BY <1>1, RemoveTeardownEffect, <1>deletes, PointerFrame DEF TypeOK
<1>8. AnnouncedInv'
  <2>1. /\ Calm /\ s \in Conns /\ joinedAt = s /\ proc[s].pc \in Announces
        /\ Room[s] \in members' /\ shown'[Room[s]] = "out"
        => \/ proc'[s].pc \in Announces
           \/ <<"joined", s>> \in lost' \/ <<"capped", s>> \in lost'
    BY <1>1, RemoveTeardownEffect, <1>deletes, RoomAssumption, NoneAssumption DEF Announces, Moved,
         TypeOK, RemoveDone, ChannelOf
  <2>2. \A x \in Conns : joinedAt = x /\ Room[x] \in members' => joinedAt' = x
    BY <1>deletes, NoneAssumption, RoomAssumption DEF KeysInv
  <2> QED
    BY <1>1, <2>1, <2>2, RemoveTeardownEffect, <1>deletes, AnnouncedMove DEF Procs
<1> QED
  BY <1>1, <1>3, <1>4, <1>5, <1>6, <1>7, <1>8

LEMMA RemovePublishKeeps ==
    ASSUME Inv, NEW s \in Procs, RemovePublish(s)
    PROVE  Inv'
<1> USE DEF Inv
<1>1. TypeOK'
  BY RemovePublishEffect, RoomAssumption, NoneAssumption DEF TypeOK, Proc, Procs, Of, Leave,
       ChannelOf
<1>2. Ordinary
  <2>1. s \in Conns => Owing(s)' /\ (Answered(s) => Answered(s)') /\ ~At(s, "out")
    BY RemovePublishEffect, RoomAssumption DEF Owing, Answered, At, Leaving, Moved, Procs,
         RemoveDone, ChannelOf, ConnInv, ConnAt, TypeOK
  <2> QED
    BY <2>1, OrdinaryMove, RemovePublishEffect DEF Moved, Procs, TypeOK
<1>3. LostInv' /\ OneRoomInv' /\ ShownInv' /\ RosterInv'
  <2>1. LostInv' /\ OneRoomInv'
    BY <1>1, <1>2, RemovePublishEffect, OrdinaryLost, OrdinaryOneRoom DEF TypeOK
  <2>2. ShownInv'
    BY <1>1, <1>2, RemovePublishEffect, OrdinaryShown DEF Leave, TypeOK
  <2>3. ASSUME NEW c \in members' PROVE c \in entries' /\ c \in members /\ Recorded(c)' = Recorded(c)
    BY RemovePublishEffect DEF RosterInv, Recorded
  <2> QED
    BY <1>1, <1>2, <2>1, <2>2, <2>3, OrdinaryRoster
<1>4. ConnInv'
  <2>1. s \in Conns => ConnAt(s)'
    BY RemovePublishEffect DEF ConnInv, ConnAt, At, Leaving, Moved, Procs, RemoveDone, ChannelOf,
         TypeOK
  <2>2. ReadAt(s)'
    BY RemovePublishEffect, RoomAssumption DEF ConnInv, ConnAt, ReadAt, ChannelOf, Of, Recorded,
         Live, At, Leaving, Moved, Procs, RemoveDone, TypeOK
  <2> QED
    BY <1>1, <2>1, <2>2, RemovePublishEffect, ConnFrame DEF Procs, ConnInv, ConnAt, TypeOK
<1>5. KeysInv'
  BY RemovePublishEffect, KeysFrame DEF KeysInv
<1>6. SeatInv'
  <2>1. s \in Conns /\ ~course.janitor /\ ~course.torn => SeatAt(s)'
    BY RemovePublishEffect, RoomAssumption DEF SeatInv, SeatAt, At, Leaving, Moved, Procs,
         RemoveDone, ChannelOf, TypeOK, ConnInv, ConnAt
  <2>2. \A x \in Conns : x # s /\ sfu'[x] = "live" =>
           /\ sfu[x] = "live"
           /\ x \in conns => x \in conns'
           /\ x \in conns /\ Room[x] \in members => Room[x] \in members'
    BY RemovePublishEffect DEF TypeOK
  <2> QED
    BY <1>1, <2>1, <2>2, RemovePublishEffect, SeatFrame DEF Procs
<1>7. PointerInv'
  BY <1>1, RemovePublishEffect, PointerFrame DEF TypeOK
<1>8. AnnouncedInv'
  <2>1. /\ Calm /\ s \in Conns /\ joinedAt = s /\ proc[s].pc \in Announces
        /\ Room[s] \in members' /\ shown'[Room[s]] = "out"
        => \/ proc'[s].pc \in Announces
           \/ <<"joined", s>> \in lost' \/ <<"capped", s>> \in lost'
    BY <1>1, RemovePublishEffect, RoomAssumption, NoneAssumption DEF Announces, Moved, TypeOK,
         RemoveDone, ChannelOf
  <2> QED
    BY <1>1, <2>1, RemovePublishEffect, AnnouncedMove DEF Procs, TypeOK, Leave
<1> QED
  BY <1>1, <1>3, <1>4, <1>5, <1>6, <1>7, <1>8

-----------------------------------------------------------------------------
(* participant_left *)

LEMMA LoseLeftKeeps ==
    ASSUME Inv, NEW s \in Conns, LoseLeft(s)
    PROVE  Inv'
<1> USE DEF Inv
<1>1. TypeOK'
  BY LoseLeftEffect, RoomAssumption, NoneAssumption DEF TypeOK, Proc, Procs
<1>3. LostInv' /\ OneRoomInv' /\ ShownInv' /\ RosterInv'
  <2>1. \A x \in Conns : x # s => /\ Owing(x) => Owing(x)'
                                  /\ Answered(x) => Answered(x)'
                                  /\ At(x, "leave") => At(x, "leave")'
                                  /\ At(x, "out") => At(x, "out")'
    BY LoseLeftEffect DEF Owing, Answered, Leaving, At, Procs
  <2>2. Answered(s)' /\ ~At(s, "out")
    BY LoseLeftEffect DEF Moved, Answered, Leaving, At
  <2>3. OneRoomInv'
    BY <1>1, <2>1, <2>2, LoseLeftEffect, OneRoomFrame
  <2>4. LostInv'
    <3>1. At(s, "out")' /\ \A p \in Procs : proc'[p].owed \subseteq proc[p].owed
      BY LoseLeftEffect DEF Moved, At
    <3> QED
      BY <1>1, <2>1, <2>2, <3>1, LoseLeftEffect, LeaveLost DEF TypeOK
  <2>5. ShownInv'
    <3>1. ASSUME NEW c \in Channels, NEW y \in Of(c),
                 Owing(y) \/ At(y, "leave") \/ <<"left", y>> \in lost
          PROVE  Owing(y)' \/ At(y, "leave")' \/ <<"left", y>> \in lost'
      BY <2>1, <3>1, LoseLeftEffect DEF Of
    <3> QED
      BY <3>1, LoseLeftEffect, LeaveShown
  <2>6. RosterInv'
    <3>1. \A c \in members' : c \in members /\ c \in entries' /\ Recorded(c)' = Recorded(c)
      BY LoseLeftEffect DEF RosterInv, Recorded
    <3>2. proc'[s].owed \subseteq proc[s].owed
      BY LoseLeftEffect DEF Moved
    <3>3. Attended(Room[s])'
      <4>1. <<"ghost", s>> \in lost' /\ s \in Of(Room[s])
        BY LoseLeftEffect DEF Of
      <4>2. \A p \in Conns : <<"ghost", s>> \notin proc[p].owed
        BY <2>2 DEF LostInv, Procs
      <4>3. \A p \in Conns : <<"ghost", s>> \notin proc'[p].owed
        BY <3>2, <4>2, LoseLeftEffect DEF Procs
      <4> QED
        BY <4>1, <4>3 DEF Attended, Haunted, Of
    <3> QED
      BY <1>1, <3>1, <3>2, <3>3, LoseLeftEffect, LeaveRoster
  <2> QED
    BY <2>3, <2>4, <2>5, <2>6
<1>4. ConnInv'
  <2>1. s \in Conns => ConnAt(s)'
    BY LoseLeftEffect DEF ConnInv, ConnAt, At, Leaving, Moved, Procs, TypeOK
  <2>2. ReadAt(s)'
    BY LoseLeftEffect, RoomAssumption DEF ConnInv, ConnAt, ReadAt, ChannelOf, Of, Recorded, Live,
         At, Leaving, Moved, Procs, TypeOK
  <2> QED
    BY <1>1, <2>1, <2>2, LoseLeftEffect, ConnFrame DEF Procs, ConnInv, ConnAt, TypeOK
<1>5. KeysInv'
  BY LoseLeftEffect, KeysFrame DEF KeysInv
<1>6. SeatInv'
  <2>1. s \in Conns /\ ~course.janitor /\ ~course.torn => SeatAt(s)'
    BY LoseLeftEffect, RoomAssumption DEF SeatInv, SeatAt, At, Leaving, Moved, Procs, TypeOK,
         ConnInv, ConnAt
  <2>2. \A x \in Conns : x # s /\ sfu'[x] = "live" =>
           /\ sfu[x] = "live"
           /\ x \in conns => x \in conns'
           /\ x \in conns /\ Room[x] \in members => Room[x] \in members'
    BY LoseLeftEffect DEF TypeOK
  <2> QED
    BY <1>1, <2>1, <2>2, LoseLeftEffect, SeatFrame DEF Procs
<1>7. PointerInv'
  BY <1>1, LoseLeftEffect, PointerFrame DEF TypeOK
<1>8. AnnouncedInv'
  <2>1. /\ Calm /\ s \in Conns /\ joinedAt = s /\ proc[s].pc \in Announces
        /\ Room[s] \in members' /\ shown'[Room[s]] = "out"
        => \/ proc'[s].pc \in Announces
           \/ <<"joined", s>> \in lost' \/ <<"capped", s>> \in lost'
    BY <1>1, LoseLeftEffect, RoomAssumption, NoneAssumption DEF Announces, Moved, TypeOK, Leaving
  <2> QED
    BY <1>1, <2>1, LoseLeftEffect, AnnouncedMove DEF Procs
<1> QED
  BY <1>1, <1>3, <1>4, <1>5, <1>6, <1>7, <1>8

LEMMA DeleteConnectionKeeps ==
    ASSUME Inv, NEW s \in Conns, DeleteConnection(s)
    PROVE  Inv'
<1> USE DEF Inv
<1>deletes. /\ conns' = conns \ {s} /\ {s} \subseteq Of(Room[s])
            /\ members' \subseteq members /\ entries' \subseteq entries
            /\ \A x \in members' : x \in entries'
            /\ \A x \in Channels : x # Room[s] => Recorded(x)' = Recorded(x)
            /\ Recorded(Room[s])' = Recorded(Room[s]) \ {s}
            /\ \/ Survives(Room[s], {s}) /\ UNCHANGED <<members, entries, pointer, joinedAt>>
               \/ /\ ~Survives(Room[s], {s}) /\ Room[s] \notin members'
                  /\ \/ UNCHANGED <<pointer, joinedAt>>
                     \/ pointer \in {None, Room[s]} /\ pointer' = None /\ joinedAt' = None
            /\ \A x \in members' : pointer = x => pointer' = x
            /\ pointer' \in {pointer, None} /\ joinedAt' \in {joinedAt, None}
            /\ \A x \in Conns \ {s} : x \in conns =>
                  x \in conns' /\ (Room[x] \in members => Room[x] \in members')
  <2>1. Room[s] \in Channels /\ {s} \in SUBSET Of(Room[s])
    BY DeleteConnectionEffect, RoomAssumption DEF Of, ConnInv, ReadAt, Procs, ChannelOf
  <2>2. DeleteConnections(Room[s], {s})
    BY DeleteConnectionEffect
  <2>3. \A x \in members' : x \in members => x \in entries
    BY DEF RosterInv
  <2> QED
    BY <2>1, <2>2, <2>3, DeletesEffect
<1>1. TypeOK'
  BY DeleteConnectionEffect, <1>deletes, RoomAssumption, NoneAssumption DEF TypeOK, Proc, Procs
<1>left. \A x \in Conns : <<"left", x>> \in lost => <<"left", x>> \in lost'
  BY DeleteConnectionEffect, OwedGhosts
<1>joined. \A x \in Conns : /\ <<"joined", x>> \in lost => <<"joined", x>> \in lost'
                            /\ <<"capped", x>> \in lost => <<"capped", x>> \in lost'
  BY DeleteConnectionEffect, OwedGhosts
<1>ghosts. \A x \in Conns : <<"ghost", x>> \in lost' => <<"ghost", x>> \in lost
  BY DeleteConnectionEffect
<1>haunts. \A x \in Conns : <<"ghost", x>> \in lost /\ <<"ghost", x>> \notin proc[s].owed
                       => <<"ghost", x>> \in lost'
  BY DeleteConnectionEffect
<1>3. LostInv' /\ OneRoomInv' /\ ShownInv' /\ RosterInv'
  <2>1. \A x \in Conns : x # s => /\ Owing(x) => Owing(x)'
                                  /\ Answered(x) => Answered(x)'
                                  /\ At(x, "leave") => At(x, "leave")'
                                  /\ At(x, "out") => At(x, "out")'
    BY DeleteConnectionEffect DEF Owing, Answered, Leaving, At, Procs
  <2>2. Answered(s)' /\ ~At(s, "out")
    BY DeleteConnectionEffect DEF Moved, Answered, Leaving, At
  <2>3. OneRoomInv'
    BY <1>1, <2>1, <2>2, DeleteConnectionEffect, OneRoomFrame
  <2>4. LostInv'
    <3>1. \A p \in Procs : \A x \in Conns : <<"ghost", x>> \in proc'[p].owed =>
             <<"ghost", x>> \in proc[p].owed \cup lost
      BY DeleteConnectionEffect DEF Lost
    <3> QED
      BY <1>1, <1>left, <1>ghosts, <1>deletes, <2>1, <2>2, <3>1, LeaveLost DEF TypeOK
  <2>5. ShownInv'
    <3>1. ASSUME NEW c \in Channels, NEW y \in Of(c), shown[c] = "in",
                 Owing(y) \/ At(y, "leave") \/ <<"left", y>> \in lost
          PROVE  \E z \in Of(c) : Owing(z)' \/ At(z, "leave")' \/ <<"left", z>> \in lost'
      <4>1. CASE y # s
        BY <1>left, <2>1, <3>1, <4>1 DEF Of
      <4>2. CASE y = s /\ Survives(Room[s], {s})
        <5>1. PICK z \in Of(Room[s]) : z \in conns /\ z # s
          BY <4>2 DEF Survives, Recorded
        <5>2. Owing(z) \/ <<"left", z>> \in lost
          BY <5>1 DEF LostInv
        <5> QED
          BY <1>left, <2>1, <4>2, <5>1, <5>2 DEF Of
      <4>3. CASE y = s /\ ~Survives(Room[s], {s})
        BY <4>3, DeleteConnectionEffect DEF At
      <4> QED
        BY <4>1, <4>2, <4>3
    <3> QED
      BY <3>1, DeleteConnectionEffect, LeaveShown
  <2>6. RosterInv'
    <3>1. ASSUME NEW c \in members'
          PROVE  /\ c \in members /\ c \in entries'
                 /\ Recorded(c)' \subseteq Recorded(c)
                 /\ Recorded(c) # {} => Recorded(c)' # {}
      <4>1. c \in Channels
        BY <1>1 DEF TypeOK
      <4>2. CASE c = Room[s]
        BY <1>deletes, <4>2 DEF Survives
      <4> QED
        BY <1>deletes, <4>1, <4>2
    <3>2. ASSUME Room[s] \in members' PROVE Attended(Room[s])'
      <4>1. Survives(Room[s], {s})
        BY <1>deletes, <3>2
      <4>2. Recorded(Room[s])' # {} /\ Cleans(s)' /\ s \in Of(Room[s])
        BY <1>deletes, <4>1, DeleteConnectionEffect DEF Survives, Cleans, At, Of
      <4> QED
        BY <4>2 DEF Attended, Of
    <3>3. \A c \in members' : c # Room[s] => \A x \in Of(c) : <<"ghost", x>> \notin proc'[s].owed
      <4>1. \A x : <<"ghost", x>> \in Lost("ghost", Room[s]) => x \in Of(Room[s])
        BY DEF Lost
      <4> QED
        BY <4>1, DeleteConnectionEffect DEF Of
    <3> QED
      BY <1>1, <1>haunts, <3>1, <3>2, <3>3, DeleteConnectionEffect, LeaveRoster
  <2> QED
    BY <2>3, <2>4, <2>5, <2>6
<1>4. ConnInv'
  <2>1. ConnAt(s)'
    BY DeleteConnectionEffect, <1>deletes DEF ConnInv, ConnAt, At, Leaving
  <2>2. proc'[s].pc \in {"confirm", "leave"} /\ ReadAt(s) /\ s \in Procs
    BY DeleteConnectionEffect DEF ConnInv, Procs
  <2>3. ReadAt(s)'
    BY <2>2, DeleteConnectionEffect DEF ReadAt, At
  <2>4. \A x \in conns' : sfu'[x] # "new"
    BY <1>deletes, DeleteConnectionEffect DEF ConnInv, ConnAt, TypeOK
  <2> QED
    BY <1>1, <2>1, <2>2, <2>3, <2>4, DeleteConnectionEffect, ConnFrame
<1>5. KeysInv'
  BY DeleteConnectionEffect, <1>deletes, KeysFrame DEF KeysInv
<1>6. SeatInv'
  <2>1. s \in Conns /\ ~course.janitor /\ ~course.torn => SeatAt(s)'
    BY DeleteConnectionEffect, <1>deletes, RoomAssumption DEF SeatInv, SeatAt, At, Leaving, Moved, Procs,
         TypeOK, ConnInv, ConnAt
  <2>2. \A x \in Conns : x # s /\ sfu'[x] = "live" =>
           /\ sfu[x] = "live"
           /\ x \in conns => x \in conns'
           /\ x \in conns /\ Room[x] \in members => Room[x] \in members'
    BY DeleteConnectionEffect, <1>deletes DEF TypeOK
  <2> QED
    BY <1>1, <2>1, <2>2, DeleteConnectionEffect, SeatFrame DEF Procs
<1>7. PointerInv'
  BY <1>1, <1>left, DeleteConnectionEffect, <1>deletes, PointerFrame DEF TypeOK
<1>8. AnnouncedInv'
  <2>1. proc[s].pc \notin Announces
    BY DeleteConnectionEffect DEF Announces
  <2>2. \A x \in Conns : joinedAt = x /\ Room[x] \in members' => joinedAt' = x
    BY <1>deletes, NoneAssumption, RoomAssumption DEF KeysInv
  <2>3. \A c \in members' : shown'[c] = "out" => c \in members /\ shown[c] = "out"
    BY <1>deletes, DeleteConnectionEffect
  <2> QED
    BY <1>1, <1>joined, <2>1, <2>2, <2>3, DeleteConnectionEffect, AnnouncedMove DEF Procs
<1> QED
  BY <1>1, <1>3, <1>4, <1>5, <1>6, <1>7, <1>8

LEMMA ConfirmKeeps ==
    ASSUME Inv, NEW s \in Conns, Confirm(s)
    PROVE  Inv'
<1> USE DEF Inv
<1>1. TypeOK'
  BY ConfirmEffect, RoomAssumption, NoneAssumption DEF TypeOK, Proc, Procs
<1>left. \A x \in Conns : <<"left", x>> \in lost => <<"left", x>> \in lost'
  BY ConfirmEffect, OwedGhosts
<1>joined. \A x \in Conns : /\ <<"joined", x>> \in lost => <<"joined", x>> \in lost'
                            /\ <<"capped", x>> \in lost => <<"capped", x>> \in lost'
  BY ConfirmEffect, OwedGhosts
<1>ghosts. \A x \in Conns : <<"ghost", x>> \in lost' => <<"ghost", x>> \in lost
  BY ConfirmEffect
<1>haunts. \A x \in Conns : <<"ghost", x>> \in lost /\ <<"ghost", x>> \notin proc[s].owed
                       => <<"ghost", x>> \in lost'
  BY ConfirmEffect
<1>3. LostInv' /\ OneRoomInv' /\ ShownInv' /\ RosterInv'
  <2>1. \A x \in Conns : x # s => /\ Owing(x) => Owing(x)'
                                  /\ Answered(x) => Answered(x)'
                                  /\ At(x, "leave") => At(x, "leave")'
                                  /\ At(x, "out") => At(x, "out")'
    BY ConfirmEffect DEF Owing, Answered, Leaving, At, Procs
  <2>2. Answered(s)' /\ ~At(s, "out")
    BY ConfirmEffect DEF Moved, Answered, Leaving, At
  <2>3. OneRoomInv'
    BY <1>1, <2>1, <2>2, ConfirmEffect, OneRoomFrame
  <2>4. LostInv'
    <3>1. ~Owing(s)
      BY ConfirmEffect DEF Owing, Leaving
    <3>2. \A p \in Procs : proc'[p].owed \subseteq proc[p].owed
      BY ConfirmEffect DEF Moved
    <3> QED
      BY <1>1, <1>left, <1>ghosts, <2>1, <2>2, <3>1, <3>2, ConfirmEffect, LeaveLost DEF TypeOK
  <2>5. ShownInv'
    BY <1>left, <2>1, ConfirmEffect, LeaveShown DEF Owing, Leaving, At, Of
  <2>6. RosterInv'
    <3>1. \A c \in members' : c \in members /\ c \in entries' /\ Recorded(c)' = Recorded(c)
      BY ConfirmEffect DEF RosterInv, Recorded
    <3>2. ASSUME Recorded(Room[s]) # {} PROVE Attended(Room[s])'
      <4>1. Cleans(s)' /\ Recorded(Room[s])' # {} /\ s \in Of(Room[s])
        BY <3>2, ConfirmEffect DEF Cleans, At, Recorded, Of
      <4> QED
        BY <4>1 DEF Attended, Of
    <3>3. ~Owing(s) /\ proc'[s].owed = proc[s].owed
      BY ConfirmEffect DEF Owing, Leaving
    <3> QED
      BY <1>1, <1>haunts, <3>1, <3>2, <3>3, ConfirmEffect, LeaveRoster
  <2> QED
    BY <2>3, <2>4, <2>5, <2>6
<1>4. ConnInv'
  <2>1. s \in Conns => ConnAt(s)'
    BY ConfirmEffect DEF ConnInv, ConnAt, At, Leaving, Moved, Procs, TypeOK
  <2>2. ReadAt(s)'
    BY ConfirmEffect, RoomAssumption DEF ConnInv, ConnAt, ReadAt, ChannelOf, Of, Recorded, Live,
         At, Leaving, Moved, Procs, TypeOK
  <2> QED
    BY <1>1, <2>1, <2>2, ConfirmEffect, ConnFrame DEF Procs, ConnInv, ConnAt, TypeOK
<1>5. KeysInv'
  BY ConfirmEffect, KeysFrame DEF KeysInv
<1>6. SeatInv'
  <2>1. s \in Conns /\ ~course.janitor /\ ~course.torn => SeatAt(s)'
    BY ConfirmEffect, RoomAssumption DEF SeatInv, SeatAt, At, Leaving, Moved, Procs, TypeOK,
         ConnInv, ConnAt
  <2>2. \A x \in Conns : x # s /\ sfu'[x] = "live" =>
           /\ sfu[x] = "live"
           /\ x \in conns => x \in conns'
           /\ x \in conns /\ Room[x] \in members => Room[x] \in members'
    BY ConfirmEffect DEF TypeOK
  <2> QED
    BY <1>1, <2>1, <2>2, ConfirmEffect, SeatFrame DEF Procs
<1>7. PointerInv'
  BY <1>1, <1>left, ConfirmEffect, PointerFrame DEF TypeOK
<1>8. AnnouncedInv'
  <2>1. /\ Calm /\ s \in Conns /\ joinedAt = s /\ proc[s].pc \in Announces
        /\ Room[s] \in members' /\ shown'[Room[s]] = "out"
        => \/ proc'[s].pc \in Announces
           \/ <<"joined", s>> \in lost' \/ <<"capped", s>> \in lost'
    BY <1>1, ConfirmEffect, RoomAssumption, NoneAssumption DEF Announces, Moved, TypeOK
  <2> QED
    BY <1>1, <2>1, <1>joined, ConfirmEffect, AnnouncedMove DEF Procs
<1> QED
  BY <1>1, <1>3, <1>4, <1>5, <1>6, <1>7, <1>8

LEMMA ListKeeps ==
    ASSUME Inv, NEW s \in Conns, List(s)
    PROVE  Inv'
<1> USE DEF Inv
<1>1. TypeOK'
  BY ListEffect, RoomAssumption, NoneAssumption DEF TypeOK, Proc, Procs
<1>left. \A x \in Conns : <<"left", x>> \in lost => <<"left", x>> \in lost'
  BY ListEffect, OwedGhosts
<1>joined. \A x \in Conns : /\ <<"joined", x>> \in lost => <<"joined", x>> \in lost'
                            /\ <<"capped", x>> \in lost => <<"capped", x>> \in lost'
  BY ListEffect, OwedGhosts
<1>ghosts. \A x \in Conns : <<"ghost", x>> \in lost' => <<"ghost", x>> \in lost
  BY ListEffect
<1>haunts. \A x \in Conns : <<"ghost", x>> \in lost /\ <<"ghost", x>> \notin proc[s].owed
                       => <<"ghost", x>> \in lost'
  BY ListEffect
<1>3. LostInv' /\ OneRoomInv' /\ ShownInv' /\ RosterInv'
  <2>1. \A x \in Conns : x # s => /\ Owing(x) => Owing(x)'
                                  /\ Answered(x) => Answered(x)'
                                  /\ At(x, "leave") => At(x, "leave")'
                                  /\ At(x, "out") => At(x, "out")'
    BY ListEffect DEF Owing, Answered, Leaving, At, Procs
  <2>2. Answered(s)' /\ ~At(s, "out")
    BY ListEffect DEF Moved, Answered, Leaving, At
  <2>3. OneRoomInv'
    BY <1>1, <2>1, <2>2, ListEffect, OneRoomFrame
  <2>4. LostInv'
    <3>1. ~Owing(s)
      BY ListEffect DEF Owing, Leaving
    <3>2. \A p \in Procs : proc'[p].owed \subseteq proc[p].owed
      BY ListEffect DEF Moved
    <3> QED
      BY <1>1, <1>left, <1>ghosts, <2>1, <2>2, <3>1, <3>2, ListEffect, LeaveLost DEF TypeOK
  <2>5. ShownInv'
    BY <1>left, <2>1, ListEffect, LeaveShown DEF Owing, Leaving, At, Of
  <2>6. RosterInv'
    <3>1. \A c \in members' : c \in members /\ c \in entries' /\ Recorded(c)' = Recorded(c)
      BY ListEffect DEF RosterInv, Recorded
    <3>2. ~Owing(s) /\ proc'[s].owed \subseteq proc[s].owed
      BY ListEffect DEF Owing, Leaving, Moved
    <3>3. ASSUME Cleans(s), Recorded(Room[s]) # {} PROVE Attended(Room[s])'
      <4>1. Recorded(Room[s]) \subseteq proc[s].rec
        BY <3>3, ListEffect DEF Cleans, At
      <4>2. CASE \E y \in Recorded(Room[s]) : sfu[y] = "live"
        <5>1. PICK y \in Of(Room[s]) : sfu[y] = "live"
          BY <4>2 DEF Recorded
        <5>2. Owing(y)
          BY <5>1 DEF Owing, ConnInv, ConnAt, Of
        <5>3. Owing(y)'
          BY <2>1, <3>2, <5>2 DEF Of
        <5> QED
          BY <5>3 DEF Attended, Of
      <4>3. CASE ~ \E y \in Recorded(Room[s]) : sfu[y] = "live"
        <5>1. Recorded(Room[s]) \subseteq proc[s].rec \ Live(Room[s])
          BY <4>1, <4>3 DEF Live
        <5>2. proc'[s].pc = "stale" /\ proc'[s].rec = proc[s].rec \ Live(Room[s])
          BY <3>3, <5>1, ListEffect
        <5>3. Cleans(s)' /\ Recorded(Room[s])' # {} /\ s \in Of(Room[s])
          BY <3>3, <5>1, <5>2, ListEffect DEF Cleans, At, Recorded, Of
        <5> QED
          BY <5>3 DEF Attended, Of
      <4> QED
        BY <4>2, <4>3
    <3> QED
      BY <1>1, <1>haunts, <3>1, <3>2, <3>3, ListEffect, LeaveRoster
  <2> QED
    BY <2>3, <2>4, <2>5, <2>6
<1>4. ConnInv'
  <2>1. ConnAt(s)'
    BY ListEffect DEF ConnInv, ConnAt, At, Leaving, Moved
  <2>2. s \in Procs /\ \A x \in proc[s].rec \cup proc[s].got : x \in Of(Room[s]) /\ sfu[x] # "new"
    BY RoomAssumption DEF ConnInv, ReadAt, ChannelOf, Procs
  <2>3. \A x \in proc[s].rec \ Live(Room[s]) : sfu[x] = "gone"
    BY <2>2 DEF Live, Of, TypeOK
  <2>4. ReadAt(s)'
    <3>1. CASE Moved(s, "out")
      BY <3>1 DEF ReadAt, Moved, At
    <3>2. CASE ~Moved(s, "out")
      <4>1. proc'[s].rec = proc[s].rec \ Live(Room[s]) /\ proc'[s].got = proc[s].got
        BY <3>2, ListEffect
      <4>2. proc[s].got = {}
        BY <2>2, ListEffect DEF ConnInv, ReadAt, At
      <4> QED
        BY <2>2, <2>3, <4>1, <4>2, ListEffect, RoomAssumption DEF ReadAt, ChannelOf, Of, At
    <3> QED
      BY <3>1, <3>2
  <2> QED
    BY <1>1, <2>1, <2>2, <2>4, ListEffect, ConnFrame DEF ConnInv, ConnAt, TypeOK
<1>5. KeysInv'
  BY ListEffect, KeysFrame DEF KeysInv
<1>6. SeatInv'
  <2>1. s \in Conns /\ ~course.janitor /\ ~course.torn => SeatAt(s)'
    BY ListEffect, RoomAssumption DEF SeatInv, SeatAt, At, Leaving, Moved, Procs, TypeOK, ConnInv,
         ConnAt
  <2>2. \A x \in Conns : x # s /\ sfu'[x] = "live" =>
           /\ sfu[x] = "live"
           /\ x \in conns => x \in conns'
           /\ x \in conns /\ Room[x] \in members => Room[x] \in members'
    BY ListEffect DEF TypeOK
  <2> QED
    BY <1>1, <2>1, <2>2, ListEffect, SeatFrame DEF Procs
<1>7. PointerInv'
  BY <1>1, <1>left, ListEffect, PointerFrame DEF TypeOK
<1>8. AnnouncedInv'
  <2>1. /\ Calm /\ s \in Conns /\ joinedAt = s /\ proc[s].pc \in Announces
        /\ Room[s] \in members' /\ shown'[Room[s]] = "out"
        => \/ proc'[s].pc \in Announces
           \/ <<"joined", s>> \in lost' \/ <<"capped", s>> \in lost'
    BY <1>1, ListEffect, RoomAssumption, NoneAssumption DEF Announces, Moved, TypeOK
  <2> QED
    BY <1>1, <2>1, <1>joined, ListEffect, AnnouncedMove DEF Procs
<1> QED
  BY <1>1, <1>3, <1>4, <1>5, <1>6, <1>7, <1>8

LEMMA DeleteStaleKeeps ==
    ASSUME Inv, NEW s \in Conns, DeleteStale(s)
    PROVE  Inv'
<1> USE DEF Inv
<1>deletes. /\ conns' = conns \ proc[s].rec /\ proc[s].rec \subseteq Of(Room[s])
            /\ members' \subseteq members /\ entries' \subseteq entries
            /\ \A x \in members' : x \in entries'
            /\ \A x \in Channels : x # Room[s] => Recorded(x)' = Recorded(x)
            /\ Recorded(Room[s])' = Recorded(Room[s]) \ proc[s].rec
            /\ \/ Survives(Room[s], proc[s].rec) /\ UNCHANGED <<members, entries, pointer, joinedAt>>
               \/ /\ ~Survives(Room[s], proc[s].rec) /\ Room[s] \notin members'
                  /\ \/ UNCHANGED <<pointer, joinedAt>>
                     \/ pointer \in {None, Room[s]} /\ pointer' = None /\ joinedAt' = None
            /\ \A x \in members' : pointer = x => pointer' = x
            /\ pointer' \in {pointer, None} /\ joinedAt' \in {joinedAt, None}
            /\ \A x \in Conns \ proc[s].rec : x \in conns =>
                  x \in conns' /\ (Room[x] \in members => Room[x] \in members')
  <2>1. Room[s] \in Channels /\ proc[s].rec \in SUBSET Of(Room[s])
    BY DeleteStaleEffect, RoomAssumption DEF Of, ConnInv, ReadAt, Procs, ChannelOf
  <2>2. DeleteConnections(Room[s], proc[s].rec)
    BY DeleteStaleEffect
  <2>3. \A x \in members' : x \in members => x \in entries
    BY DEF RosterInv
  <2> QED
    BY <2>1, <2>2, <2>3, DeletesEffect
<1>1. TypeOK'
  BY DeleteStaleEffect, <1>deletes, RoomAssumption, NoneAssumption DEF TypeOK, Proc, Procs
<1>left. \A x \in Conns : <<"left", x>> \in lost => <<"left", x>> \in lost'
  BY DeleteStaleEffect, OwedGhosts
<1>joined. \A x \in Conns : /\ <<"joined", x>> \in lost => <<"joined", x>> \in lost'
                            /\ <<"capped", x>> \in lost => <<"capped", x>> \in lost'
  BY DeleteStaleEffect, OwedGhosts
<1>ghosts. \A x \in Conns : <<"ghost", x>> \in lost' => <<"ghost", x>> \in lost
  BY DeleteStaleEffect
<1>haunts. \A x \in Conns : <<"ghost", x>> \in lost /\ <<"ghost", x>> \notin proc[s].owed
                       => <<"ghost", x>> \in lost'
  BY DeleteStaleEffect
<1>3. LostInv' /\ OneRoomInv' /\ ShownInv' /\ RosterInv'
  <2>1. \A x \in Conns : x # s => /\ Owing(x) => Owing(x)'
                                  /\ Answered(x) => Answered(x)'
                                  /\ At(x, "leave") => At(x, "leave")'
                                  /\ At(x, "out") => At(x, "out")'
    BY DeleteStaleEffect DEF Owing, Answered, Leaving, At, Procs
  <2>2. Answered(s)' /\ ~At(s, "out")
    BY DeleteStaleEffect DEF Moved, Answered, Leaving, At
  <2>3. OneRoomInv'
    BY <1>1, <2>1, <2>2, DeleteStaleEffect, OneRoomFrame
  <2>4. LostInv'
    <3>1. ~Owing(s)
      BY DeleteStaleEffect DEF Owing, Leaving
    <3>2. \A p \in Procs : proc'[p].owed \subseteq proc[p].owed
      BY DeleteStaleEffect DEF Moved
    <3> QED
      BY <1>1, <1>left, <1>ghosts, <2>1, <2>2, <3>1, <3>2, <1>deletes, DeleteStaleEffect, LeaveLost DEF TypeOK
  <2>5. ShownInv'
    BY <1>left, <2>1, DeleteStaleEffect, LeaveShown DEF Owing, Leaving, At, Of
  <2>6. RosterInv'
    <3>1. ASSUME NEW c \in members'
          PROVE  /\ c \in members /\ c \in entries'
                 /\ Recorded(c)' \subseteq Recorded(c)
                 /\ Recorded(c) # {} => Recorded(c)' # {}
      <4>1. c \in Channels
        BY <1>1 DEF TypeOK
      <4>2. CASE c = Room[s]
        BY <1>deletes, <4>2 DEF Survives
      <4> QED
        BY <1>deletes, <4>1, <4>2
    <3>2. ~Owing(s) /\ proc'[s].owed \subseteq proc[s].owed
      BY DeleteStaleEffect DEF Owing, Leaving, Moved
    <3>3. Room[s] \in members' => ~Cleans(s)
      BY <1>deletes, DeleteStaleEffect DEF Cleans, At, Survives
    <3> QED
      BY <1>1, <1>haunts, <3>1, <3>2, <3>3, DeleteStaleEffect, LeaveRoster
  <2> QED
    BY <2>3, <2>4, <2>5, <2>6
<1>4. ConnInv'
  <2>1. s \in Conns => ConnAt(s)'
    BY DeleteStaleEffect, <1>deletes DEF ConnInv, ConnAt, At, Leaving, Moved, Procs, TypeOK
  <2>2. ReadAt(s)'
    BY DeleteStaleEffect, <1>deletes, RoomAssumption DEF ConnInv, ConnAt, ReadAt, ChannelOf, Of,
         Recorded, Live, At, Leaving, Moved, Procs, TypeOK
  <2> QED
    BY <1>1, <2>1, <2>2, DeleteStaleEffect, <1>deletes, ConnFrame DEF Procs, ConnInv, ConnAt, TypeOK
<1>5. KeysInv'
  BY DeleteStaleEffect, <1>deletes, KeysFrame DEF KeysInv
<1>6. SeatInv'
  <2>1. SeatAt(s)'
    BY DeleteStaleEffect DEF SeatAt, At, Moved, ConnInv, ConnAt, Leaving
  <2>2. \A x \in proc[s].rec : sfu[x] = "gone"
    BY DeleteStaleEffect DEF ConnInv, ReadAt, Procs
  <2>3. \A x \in Conns : x # s /\ sfu'[x] = "live" =>
           /\ sfu[x] = "live"
           /\ x \in conns => x \in conns'
           /\ x \in conns /\ Room[x] \in members => Room[x] \in members'
    BY <1>deletes, <2>2, DeleteStaleEffect
  <2> QED
    BY <1>1, <2>1, <2>3, DeleteStaleEffect, SeatFrame DEF Procs
<1>7. PointerInv'
  BY <1>1, <1>left, DeleteStaleEffect, <1>deletes, PointerFrame DEF TypeOK
<1>8. AnnouncedInv'
  <2>1. /\ Calm /\ s \in Conns /\ joinedAt = s /\ proc[s].pc \in Announces
        /\ Room[s] \in members' /\ shown'[Room[s]] = "out"
        => \/ proc'[s].pc \in Announces
           \/ <<"joined", s>> \in lost' \/ <<"capped", s>> \in lost'
    BY <1>1, DeleteStaleEffect, <1>deletes, RoomAssumption, NoneAssumption DEF Announces, Moved, TypeOK
  <2>2. \A x \in Conns : joinedAt = x /\ Room[x] \in members' => joinedAt' = x
    BY <1>deletes, NoneAssumption, RoomAssumption DEF KeysInv
  <2> QED
    BY <1>1, <2>1, <2>2, <1>joined, DeleteStaleEffect, <1>deletes, AnnouncedMove DEF Procs
<1> QED
  BY <1>1, <1>3, <1>4, <1>5, <1>6, <1>7, <1>8

LEMMA AnnounceLeaveKeeps ==
    ASSUME Inv, NEW s \in Conns, AnnounceLeave(s)
    PROVE  Inv'
<1> USE DEF Inv
<1>1. TypeOK'
  <2>1. shown' \in [Channels -> {"out", "in", "overtaken"}]
    BY AnnounceLeaveEffect DEF Leave, TypeOK
  <2> QED
    BY <2>1, AnnounceLeaveEffect DEF TypeOK, Proc, Procs
<1>left. \A x \in Conns : <<"left", x>> \in lost => <<"left", x>> \in lost'
  BY AnnounceLeaveEffect, OwedGhosts
<1>joined. \A x \in Conns : /\ <<"joined", x>> \in lost => <<"joined", x>> \in lost'
                            /\ <<"capped", x>> \in lost => <<"capped", x>> \in lost'
  BY AnnounceLeaveEffect, OwedGhosts
<1>ghosts. \A x \in Conns : <<"ghost", x>> \in lost' => <<"ghost", x>> \in lost
  BY AnnounceLeaveEffect
<1>haunts. \A x \in Conns : <<"ghost", x>> \in lost /\ <<"ghost", x>> \notin proc[s].owed
                       => <<"ghost", x>> \in lost'
  BY AnnounceLeaveEffect
<1>3. LostInv' /\ OneRoomInv' /\ ShownInv' /\ RosterInv'
  <2>1. \A x \in Conns : x # s => /\ Owing(x) => Owing(x)'
                                  /\ Answered(x) => Answered(x)'
                                  /\ At(x, "leave") => At(x, "leave")'
                                  /\ At(x, "out") => At(x, "out")'
    BY AnnounceLeaveEffect DEF Owing, Answered, Leaving, At, Procs
  <2>2. Answered(s)' /\ ~At(s, "out")
    BY AnnounceLeaveEffect DEF Moved, Answered, Leaving, At
  <2>3. OneRoomInv'
    BY <1>1, <2>1, <2>2, AnnounceLeaveEffect, OneRoomFrame
  <2>4. LostInv'
    <3>1. ~Owing(s)
      BY AnnounceLeaveEffect DEF Owing, Leaving
    <3>2. \A p \in Procs : proc'[p].owed \subseteq proc[p].owed
      BY AnnounceLeaveEffect DEF Moved
    <3> QED
      BY <1>1, <1>left, <1>ghosts, <2>1, <2>2, <3>1, <3>2, AnnounceLeaveEffect, LeaveLost DEF TypeOK
  <2>5. ShownInv'
    <3>1. \A c \in Channels : shown'[c] = "in" => shown[c] = "in" /\ c # Room[s]
      BY AnnounceLeaveEffect DEF Leave, TypeOK
    <3>2. ASSUME NEW c \in Channels, c # Room[s], NEW y \in Of(c),
                 Owing(y) \/ At(y, "leave") \/ <<"left", y>> \in lost
          PROVE  Owing(y)' \/ At(y, "leave")' \/ <<"left", y>> \in lost'
      BY <1>left, <2>1, <3>2 DEF Of
    <3> QED
      BY <3>1, <3>2, LeaveShown
  <2>6. RosterInv'
    <3>1. \A c \in members' : c \in members /\ c \in entries' /\ Recorded(c)' = Recorded(c)
      BY AnnounceLeaveEffect DEF RosterInv, Recorded
    <3>2. ~Owing(s) /\ ~Cleans(s) /\ proc'[s].owed \subseteq proc[s].owed
      BY AnnounceLeaveEffect DEF Owing, Leaving, Cleans, At, Moved
    <3> QED
      BY <1>1, <1>haunts, <3>1, <3>2, AnnounceLeaveEffect, LeaveRoster
  <2> QED
    BY <2>3, <2>4, <2>5, <2>6
<1>4. ConnInv'
  <2>1. s \in Conns => ConnAt(s)'
    BY AnnounceLeaveEffect DEF ConnInv, ConnAt, At, Leaving, Moved, Procs, TypeOK
  <2>2. ReadAt(s)'
    BY AnnounceLeaveEffect, RoomAssumption DEF ConnInv, ConnAt, ReadAt, ChannelOf, Of, Recorded,
         Live, At, Leaving, Moved, Procs, TypeOK
  <2> QED
    BY <1>1, <2>1, <2>2, AnnounceLeaveEffect, ConnFrame DEF Procs, ConnInv, ConnAt, TypeOK
<1>5. KeysInv'
  BY AnnounceLeaveEffect, KeysFrame DEF KeysInv
<1>6. SeatInv'
  <2>1. s \in Conns /\ ~course.janitor /\ ~course.torn => SeatAt(s)'
    BY AnnounceLeaveEffect, RoomAssumption DEF SeatInv, SeatAt, At, Leaving, Moved, Procs, TypeOK,
         ConnInv, ConnAt
  <2>2. \A x \in Conns : x # s /\ sfu'[x] = "live" =>
           /\ sfu[x] = "live"
           /\ x \in conns => x \in conns'
           /\ x \in conns /\ Room[x] \in members => Room[x] \in members'
    BY AnnounceLeaveEffect DEF TypeOK
  <2> QED
    BY <1>1, <2>1, <2>2, AnnounceLeaveEffect, SeatFrame DEF Procs
<1>7. PointerInv'
  BY <1>1, <1>left, AnnounceLeaveEffect, PointerFrame DEF TypeOK
<1>8. AnnouncedInv'
  <2>1. /\ Calm /\ s \in Conns /\ joinedAt = s /\ proc[s].pc \in Announces
        /\ Room[s] \in members' /\ shown'[Room[s]] = "out"
        => \/ proc'[s].pc \in Announces
           \/ <<"joined", s>> \in lost' \/ <<"capped", s>> \in lost'
    BY <1>1, AnnounceLeaveEffect, RoomAssumption, NoneAssumption DEF Announces, Moved, TypeOK
  <2> QED
    BY <1>1, <2>1, <1>joined, AnnounceLeaveEffect, AnnouncedMove DEF Procs, TypeOK, Leave
<1> QED
  BY <1>1, <1>3, <1>4, <1>5, <1>6, <1>7, <1>8

-----------------------------------------------------------------------------
(* The theorems *)

LEMMA InitInv == Init => Inv
<1> SUFFICES ASSUME Init PROVE Inv
  OBVIOUS
<1>1. TypeOK
  BY CoursesAssumption DEF Init, TypeOK, Fresh, Steps
<1>2. \A p \in Procs : At(p, "idle") /\ proc[p].rec = {} /\ proc[p].got = {} /\ proc[p].owed = {}
  BY DEF Init, Fresh, At, Procs
<1>3. ConnInv
  BY <1>2 DEF Init, ConnInv, ConnAt, ReadAt, At, Leaving, Procs
<1>4. KeysInv /\ LostInv /\ RosterInv /\ ShownInv
  BY <1>2 DEF Init, KeysInv, LostInv, RosterInv, ShownInv
<1>5. SeatInv /\ OneRoomInv /\ PointerInv /\ AnnouncedInv
  BY <1>2 DEF Init, SeatInv, SeatAt, OneRoomInv, Joins, PointerInv, AnnouncedInv, At, Procs
<1> QED
  BY <1>1, <1>3, <1>4, <1>5 DEF Inv

LEMMA RemovalKeeps == ASSUME Inv, NEW p \in Procs, Removal(p) PROVE Inv'
BY RemoveReadKeeps, RemoveHoldsKeeps, RemoveEvictKeeps, RemoveTeardownKeeps, RemovePublishKeeps
   DEF Removal

LEMMA ConnectionKeeps ==
    ASSUME Inv, NEW s \in Conns,
           \/ Connect(s) \/ Disconnect(s) \/ Retry(s) \/ LoseJoined(s) \/ LoseLeft(s)
           \/ Joined(s) \/ LeftHook(s)
    PROVE  Inv'
<1>1. CASE Connect(s) \/ Disconnect(s) \/ Retry(s) \/ LoseJoined(s) \/ LoseLeft(s)
  BY <1>1, ConnectKeeps, DisconnectKeeps, RetryKeeps, LoseJoinedKeeps, LoseLeftKeeps
<1>2. CASE Joined(s)
  BY <1>2, RefuseKeeps, RecordKeeps, ReadRecordedKeeps, ReadStateKeeps, CreateKeysKeeps,
     CreateRosterKeeps, OverCapKeeps, DropKeeps, AnnounceKeeps DEF Joined
<1>3. CASE LeftHook(s)
  BY <1>3, DeleteConnectionKeeps, ConfirmKeeps, ListKeeps, DeleteStaleKeeps, AnnounceLeaveKeeps
     DEF LeftHook
<1> QED
  BY <1>1, <1>2, <1>3

LEMMA StepInv == Inv /\ [Next]_vars => Inv'
<1> SUFFICES ASSUME Inv, [Next]_vars PROVE Inv'
  OBVIOUS
<1>1. ASSUME NEW s \in Conns,
             \/ Connect(s) \/ Disconnect(s) \/ Retry(s) \/ LoseJoined(s) \/ LoseLeft(s)
             \/ Joined(s) \/ LeftHook(s) \/ Removal(s)
      PROVE  Inv'
  BY <1>1, ConnectionKeeps, RemovalKeeps DEF Procs
<1>2. ASSUME NEW c \in Removable, RemoveFails(c) \/ Removal(c) PROVE Inv'
  BY <1>2, RemoveFailsKeeps, RemovalKeeps DEF Procs
<1>3. ASSUME NEW c \in Channels, RoomFinished(c) \/ RepairRoster(c) \/ SweepGhost(c) PROVE Inv'
  BY <1>3, RoomFinishedKeeps, LooksKeep
<1>4. CASE JanitorNext
  BY <1>4, LooksKeep, CleaningKeeps DEF JanitorNext
<1>5. CASE UNCHANGED vars
  <2>1. UNCHANGED <<course, sfu, conns, members, entries, pointer, joinedAt, proc, janitor, shown, lost>>
    BY <1>5 DEF vars, redis
  <2>2. TypeOK' /\ ConnInv' /\ KeysInv' /\ LostInv'
    BY <2>1 DEF Inv, TypeOK, ConnInv, ConnAt, ReadAt, At, Leaving, KeysInv, LostInv, Owing
  <2>3. RosterInv' /\ ShownInv'
    BY <2>1 DEF Inv, RosterInv, Attended, Haunted, Cleans, Owing, At, Leaving, Recorded, ShownInv
  <2>4. SeatInv' /\ OneRoomInv' /\ PointerInv' /\ AnnouncedInv'
    BY <2>1 DEF Inv, SeatInv, SeatAt, At, OneRoomInv, Joins, Answered, Leaving, PointerInv, Calm,
       SomeLeftLost, Live, AnnouncedInv, Lost
  <2> QED
    BY <2>2, <2>3, <2>4 DEF Inv
<1> QED
  BY <1>1, <1>2, <1>3, <1>4, <1>5 DEF Next

\* The inductive invariant: who still has to act for every record, roster and client
THEOREM InvHolds == Spec => []Inv
BY InitInv, StepInv, PTL DEF Spec

\* Every variable of the voice state keeps its type
THEOREM TypeCorrect == Spec => []TypeOK
<1>1. Inv => TypeOK
  BY DEF Inv
<1> QED
  BY <1>1, InvHolds, PTL

\* At rest who has no connection in the call is on no roster and shown to nobody, whatever was
\* retried, removed, repaired or swept, unless a leave was lost
THEOREM NoGhosts == Spec => []NoGhost
<1>1. Inv => NoGhost
  <2> SUFFICES ASSUME Inv, AtRest, NEW c \in Channels, Live(c) = {}
               PROVE  /\ c \in members => Lost("ghost", c) # {}
                      /\ shown[c] = "in" => Lost("left", c) # {}
    BY DEF NoGhost
  <2> USE DEF Inv
  <2>1. ASSUME NEW y \in Of(c) PROVE ~Owing(y) /\ ~Cleans(y) /\ ~At(y, "leave")
    <3>1. y \in Conns /\ sfu[y] # "live"
      BY DEF Live, Of
    <3>2. CASE sfu[y] = "new"
      BY <3>1, <3>2 DEF ConnInv, ConnAt, Owing, Cleans, At
    <3>3. CASE sfu[y] = "gone"
      BY <3>1, <3>3 DEF AtRest, Owing, Cleans, At
    <3> QED
      BY <3>1, <3>2, <3>3 DEF TypeOK
  <2>2. ASSUME c \in members PROVE Lost("ghost", c) # {}
    <3>1. Haunted(c)
      BY <2>1, <2>2 DEF RosterInv, Attended
    <3> QED
      BY <3>1 DEF Haunted, Lost
  <2>3. ASSUME shown[c] = "in" PROVE Lost("left", c) # {}
    <3>1. PICK y \in Of(c) : <<"left", y>> \in lost
      BY <2>1, <2>3 DEF ShownInv
    <3> QED
      BY <3>1 DEF Lost
  <2> QED
    BY <2>2, <2>3
<1> QED
  BY <1>1, InvHolds, PTL

\* At rest whoever is in the call is recorded, on the roster and readable, if nobody is ahead of
\* the webhooks and neither readers nor the sweep nor torn pipelines interfere
THEOREM Seen == Spec => []ConnectedIsSeen
<1>1. Inv => ConnectedIsSeen
  <2> SUFFICES ASSUME Inv, AtRest, Calm, NEW s \in Conns, InCall(s)
               PROVE  /\ s \in conns
                      /\ Room[s] \in members \cap entries
                      /\ \/ pointer = Room[s] /\ joinedAt # None
                         \/ \E c \in Channels : Lost("left", c) # {}
    BY DEF ConnectedIsSeen
  <2> USE DEF Inv
  <2>1. s \in conns /\ Room[s] \in members /\ Room[s] \in Channels
    BY RoomAssumption DEF SeatInv, SeatAt, Calm, InCall, At
  <2>2. Room[s] \in entries
    BY <2>1 DEF RosterInv
  <2>3. CASE SomeLeftLost
    <3>1. PICK t \in Conns : <<"left", t>> \in lost
      BY <2>3 DEF SomeLeftLost
    <3>2. Room[t] \in Channels /\ <<"left", t>> \in Lost("left", Room[t])
      BY <3>1, RoomAssumption DEF Lost, Of
    <3> QED
      BY <2>1, <2>2, <3>2
  <2>4. CASE ~SomeLeftLost
    <3>1. s \in Live(Room[s])
      BY DEF InCall, Live, Of
    <3>2. pointer = Room[s]
      BY <2>1, <2>4, <3>1 DEF PointerInv
    <3>3. joinedAt # None
      BY <2>1, <3>2, NoneAssumption DEF KeysInv
    <3> QED
      BY <2>1, <2>2, <3>2, <3>3
  <2> QED
    BY <2>3, <2>4
<1> QED
  BY <1>1, InvHolds, PTL

\* At rest whoever is in the call was announced, under the same circumstances and unless a join
\* was given up or removed for a cap
THEOREM Announced == Spec => []ConnectedIsShown
<1>1. Inv => ConnectedIsShown
  <2> SUFFICES ASSUME Inv, AtRest, Calm, NEW s \in Conns, InCall(s), shown[Room[s]] = "out",
                      Lost("joined", Room[s]) \cup Lost("capped", Room[s]) = {}
               PROVE  FALSE
    BY DEF ConnectedIsShown
  <2> USE DEF Inv
  <2>1. Room[s] \in members
    BY DEF SeatInv, SeatAt, Calm, InCall, At
  <2>2. joinedAt \in Of(Room[s]) /\ proc[joinedAt].pc \in Announces
    BY <2>1 DEF AnnouncedInv, Announces
  <2>3. joinedAt \in Conns /\ sfu[joinedAt] # "new"
    BY <2>2, NoneAssumption DEF Of, KeysInv
  <2> QED
    BY <2>2, <2>3 DEF AtRest, Announces
<1> QED
  BY <1>1, InvHolds, PTL
=============================================================================
