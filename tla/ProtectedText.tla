---------------------------- MODULE ProtectedText ----------------------------
(***************************************************************************)
(* One protected channel: its entitlement, its owner-signed seat list, the *)
(* seats, the open Text MLS group, and the server memberships they depend  *)
(* on.  Every write of more than one document is a MongoDB transaction on  *)
(* a snapshot, and two transactions conflict only when they WRITE a common *)
(* document: a transaction that merely reads what it depends on has to     *)
(* write it too (txn_serial).  A transaction is two actions here: Begin    *)
(* reads the snapshot and plans the writes, Commit applies them.  Whoever  *)
(* writes one of the planned documents in between sends it back to Begin.  *)
(* Which documents each transaction writes is what this module is about.   *)
(***************************************************************************)
EXTENDS Naturals, FiniteSets

CONSTANTS
    Users, Devices,
    UserOf,         \* the user of each device
    Owner,          \* the server's owner, who signs the lists
    Requests,       \* concurrent requests
    Caps,           \* slot caps staff may grant, the first one at least
    FirstCap,
    MaxChange,      \* bound: devices a commit adds and removes
    MaxVersion,     \* bound: versions of the seat list
    MaxEpoch,       \* bound: epochs of a group
    MaxGeneration   \* MAX_TEXT_GROUP_GENERATION

ASSUME TextUsers == IsFiniteSet(Users)
ASSUME TextOwner == Owner \in Users
ASSUME TextDevices == UserOf \in [Devices -> Users]
ASSUME TextCaps == Caps \subseteq Nat \ {0} /\ FirstCap \in Caps
ASSUME TextBounds == {MaxChange, MaxVersion, MaxEpoch, MaxGeneration} \subseteq Nat

VARIABLES
    db,         \* the documents
    posts,      \* plaintext messages: "kept" by their request, or a "stray" one of a dead request
    req,        \* the requests in progress
    struck,     \* history: listed users the server has released since that list
    abandoned,  \* history: users whose removal died before its second release, until a release
                \* takes their seat
    overran     \* history: a request reactivated a seat that lapsed while it ran

vars == <<db, posts, req, struck, abandoned, overran>>
history == <<struck, abandoned, overran>>
-----------------------------------------------------------------------------
(* Documents.  A seat row is "none", "active", "cooling" or "lapsed": the  *)
(* last two are one released row, before and after its cooldown_until.     *)

Entitlement == <<"entitlement">>
List == <<"list">>
Group == <<"group">>
Channel == <<"channel">>
Seat(u) == <<"seat", u>>
Member(u) == <<"member", u>>

Docs == {Entitlement, List, Group, Channel} \cup UNION {{Seat(u), Member(u)} : u \in Users}

NoList == [version |-> 0, seats |-> {}, signer |-> {}]
NoGroup == [generation |-> 0, epoch |-> 0, members |-> {}, pending |-> {}, ad |-> 0]

Empty == [d \in Docs |-> CASE d = Entitlement -> 0
                          [] d = List -> NoList
                          [] d = Group -> NoGroup
                          [] d = Channel -> "open"
                          [] d[1] = "seat" -> "none"
                          [] d[1] = "member" -> TRUE]

DevicesOf(u) == {d \in Devices : UserOf[d] = u}
Open(group) == group.members # {}
Has(group, u) == \E d \in group.members : UserOf[d] = u
Active(u) == db[Seat(u)] = "active"

\* is_cooling at the request's `now`, taken when it arrived: it outlives every retry
Cooling(t, u) == db[Seat(u)] = "cooling" \/ (db[Seat(u)] = "lapsed" /\ u \notin t.lapsed)
\* channel_seats_used
Used(t) == Cardinality({u \in Users : Active(u) \/ Cooling(t, u)})

Nothing == [d \in {} |-> 0]
Idle == [kind |-> "none", stage |-> "idle", user |-> Owner, cap |-> 0, seats |-> {},
         version |-> 0, generation |-> 0, epoch |-> 0, added |-> {}, removed |-> {}, device |-> {},
         lapsed |-> {}, again |-> FALSE, plan |-> Nothing]

Init ==
    /\ db = [Empty EXCEPT ![Entitlement] = FirstCap]
    /\ posts = {}
    /\ req = [r \in Requests |-> Idle]
    /\ struck = {} /\ abandoned = {} /\ overran = FALSE
-----------------------------------------------------------------------------
(* What a transaction may do on its snapshot, and the documents it writes: *)
(* a function from them to their new contents.                             *)

\* upsert_entitlement_attempt
GrantAllowed(t) == Used(t) <= t.cap
Grant(t) == [d \in {Entitlement} |-> t.cap]

\* Mutant: the list may go on naming somebody the server removed
RemovedNobody(t) == {}

\* plan_seat_list_write
Removed(t) == {u \in (t.seats \cap db[List].seats) \ {Owner} : ~Active(u)}
Claimed(t) == {u \in t.seats : ~Active(u)}
NewSlots(t) == {u \in Claimed(t) : ~Cooling(t, u)}
Unseated(t) == {u \in Users \ t.seats : Active(u)}

Dropped(t) == {u \in (Unseated(t) \cup db[List].seats) \ t.seats : Has(db[Group], u)}

ListAllowed(t) ==
    /\ t.version = db[List].version + 1
    /\ Removed(t) = {}
    /\ Open(db[Group]) => t.device \subseteq db[Group].members
    /\ Claimed(t) # {} =>
         /\ db[Entitlement] > 0
         /\ NewSlots(t) # {} => Used(t) + Cardinality(NewSlots(t)) <= db[Entitlement]
         /\ \A u \in Claimed(t) : db[Member(u)]

ProtectAllowed(t) ==
    /\ db[Channel] = "open"
    /\ posts = {} /\ \A r \in Requests : req[r].stage # "hold"
    /\ db[Entitlement] > 0
    /\ ListAllowed(t)

\* Mutant: the entitlement is read, not written
ListWritesNoCap(t) ==
    {List} \cup (IF Open(db[Group]) THEN {Group} ELSE {})
           \cup {Member(u) : u \in Claimed(t)}
           \cup {Seat(u) : u \in Claimed(t) \cup Unseated(t)}
           \cup (IF t.kind = "protect" THEN {Channel} ELSE {})

\* Mutant: the memberships are read, not written
ListWritesNoMember(t) ==
    {List} \cup (IF Open(db[Group]) THEN {Group} ELSE {})
           \cup (IF Claimed(t) # {} THEN {Entitlement} ELSE {})
           \cup {Seat(u) : u \in Claimed(t) \cup Unseated(t)}
           \cup (IF t.kind = "protect" THEN {Channel} ELSE {})

ListWrites(t) ==
    {List} \cup (IF Open(db[Group]) THEN {Group} ELSE {})
           \cup (IF Claimed(t) # {} THEN {Entitlement} ELSE {})
           \cup {Member(u) : u \in Claimed(t)}
           \cup {Seat(u) : u \in Claimed(t) \cup Unseated(t)}
           \cup (IF t.kind = "protect" THEN {Channel} ELSE {})

\* seat_list_write_attempt, apply_decision
WriteList(t) ==
    [d \in ListWrites(t) |->
        CASE d = List -> [version |-> t.version, seats |-> t.seats, signer |-> t.device]
          [] d = Group -> [db[Group] EXCEPT !.ad = t.version, !.pending = @ \cup Dropped(t)]
          [] d = Channel -> "protected"
          [] d[1] = "seat" -> (IF d[2] \in t.seats THEN "active" ELSE "cooling")
          [] OTHER -> db[d]]

\* create_text_group_attempt
CreateAllowed(t) ==
    /\ db[List].version > 0 /\ db[List].signer = t.device
    /\ IF Open(db[Group]) THEN t.generation = db[Group].generation + 1 ELSE t.generation = 0
\* Mutant: the list is read, not written
CreateUnbound(t) ==
    [d \in {Group} |-> [generation |-> t.generation, epoch |-> 0, members |-> t.device,
                        pending |-> {}, ad |-> db[List].version]]

Create(t) ==
    [d \in {List, Group} |->
        IF d = List THEN db[List]
        ELSE [generation |-> t.generation, epoch |-> 0, members |-> t.device,
              pending |-> {}, ad |-> db[List].version]]

\* plan_mls_text_commit.  Any device may have a rejoin intent outstanding, so every
\* member but the committer may be removed.
CommitAllowed(t) ==
    LET group == db[Group] IN
    /\ Open(group) /\ t.generation = group.generation
    /\ t.device \subseteq group.members
    /\ t.epoch = group.epoch + 1 /\ t.version = group.ad
    /\ t.added # {} => group.pending = {}
    /\ t.removed \subseteq group.members \ t.device
    /\ t.added \cap group.members = {}
    /\ \A d \in t.added : Active(UserOf[d]) /\ UserOf[d] \in db[List].seats

\* Mutant: the added users' seats are read, not written
TextCommitUnseated(t) ==
    LET members == (db[Group].members \ t.removed) \cup t.added IN
    [d \in {Group} |-> [db[Group] EXCEPT !.epoch = t.epoch, !.members = members,
                                         !.pending = {u \in @ : \E m \in members : UserOf[m] = u}]]

\* Mutant: a removal stays pending after its last device is gone
TextCommitPending(t) ==
    LET members == (db[Group].members \ t.removed) \cup t.added IN
    [d \in {Group} \cup {Seat(UserOf[a]) : a \in t.added} |->
        IF d = Group THEN [db[Group] EXCEPT !.epoch = t.epoch, !.members = members]
        ELSE db[d]]

\* text_commit_attempt
TextCommit(t) ==
    LET members == (db[Group].members \ t.removed) \cup t.added IN
    [d \in {Group} \cup {Seat(UserOf[a]) : a \in t.added} |->
        IF d = Group THEN [db[Group] EXCEPT !.epoch = t.epoch, !.members = members,
                                            !.pending = {u \in @ : \E m \in members : UserOf[m] = u}]
        ELSE db[d]]

\* release_attempt
Release(t) ==
    [d \in (IF Has(db[Group], t.user) THEN {Group} ELSE {})
           \cup (IF Active(t.user) THEN {Seat(t.user)} ELSE {}) |->
        IF d = Group THEN [db[Group] EXCEPT !.pending = @ \cup {t.user}] ELSE "cooling"]

\* delete_attempt
Cascade(t) ==
    [d \in {d \in Docs : d[1] \notin {"channel", "member"} /\ db[d] # Empty[d]} |-> Empty[d]]

Allowed(t) ==
    CASE t.kind = "grant" -> GrantAllowed(t)
      [] t.kind = "protect" -> ProtectAllowed(t)
      [] t.kind = "put" -> db[List].version > 0 /\ ListAllowed(t)
      [] t.kind = "create" -> CreateAllowed(t)
      [] t.kind = "commit" -> CommitAllowed(t)
      [] OTHER -> TRUE

Plan(t) ==
    CASE t.kind = "grant" -> Grant(t)
      [] t.kind \in {"protect", "put"} -> WriteList(t)
      [] t.kind = "create" -> Create(t)
      [] t.kind = "commit" -> TextCommit(t)
      [] t.kind = "delete" -> Cascade(t)
      [] OTHER -> IF db[Entitlement] > 0 THEN Release(t) ELSE Nothing
-----------------------------------------------------------------------------
(* Transactions                                                            *)

Moves(r, t) == req' = [req EXCEPT ![r] = t]
At(r, stage) == req[r].stage = stage
Waits(t, stage) == [t EXCEPT !.stage = stage, !.plan = Nothing]

\* A write conflict: a transaction that meets a document written since its snapshot is
\* aborted, and run again as a whole
Conflict(r, writes) ==
    [q \in Requests |-> IF q # r /\ DOMAIN req[q].plan \cap writes # {} THEN Waits(req[q], "begin")
                        ELSE req[q]]

Begin(r) ==
    /\ At(r, "begin")
    /\ Allowed(req[r])
    /\ Moves(r, [req[r] EXCEPT !.stage = "staged", !.plan = Plan(req[r])])
    /\ UNCHANGED <<db, posts, history>>

Refuse(r) ==
    /\ At(r, "begin")
    /\ ~Allowed(req[r])
    /\ Moves(r, Idle)
    /\ UNCHANGED <<db, posts, history>>

\* What the request does once its transaction has committed
After(t) ==
    CASE t.kind = "remove" /\ ~t.again -> Waits(t, "soft_delete")
      [] t.kind = "join" -> Waits(t, "insert")
      [] t.kind = "delete" -> Waits(t, "drop")
      [] OTHER -> Idle

Releases(t) == t.kind \in {"remove", "join", "release"}

Commit(r) ==
    LET t == req[r]  writes == DOMAIN t.plan IN
    /\ At(r, "staged")
    /\ db' = [d \in Docs |-> IF d \in writes THEN t.plan[d] ELSE db[d]]
    /\ req' = [Conflict(r, writes) EXCEPT ![r] = After(t)]
    /\ struck' = CASE t.kind \in {"put", "protect"} -> struck \cap t.seats
                   [] t.kind = "delete" -> {}
                   [] Releases(t) /\ Seat(t.user) \in writes -> struck \cup ({t.user} \cap db[List].seats)
                   [] OTHER -> struck
    /\ abandoned' = IF Releases(t) /\ Seat(t.user) \in writes THEN abandoned \ {t.user} ELSE abandoned
    /\ overran' = (overran \/ /\ t.kind = "put"
                              /\ \E u \in t.seats \ t.lapsed : /\ Seat(u) \in writes
                                                               /\ db[Seat(u)] = "lapsed")
    /\ UNCHANGED posts

\* The server dies, or a call answers an error; a message not yet held stays where it is
Fail(r) ==
    LET t == req[r] IN
    /\ ~At(r, "idle")
    /\ Moves(r, Idle)
    /\ posts' = IF t.stage = "hold" THEN posts \cup {"stray"} ELSE posts
    /\ abandoned' = IF t.kind = "remove" /\ t.again THEN abandoned \cup {t.user} ELSE abandoned
    /\ UNCHANGED <<db, struck, overran>>
-----------------------------------------------------------------------------
(* Requests arrive.  What a client signs or declares it has read: the      *)
(* list's version, the group's epoch and AD are those of its arrival.      *)

Lapsed == {u \in Users : db[Seat(u)] = "lapsed"}
New(kind) == [Idle EXCEPT !.kind = kind, !.stage = "begin"]
Others == Users \ {Owner}
Start(r, t) == /\ At(r, "idle") /\ db[Channel] # "gone"
               /\ Moves(r, t) /\ UNCHANGED <<db, posts, history>>

\* grant_entitlement
StartGrant(r) == \E cap \in Caps \ {db[Entitlement]} : Start(r, [New("grant") EXCEPT !.cap = cap, !.lapsed = Lapsed])

\* protect, put_seats
StartList(r) ==
    \E seats \in SUBSET Users, d \in DevicesOf(Owner) :
        /\ Owner \in seats
        /\ db[List].version < MaxVersion
        /\ Start(r, [New(IF db[Channel] = "open" THEN "protect" ELSE "put") EXCEPT
                        !.seats = seats, !.device = {d}, !.version = db[List].version + 1,
                        !.lapsed = Lapsed])

\* create_text_group
StartCreate(r) ==
    /\ db[Channel] = "protected" /\ db[Entitlement] > 0 /\ Active(Owner)
    /\ Open(db[Group]) => db[Group].generation < MaxGeneration
    /\ Start(r, [New("create") EXCEPT !.device = db[List].signer,
                    !.generation = IF Open(db[Group]) THEN db[Group].generation + 1 ELSE 0])

\* submit_text_commit
StartCommit(r) ==
    \E d \in db[Group].members :
    \E added \in SUBSET (Devices \ db[Group].members), removed \in SUBSET (db[Group].members \ {d}) :
        /\ Cardinality(added \cup removed) <= MaxChange
        /\ \A u \in {UserOf[m] : m \in added \cup {d}} : db[Member(u)] /\ Active(u)
        /\ added # {} => db[Entitlement] > 0 /\ db[Group].pending = {}
        /\ db[Group].epoch < MaxEpoch
        /\ Start(r, [New("commit") EXCEPT !.device = {d}, !.added = added, !.removed = removed,
                        !.generation = db[Group].generation, !.epoch = db[Group].epoch + 1,
                        !.version = db[Group].ad])

\* remove_with_outcome; Member::create; ban_create of somebody who has already left
StartRemove(r) == \E u \in Others : db[Member(u)] /\ Start(r, [New("remove") EXCEPT !.user = u])
StartJoin(r) == \E u \in Others : ~db[Member(u)] /\ Start(r, [New("join") EXCEPT !.user = u])
StartRelease(r) == \E u \in Others : ~db[Member(u)] /\ Start(r, [New("release") EXCEPT !.user = u])

\* Channel::delete; insert_message
StartDelete(r) == Start(r, New("delete"))
StartPost(r) == db[Channel] = "open" /\ Start(r, [New("post") EXCEPT !.stage = "post"])
-----------------------------------------------------------------------------
(* Single writes                                                           *)

Writes(r, d, value, t) ==
    /\ db' = [db EXCEPT ![d] = value]
    /\ req' = [Conflict(r, {d}) EXCEPT ![r] = t]
    /\ UNCHANGED <<posts, history>>

\* remove_with_outcome: the membership goes, then the seats are released once more
SoftDelete(r) ==
    /\ At(r, "soft_delete")
    /\ db[Member(req[r].user)]
    /\ Writes(r, Member(req[r].user), FALSE, [Waits(req[r], "begin") EXCEPT !.again = TRUE])

\* Member::create
Insert(r) ==
    /\ At(r, "insert")
    /\ ~db[Member(req[r].user)]
    /\ Writes(r, Member(req[r].user), TRUE, Idle)

\* delete_channel
Drop(r) == At(r, "drop") /\ Writes(r, Channel, "gone", Idle)

\* insert_message
Post(r) == /\ At(r, "post") /\ Moves(r, [req[r] EXCEPT !.stage = "hold"])
           /\ UNCHANGED <<db, posts, history>>

\* Mutant: the channel is read, not written
HoldRead(r) ==
    /\ At(r, "hold")
    /\ posts' = IF db[Channel] = "open" THEN posts \cup {"kept"} ELSE posts
    /\ req' = [req EXCEPT ![r] = Idle]
    /\ UNCHANGED <<db, history>>

\* hold_channel_unprotected: the channel is written, or the message deleted again
Hold(r) ==
    /\ At(r, "hold")
    /\ LET held == db[Channel] = "open" IN
       /\ posts' = IF held THEN posts \cup {"kept"} ELSE posts
       /\ req' = [Conflict(r, IF held THEN {Channel} ELSE {}) EXCEPT ![r] = Idle]
    /\ UNCHANGED <<db, history>>

\* A cooldown runs out.  Nothing is written.
Lapse(u) ==
    /\ db[Seat(u)] = "cooling"
    /\ db' = [db EXCEPT ![Seat(u)] = "lapsed"]
    /\ UNCHANGED <<posts, req, history>>

Next ==
    \/ \E r \in Requests :
         \/ StartGrant(r) \/ StartList(r) \/ StartCreate(r) \/ StartCommit(r) \/ StartRemove(r)
         \/ StartJoin(r) \/ StartRelease(r) \/ StartDelete(r) \/ StartPost(r)
         \/ Begin(r) \/ Refuse(r) \/ Commit(r) \/ Fail(r)
         \/ SoftDelete(r) \/ Insert(r) \/ Drop(r) \/ Post(r) \/ Hold(r)
    \/ \E u \in Users : Lapse(u)

Spec == Init /\ [][Next]_vars
-----------------------------------------------------------------------------
(* Properties                                                              *)

Caps0 == Caps \cup {0}
GroupRows == [generation : 0..MaxGeneration, epoch : 0..MaxEpoch, members : SUBSET Devices,
              pending : SUBSET Users, ad : 0..MaxVersion]

\* The documents hold what the drivers store: versions, epochs and generations within
\* their bounds, and a document is written by one transaction at a time
TypeOK ==
    /\ DOMAIN db = Docs
    /\ db[Entitlement] \in Caps0
    /\ db[List] \in [version : 0..MaxVersion, seats : SUBSET Users, signer : SUBSET Devices]
    /\ db[Group] \in GroupRows
    /\ db[Channel] \in {"open", "protected", "gone"}
    /\ \A u \in Users : /\ db[Seat(u)] \in {"none", "active", "cooling", "lapsed"}
                        /\ db[Member(u)] \in BOOLEAN
    /\ posts \subseteq {"kept", "stray"}
    /\ \A r \in Requests : DOMAIN req[r].plan \subseteq Docs
    /\ struck \subseteq Users /\ abandoned \subseteq Users /\ overran \in BOOLEAN

\* Every device that can decrypt belongs to a user who is seated and on the signed list, or
\* whose removal the group still owes: a kick between a commit's checks and its write is never lost
RosterSeated ==
    \A d \in db[Group].members : LET u == UserOf[d] IN
        u \in db[Group].pending \/ (Active(u) /\ u \in db[List].seats)

\* A pending removal refuses every Add, so it names a user a Remove can still take out: one
\* that named nobody would close the group to new devices for good
PendingRemovable == \A u \in db[Group].pending : Has(db[Group], u)

\* An open Text group is bound to the newest list, whatever creates, lists and the channel's
\* deletion interleave: commits made under an older list are refused
BoundToList == Open(db[Group]) => db[List].version > 0 /\ db[Group].ad = db[List].version

\* Seats in use stay within the slot cap, though claims and a lowered cap check it in
\* different transactions; excepted is a seat reactivated by a request older than its lapse
WithinCap ==
    Cardinality({u \in Users : db[Seat(u)] \in {"active", "cooling"}}) <= db[Entitlement]
        \/ overran

\* Somebody the server removed is not seated again by a list that merely kept naming them,
\* not after they rejoined either, until a list without them has landed
NotReseated == \A u \in struck : ~Active(u)

\* Only members hold seats, once a removal's second release has run: a list that lands
\* between the first release and the end of the membership is undone
SeatedAreMembers ==
    \A u \in Users : Active(u) /\ ~db[Member(u)] =>
        \/ u \in abandoned
        \/ \E r \in Requests : req[r].kind = "remove" /\ req[r].user = u /\ req[r].again

\* No plaintext message is accepted in a protected channel, though the message and the
\* protect each check for the other before they write
NoPlaintext == db[Channel] = "protected" => "kept" \notin posts
=============================================================================
