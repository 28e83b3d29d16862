------------------------ MODULE ProtectedTextProofs ------------------------
(***************************************************************************)
(* Proofs about ProtectedText for any users, devices, requests and bounds. *)
(* What a staged transaction knows of its snapshot is still true when it   *)
(* commits, because whoever could have made it false wrote a document the  *)
(* transaction writes.  The facts are stated of a database b and a request *)
(* t rather than of the variables, so that the lemmas about them are about *)
(* two databases, before and after a write.                                *)
(***************************************************************************)
EXTENDS ProtectedText, FiniteSetTheorems, TLAPS

-----------------------------------------------------------------------------
(* What holds of the documents                                             *)

Held(b, u) == b[Seat(u)] = "active"
InUse(b) == {u \in Users : b[Seat(u)] \in {"active", "cooling"}}

Rows(b) ==
    /\ b = [d \in Docs |-> b[d]]
    /\ b[Entitlement] \in Caps0
    /\ b[List] \in [version : 0..MaxVersion, seats : SUBSET Users, signer : SUBSET Devices]
    /\ b[Group] \in GroupRows
    /\ b[Channel] \in {"open", "protected", "gone"}
    /\ \A u \in Users : /\ b[Seat(u)] \in {"none", "active", "cooling", "lapsed"}
                        /\ b[Member(u)] \in BOOLEAN

Roster(b) ==
    \A d \in b[Group].members :
        \/ UserOf[d] \in b[Group].pending
        \/ Held(b, UserOf[d]) /\ UserOf[d] \in b[List].seats

\* Seats and groups exist only under a list, which its owner signed, names and is seated by
Listed(b) ==
    /\ \A u \in b[Group].pending : Has(b[Group], u)
    /\ Open(b[Group]) => b[List].version > 0 /\ b[Group].ad = b[List].version
    /\ b[List].version = 0 => b[Group] = NoGroup /\ \A u \in Users : b[Seat(u)] = "none"
    /\ b[List].version > 0 => /\ Owner \in b[List].seats /\ Held(b, Owner)
                              /\ b[List].signer \subseteq DevicesOf(Owner)
    /\ b[Entitlement] = 0 => \A u \in Users : ~Held(b, u)
    /\ b[Channel] = "open" => b[List].version = 0

Good(b) == Rows(b) /\ Roster(b) /\ Listed(b)

-----------------------------------------------------------------------------
(* What a staged transaction knows: P is the documents it will write       *)

StagedGrant(b, t) == DOMAIN t.plan = {Entitlement} /\ t.plan[Entitlement] = t.cap

StagedList(b, t) ==
    LET P == DOMAIN t.plan IN
    /\ List \in P /\ t.plan[List] = [version |-> t.version, seats |-> t.seats, signer |-> t.device]
    /\ t.version = b[List].version + 1
    /\ Group \in P <=> Open(b[Group])
    /\ Group \in P =>
         \E x \in SUBSET Users :
            /\ t.plan[Group] = [b[Group] EXCEPT !.ad = t.version, !.pending = b[Group].pending \cup x]
            /\ \A u \in x : Has(b[Group], u)
            /\ \A u \in Users : Has(b[Group], u) => u \in t.seats \cup b[Group].pending \cup x
    /\ Entitlement \in P => t.plan[Entitlement] = b[Entitlement] /\ b[Entitlement] > 0
    /\ \A u \in Users :
         /\ Member(u) \in P => t.plan[Member(u)] = b[Member(u)]
         /\ Seat(u) \in P => t.plan[Seat(u)] = IF u \in t.seats THEN "active" ELSE "cooling"
         /\ Seat(u) \in P /\ u \in t.seats =>
              /\ Entitlement \in P /\ Member(u) \in P /\ b[Member(u)]
              /\ ~Held(b, u) /\ u \notin b[List].seats \ {Owner}
         /\ u \notin t.seats => (Seat(u) \in P <=> Held(b, u))
         /\ u \in t.seats /\ Seat(u) \notin P /\ Has(b[Group], u) => Held(b, u)
    /\ Seat(Owner) \notin P => b[List].version > 0
    /\ Channel \in P <=> t.kind = "protect"
    /\ t.kind = "protect" => t.plan[Channel] = "protected" /\ b[Channel] = "open"
    /\ t.kind = "put" => b[List].version > 0

StagedCreate(b, t) ==
    /\ DOMAIN t.plan = {List, Group}
    /\ t.plan[List] = b[List] /\ b[List].version > 0
    /\ t.plan[Group] = [generation |-> t.generation, epoch |-> 0, members |-> b[List].signer,
                        pending |-> {}, ad |-> b[List].version]

StagedCommit(b, t) ==
    LET members == (b[Group].members \ t.removed) \cup t.added IN
    /\ Open(b[Group])
    /\ DOMAIN t.plan = {Group} \cup {Seat(UserOf[a]) : a \in t.added}
    /\ t.plan[Group] = [b[Group] EXCEPT !.epoch = t.epoch, !.members = members,
                            !.pending = {u \in b[Group].pending : \E m \in members : UserOf[m] = u}]
    /\ \A a \in t.added : /\ t.plan[Seat(UserOf[a])] = "active" /\ Held(b, UserOf[a])
                          /\ UserOf[a] \in b[List].seats

StagedRelease(b, t) ==
    LET P == DOMAIN t.plan IN
    /\ P \subseteq {Group, Seat(t.user)}
    /\ Group \in P => /\ Has(b[Group], t.user)
                      /\ t.plan[Group] = [b[Group] EXCEPT !.pending = b[Group].pending \cup {t.user}]
    /\ Seat(t.user) \in P => /\ Held(b, t.user) /\ t.plan[Seat(t.user)] = "cooling"
                             /\ Group \in P \/ ~Has(b[Group], t.user)

StagedDelete(b, t) ==
    LET P == DOMAIN t.plan IN
    /\ Channel \notin P /\ \A u \in Users : Member(u) \notin P
    /\ \A d \in P : t.plan[d] = Empty[d]
    /\ Group \in P \/ (\E u \in Users : Seat(u) \in P) => List \in P
    /\ List \in P /\ Group \notin P => b[Group] = NoGroup
    /\ List \in P \/ Entitlement \in P =>
         \A u \in Users : Seat(u) \notin P => b[Seat(u)] = "none"

Staged(b, t) ==
    /\ t.kind = "grant" => StagedGrant(b, t)
    /\ t.kind \in {"protect", "put"} => StagedList(b, t)
    /\ t.kind = "create" => StagedCreate(b, t)
    /\ t.kind = "commit" => StagedCommit(b, t)
    /\ Releases(t) => StagedRelease(b, t)
    /\ t.kind = "delete" => StagedDelete(b, t)

\* The seats in use once the transaction has committed fit the cap it leaves
Claims(t) == {u \in t.seats : Seat(u) \in DOMAIN t.plan}
LapsedClaim(b, t) == \E u \in Claims(t) \ t.lapsed : b[Seat(u)] = "lapsed"
Fits(b, t, o) ==
    /\ t.kind = "grant" => Cardinality(InUse(b)) <= t.cap
    /\ t.kind \in {"protect", "put"} /\ Entitlement \in DOMAIN t.plan =>
         \/ Cardinality(InUse(b) \cup Claims(t)) <= b[Entitlement]
         \/ o \/ LapsedClaim(b, t)

-----------------------------------------------------------------------------
(* The requests, and the inductive invariant                               *)

Kinds == {"none", "grant", "protect", "put", "create", "commit", "remove", "join", "release",
          "delete", "post"}
Stages == {"idle", "begin", "staged", "soft_delete", "insert", "drop", "post", "hold"}

Fields(t) ==
    t = [kind |-> t.kind, stage |-> t.stage, user |-> t.user, cap |-> t.cap, seats |-> t.seats,
         version |-> t.version, generation |-> t.generation, epoch |-> t.epoch,
         added |-> t.added, removed |-> t.removed, device |-> t.device,
         lapsed |-> t.lapsed, again |-> t.again, plan |-> t.plan]

Shape(t) ==
    /\ Fields(t)
    /\ t.kind \in Kinds /\ t.stage \in Stages
    /\ t.user \in Users /\ t.cap \in Caps0 /\ t.seats \subseteq Users /\ t.lapsed \subseteq Users
    /\ t.version \in 0..MaxVersion /\ t.generation \in 0..MaxGeneration /\ t.epoch \in 0..MaxEpoch
    /\ t.added \subseteq Devices /\ t.removed \subseteq Devices /\ t.device \subseteq Devices
    /\ t.again \in BOOLEAN /\ DOMAIN t.plan \subseteq Docs

Proper(t) ==
    /\ t.stage # "staged" => DOMAIN t.plan = {}
    /\ t.stage \in {"begin", "staged"} => t.kind \notin {"none", "post"}
    /\ t.stage = "soft_delete" => t.kind = "remove"
    /\ t.again => t.kind = "remove" /\ t.stage \in {"begin", "staged"}
    /\ Releases(t) => t.user # Owner
    /\ t.kind = "grant" => t.cap \in Caps
    /\ t.kind \in {"protect", "put"} => Owner \in t.seats /\ t.device \subseteq DevicesOf(Owner)

\* A removal that will still take the seat of u
Retakes(t, u) ==
    /\ t.kind = "remove" /\ t.user = u /\ t.again
    /\ t.stage = "staged" => Seat(u) \in DOMAIN t.plan

Fitted == Cardinality(InUse(db)) <= db[Entitlement] \/ overran
Struck == struck \subseteq db[List].seats \ {Owner} /\ \A u \in struck : ~Held(db, u)
Orphans ==
    \A u \in Users : Held(db, u) /\ ~db[Member(u)] =>
        u \in abandoned \/ \E r \in Requests : Retakes(req[r], u)

\* b the documents, k the posts, o whether a request overran
Known(b, k, o, t) ==
    /\ Shape(t) /\ Proper(t)
    /\ t.stage = "staged" => /\ Staged(b, t) /\ Fits(b, t, o)
                             /\ t.kind = "protect" => "kept" \notin k

Inv ==
    /\ Good(db) /\ Fitted /\ Struck /\ Orphans /\ NoPlaintext
    /\ posts \subseteq {"kept", "stray"}
    /\ abandoned \subseteq Users /\ overran \in BOOLEAN
    /\ req = [r \in Requests |-> req[r]]
    /\ \A r \in Requests : Known(db, posts, overran, req[r])

-----------------------------------------------------------------------------
(* The documents are distinct                                              *)

\* The documents are distinct, and each is one of the kinds
LEMMA DocFacts ==
    /\ {Entitlement, List, Group, Channel} \subseteq Docs
    /\ Entitlement # List /\ Entitlement # Group /\ Entitlement # Channel
    /\ List # Group /\ List # Channel /\ Group # Channel
    /\ \A u \in Users : /\ Seat(u) \in Docs /\ Member(u) \in Docs
                        /\ Seat(u) \notin {Entitlement, List, Group, Channel}
                        /\ Member(u) \notin {Entitlement, List, Group, Channel}
    /\ \A u, v \in Users : /\ Seat(u) # Member(v)
                           /\ Seat(u) = Seat(v) => u = v
                           /\ Member(u) = Member(v) => u = v
    /\ \A d \in Docs : \/ d \in {Entitlement, List, Group, Channel}
                       \/ \E u \in Users : d = Seat(u) \/ d = Member(u)
<1>1. /\ Entitlement[1] = "entitlement" /\ List[1] = "list" /\ Group[1] = "group"
      /\ Channel[1] = "channel"
  BY DEF Entitlement, List, Group, Channel
<1>2. \A u : Seat(u)[1] = "seat" /\ Seat(u)[2] = u /\ Member(u)[1] = "member" /\ Member(u)[2] = u
  BY DEF Seat, Member
<1>3. /\ {Entitlement, List, Group, Channel} \subseteq Docs
      /\ \A u \in Users : Seat(u) \in Docs /\ Member(u) \in Docs
      /\ \A d \in Docs : \/ d \in {Entitlement, List, Group, Channel}
                         \/ \E u \in Users : d = Seat(u) \/ d = Member(u)
  BY DEF Docs
<1> QED
  BY <1>1, <1>2, <1>3

\* How the documents are told apart (d[1], d[2])
LEMMA DocNames ==
    /\ List[1] = "list" /\ Group[1] = "group" /\ Channel[1] = "channel"
    /\ Entitlement[1] = "entitlement"
    /\ \A u \in Users : Seat(u)[1] = "seat" /\ Seat(u)[2] = u /\ Member(u)[1] = "member"
  BY DEF Entitlement, List, Group, Channel, Seat, Member

\* What a document holds before anything is written to it
LEMMA EmptyFacts ==
    /\ Empty = [d \in Docs |-> Empty[d]]
    /\ Empty[Entitlement] = 0 /\ Empty[List] = NoList /\ Empty[Group] = NoGroup
    /\ Empty[Channel] = "open"
    /\ \A u \in Users : Empty[Seat(u)] = "none" /\ Empty[Member(u)] = TRUE
<1>1. Empty = [d \in Docs |-> Empty[d]]
  <2> DEFINE E(d) == CASE d = Entitlement -> 0
                       [] d = List -> NoList
                       [] d = Group -> NoGroup
                       [] d = Channel -> "open"
                       [] d[1] = "seat" -> "none"
                       [] d[1] = "member" -> TRUE
  <2>1. Empty = [d \in Docs |-> E(d)]
    BY DEF Empty
  <2> HIDE DEF E
  <2> QED
    BY <2>1
<1>2. Empty[Entitlement] = 0 /\ Empty[List] = NoList /\ Empty[Group] = NoGroup
  BY DocFacts, DocNames DEF Empty
<1>3. Empty[Channel] = "open"
  BY DocFacts, DocNames DEF Empty
<1>4. ASSUME NEW u \in Users PROVE Empty[Seat(u)] = "none"
  BY DocFacts, DocNames DEF Empty
<1>5. ASSUME NEW u \in Users PROVE Empty[Member(u)] = TRUE
  BY DocFacts, DocNames DEF Empty
<1> QED
  BY <1>1, <1>2, <1>3, <1>4, <1>5

-----------------------------------------------------------------------------
(* What every write keeps to, W the documents it is seen to write: the     *)
(* discipline a transaction relies on for what it has read and not written *)

Rely(a, b, W) ==
    /\ \A d \in {Entitlement, List, Group, Channel} \ W : b[d] = a[d]
    /\ \A u \in Users :
         /\ Member(u) \notin W => b[Member(u)] = a[Member(u)]
         /\ Seat(u) \notin W => b[Seat(u)] = a[Seat(u)] \/ (a[Seat(u)] = "cooling" /\ b[Seat(u)] = "lapsed")
         /\ Held(b, u) /\ ~Held(a, u) => List \in W /\ Entitlement \in W /\ b[Member(u)]
         /\ Held(a, u) /\ ~Held(b, u) /\ Has(a[Group], u) => Group \in W
         /\ a[Seat(u)] = "none" /\ b[Seat(u)] # "none" => List \in W /\ Entitlement \in W
         /\ Has(b[Group], u) /\ ~Has(a[Group], u) => Seat(u) \in W \/ u = Owner
    /\ List \in W /\ Open(a[Group]) => Group \in W
    /\ b[Group] # a[Group] /\ ~Open(a[Group]) => List \in W
    /\ Entitlement \notin W => InUse(b) \subseteq InUse(a)

\* What a staged list write knows outlives every write it does not conflict with
LEMMA ListStable ==
    ASSUME NEW a, NEW b, NEW t, NEW W, Rows(a), Rows(b), Rely(a, b, W), Shape(t), Proper(t),
           t.kind \in {"protect", "put"}, StagedList(a, t), DOMAIN t.plan \cap W = {}
    PROVE  StagedList(b, t)
<1> DEFINE P == DOMAIN t.plan
<1> USE DocFacts
<1>1. List \in P /\ List \notin W /\ b[List] = a[List]
  BY DEF Rely, StagedList
<1>2. Open(b[Group]) <=> Open(a[Group])
  BY <1>1 DEF Rely, StagedList
<1>3. Group \in P => b[Group] = a[Group]
  BY DEF Rely
<1>4. Entitlement \in P => b[Entitlement] = a[Entitlement]
  BY DEF Rely
<1>5. Channel \in P => b[Channel] = a[Channel]
  BY DEF Rely
<1>6. ASSUME NEW u \in Users
      PROVE  /\ Member(u) \in P => b[Member(u)] = a[Member(u)]
             /\ Seat(u) \in P => (Held(b, u) <=> Held(a, u))
             /\ Held(b, u) => Held(a, u)
  BY <1>1 DEF Rely, Held
<1>7. ASSUME NEW u \in Users, Has(b[Group], u)
      PROVE  Has(a[Group], u) /\ (Held(a, u) => Held(b, u))
  <2>1. Open(b[Group])
    BY <1>7 DEF Has, Open
  <2>2. b[Group] = a[Group] /\ Group \notin W
    BY <2>1, <1>2, <1>3 DEF StagedList
  <2> QED
    BY <2>2, <1>7 DEF Rely
<1>8. List \in P /\ t.plan[List] = [version |-> t.version, seats |-> t.seats, signer |-> t.device]
  BY DEF StagedList
<1>9. t.version = b[List].version + 1 /\ (Group \in P <=> Open(b[Group]))
  BY <1>1, <1>2 DEF StagedList
<1>10. Group \in P =>
         \E x \in SUBSET Users :
            /\ t.plan[Group] = [b[Group] EXCEPT !.ad = t.version, !.pending = b[Group].pending \cup x]
            /\ \A u \in x : Has(b[Group], u)
            /\ \A u \in Users : Has(b[Group], u) => u \in t.seats \cup b[Group].pending \cup x
  BY <1>3 DEF StagedList
<1>11. Entitlement \in P => t.plan[Entitlement] = b[Entitlement] /\ b[Entitlement] > 0
  BY <1>4 DEF StagedList
<1>12. ASSUME NEW u \in Users
       PROVE /\ Member(u) \in P => t.plan[Member(u)] = b[Member(u)]
             /\ Seat(u) \in P => t.plan[Seat(u)] = IF u \in t.seats THEN "active" ELSE "cooling"
             /\ Seat(u) \in P /\ u \in t.seats =>
                  /\ Entitlement \in P /\ Member(u) \in P /\ b[Member(u)]
                  /\ ~Held(b, u) /\ u \notin b[List].seats \ {Owner}
             /\ u \notin t.seats => (Seat(u) \in P <=> Held(b, u))
             /\ u \in t.seats /\ Seat(u) \notin P /\ Has(b[Group], u) => Held(b, u)
  BY <1>1, <1>6, <1>7 DEF StagedList
<1>13. Seat(Owner) \notin P => b[List].version > 0
  BY <1>1 DEF StagedList
<1>14. /\ Channel \in P <=> t.kind = "protect"
       /\ t.kind = "protect" => t.plan[Channel] = "protected" /\ b[Channel] = "open"
       /\ t.kind = "put" => b[List].version > 0
  BY <1>1, <1>5 DEF StagedList
<1> QED
  BY <1>8, <1>9, <1>10, <1>11, <1>12, <1>13, <1>14 DEF StagedList

\* The same of a staged Text commit, create and release, and of the channel's deletion
LEMMA CommitStable ==
    ASSUME NEW a, NEW b, NEW t, NEW W, Rows(a), Rows(b), Rely(a, b, W), Shape(t),
           StagedCommit(a, t), DOMAIN t.plan \cap W = {}
    PROVE  StagedCommit(b, t)
<1> USE DocFacts
<1>1. Group \notin W /\ b[Group] = a[Group] /\ Open(a[Group])
  BY DEF Rely, StagedCommit
<1>2. List \notin W /\ b[List] = a[List]
  BY <1>1 DEF Rely
<1>3. ASSUME NEW d \in t.added PROVE Held(b, UserOf[d])
  <2>1. UserOf[d] \in Users /\ Seat(UserOf[d]) \in DOMAIN t.plan
    BY TextDevices, <1>3 DEF StagedCommit, Shape
  <2> QED
    BY <2>1, <1>3 DEF StagedCommit, Rely, Held
<1> QED
  BY <1>1, <1>2, <1>3 DEF StagedCommit

\* A create writes the list it read, so the list cannot move under it
LEMMA CreateStable ==
    ASSUME NEW a, NEW b, NEW t, NEW W, Rely(a, b, W), StagedCreate(a, t), DOMAIN t.plan \cap W = {}
    PROVE  StagedCreate(b, t)
  BY DocFacts DEF StagedCreate, Rely

\* A release that took no device with it knows that none is added: an Add writes the seat
LEMMA ReleaseStable ==
    ASSUME NEW a, NEW b, NEW t, NEW W, Rows(a), Rows(b), Rely(a, b, W), Shape(t), t.user # Owner,
           StagedRelease(a, t), DOMAIN t.plan \cap W = {}
    PROVE  StagedRelease(b, t)
<1> USE DocFacts
<1>0. t.user \in Users
  BY DEF Shape
<1>1. Group \in DOMAIN t.plan => b[Group] = a[Group]
  BY DEF Rely
<1>2. Seat(t.user) \in DOMAIN t.plan => Held(b, t.user)
  BY <1>0 DEF Rely, StagedRelease, Held
<1>3. Seat(t.user) \in DOMAIN t.plan /\ Group \notin DOMAIN t.plan => ~Has(b[Group], t.user)
  BY <1>0 DEF Rely, StagedRelease
<1> QED
  BY <1>1, <1>2, <1>3 DEF StagedRelease

\* Nothing appears in a channel between the deletion's reading and its commit
LEMMA DeleteStable ==
    ASSUME NEW a, NEW b, NEW t, NEW W, Rows(a), Rows(b), Rely(a, b, W),
           StagedDelete(a, t), DOMAIN t.plan \cap W = {}
    PROVE  StagedDelete(b, t)
<1> USE DocFacts
<1>1. List \in DOMAIN t.plan /\ Group \notin DOMAIN t.plan => b[Group] = NoGroup
  <2> SUFFICES ASSUME List \in DOMAIN t.plan, Group \notin DOMAIN t.plan PROVE b[Group] = NoGroup
    OBVIOUS
  <2>1. a[Group] = NoGroup /\ ~Open(a[Group])
    BY DEF StagedDelete, NoGroup, Open
  <2> QED
    BY <2>1 DEF Rely
<1>2. ASSUME List \in DOMAIN t.plan \/ Entitlement \in DOMAIN t.plan,
             NEW u \in Users, Seat(u) \notin DOMAIN t.plan
      PROVE  b[Seat(u)] = "none"
  BY <1>2 DEF StagedDelete, Rely
<1> QED
  BY <1>1, <1>2 DEF StagedDelete

\* A claim and a grant both write the entitlement: no seat comes into use between the check
\* of the cap and the commit
LEMMA FitsStable ==
    ASSUME NEW a, NEW b, NEW t, NEW W, NEW o, NEW p, Rows(a), Rows(b), Rely(a, b, W), Shape(t),
           t.kind = "grant" => StagedGrant(a, t), Fits(a, t, o), o => p, DOMAIN t.plan \cap W = {}
    PROVE  Fits(b, t, p)
<1> USE DocFacts
<1>1. CASE Entitlement \notin DOMAIN t.plan
  BY <1>1 DEF Fits, StagedGrant
<1>2. CASE Entitlement \in DOMAIN t.plan
  <2>1. InUse(b) \subseteq InUse(a) /\ b[Entitlement] = a[Entitlement]
    BY <1>2 DEF Rely
  <2>2. /\ IsFiniteSet(InUse(a)) /\ Cardinality(InUse(b)) <= Cardinality(InUse(a))
        /\ Cardinality(InUse(b)) \in Nat /\ Cardinality(InUse(a)) \in Nat
    <3>1. IsFiniteSet(InUse(a)) /\ IsFiniteSet(InUse(b))
      BY TextUsers, FS_Subset DEF InUse
    <3> QED
      BY <2>1, <3>1, FS_Subset, FS_CardinalityType
  <2>3. /\ Cardinality(InUse(b) \cup Claims(t)) <= Cardinality(InUse(a) \cup Claims(t))
        /\ Cardinality(InUse(b) \cup Claims(t)) \in Nat /\ Cardinality(InUse(a) \cup Claims(t)) \in Nat
    <3>1. InUse(a) \cup Claims(t) \subseteq Users /\ InUse(b) \cup Claims(t) \subseteq Users
      BY DEF InUse, Claims, Shape
    <3>2. IsFiniteSet(InUse(a) \cup Claims(t)) /\ IsFiniteSet(InUse(b) \cup Claims(t))
      BY <3>1, TextUsers, FS_Subset
    <3>3. InUse(b) \cup Claims(t) \subseteq InUse(a) \cup Claims(t)
      BY <2>1
    <3> QED
      BY <3>2, <3>3, FS_Subset, FS_CardinalityType
  <2>4. LapsedClaim(a, t) => LapsedClaim(b, t)
    <3>1. Claims(t) \subseteq Users
      BY DEF Claims, Shape
    <3> QED
      BY <3>1 DEF LapsedClaim, Claims, Rely
  <2>5. t.cap \in Nat /\ a[Entitlement] \in Nat
    BY TextCaps DEF Shape, Rows, Caps0
  <2> QED
    BY <2>1, <2>2, <2>3, <2>4, <2>5 DEF Fits
<1> QED
  BY <1>1, <1>2

\* What any staged transaction knows outlives every write it does not conflict with
LEMMA StagedStable ==
    ASSUME NEW a, NEW b, NEW t, NEW W, Rows(a), Rows(b), Rely(a, b, W), Shape(t), Proper(t),
           Staged(a, t), DOMAIN t.plan \cap W = {}
    PROVE  Staged(b, t)
<1>1. Releases(t) => StagedRelease(b, t)
  BY ReleaseStable DEF Staged, Proper
<1>2. t.kind \in {"protect", "put"} => StagedList(b, t)
  BY ListStable DEF Staged
<1>3. t.kind = "commit" => StagedCommit(b, t)
  BY CommitStable DEF Staged
<1>4. t.kind = "create" => StagedCreate(b, t)
  BY CreateStable DEF Staged
<1>5. t.kind = "delete" => StagedDelete(b, t)
  BY DeleteStable DEF Staged
<1>6. t.kind = "grant" => StagedGrant(b, t)
  BY DEF Staged, StagedGrant
<1> QED
  BY <1>1, <1>2, <1>3, <1>4, <1>5, <1>6 DEF Staged

-----------------------------------------------------------------------------
(* A transaction commits: the documents stay good, and what it did is what *)
(* the others rely on                                                      *)

Applied(a, t) == [d \in Docs |-> IF d \in DOMAIN t.plan THEN t.plan[d] ELSE a[d]]

\* A grant changes the cap alone
LEMMA GrantApplied ==
    ASSUME NEW a, NEW t, Good(a), Shape(t), Proper(t), t.kind = "grant", StagedGrant(a, t)
    PROVE  Good(Applied(a, t)) /\ Rely(a, Applied(a, t), DOMAIN t.plan)
<1> DEFINE b == Applied(a, t)
<1> USE DocFacts
<1>1. /\ b = [d \in Docs |-> b[d]] /\ b[Entitlement] = t.cap
      /\ \A d \in Docs \ {Entitlement} : b[d] = a[d]
  BY DEF Applied, StagedGrant
<1> HIDE DEF b
<1>2. t.cap \in Caps /\ t.cap > 0
  <2>1. t.cap \in Caps
    BY DEF Proper
  <2>2. t.cap \in Nat \ {0}
    BY <2>1, TextCaps
  <2> QED
    BY <2>1, <2>2
<1>3. /\ b[List] = a[List] /\ b[Group] = a[Group] /\ b[Channel] = a[Channel]
      /\ \A u \in Users : b[Seat(u)] = a[Seat(u)] /\ b[Member(u)] = a[Member(u)]
  BY <1>1
<1>4. Rows(b)
  BY <1>1, <1>2, <1>3 DEF Good, Rows, Caps0
<1>5. \A d \in Devices : UserOf[d] \in Users
  BY TextDevices
<1>6. a[Group].members \subseteq Devices
  BY DEF Good, Rows, GroupRows
<1>7. Roster(b)
  BY <1>3, <1>5, <1>6 DEF Good, Roster, Held
<1>8. Listed(b)
  BY <1>1, <1>2, <1>3, TextOwner DEF Good, Listed, Held
<1>9. Rely(a, b, {Entitlement})
  BY <1>3 DEF Rely, Held
<1> QED
  BY <1>4, <1>7, <1>8, <1>9 DEF Good, StagedGrant, b

\* A new group holds the owner's device and is bound to the list it was created under
LEMMA CreateApplied ==
    ASSUME NEW a, NEW t, Good(a), Shape(t), Proper(t), StagedCreate(a, t)
    PROVE  Good(Applied(a, t)) /\ Rely(a, Applied(a, t), DOMAIN t.plan)
<1> DEFINE b == Applied(a, t)
<1> USE DocFacts
<1>1. /\ b = [d \in Docs |-> b[d]] /\ b[List] = a[List]
      /\ b[Group] = t.plan[Group]
      /\ \A d \in Docs \ {List, Group} : b[d] = a[d]
  BY DEF Applied, StagedCreate
<1> HIDE DEF b
<1>2. /\ b[Entitlement] = a[Entitlement] /\ b[Channel] = a[Channel]
      /\ \A u \in Users : b[Seat(u)] = a[Seat(u)] /\ b[Member(u)] = a[Member(u)]
  BY <1>1
<1>3. /\ a[List].version > 0 /\ a[List].version \in 0..MaxVersion
      /\ a[List].signer \subseteq Devices
      /\ Owner \in a[List].seats /\ Held(a, Owner) /\ a[List].signer \subseteq DevicesOf(Owner)
  BY DEF Good, Rows, Listed, StagedCreate
<1>4. b[Group] = [generation |-> t.generation, epoch |-> 0, members |-> a[List].signer,
                  pending |-> {}, ad |-> a[List].version]
  BY <1>1 DEF StagedCreate
<1>5. b[Group] \in GroupRows
  BY <1>3, <1>4, TextBounds DEF GroupRows, Shape
<1>6. Rows(b)
  BY <1>1, <1>2, <1>5 DEF Good, Rows
<1>7. \A d \in b[Group].members : UserOf[d] = Owner
  BY <1>3, <1>4 DEF DevicesOf
<1>8. Roster(b)
  BY <1>1, <1>2, <1>3, <1>7, TextOwner DEF Roster, Held
<1>9. Listed(b)
  BY <1>1, <1>2, <1>3, <1>4, TextOwner DEF Good, Listed, Held
<1>10. Rely(a, b, {List, Group})
  BY <1>1, <1>2, <1>7 DEF Rely, Held, Has, InUse
<1> QED
  BY <1>6, <1>8, <1>9, <1>10 DEF Good, StagedCreate, b

\* The devices a commit adds are of seated, listed users
LEMMA CommitApplied ==
    ASSUME NEW a, NEW t, Good(a), Shape(t), Proper(t), StagedCommit(a, t)
    PROVE  Good(Applied(a, t)) /\ Rely(a, Applied(a, t), DOMAIN t.plan)
<1> DEFINE b == Applied(a, t)
           members == (a[Group].members \ t.removed) \cup t.added
           P == DOMAIN t.plan
<1> USE DocFacts
<1>1. \A d \in Devices : UserOf[d] \in Users
  BY TextDevices
<1>2. t.added \subseteq Devices /\ a[Group] \in GroupRows /\ a[Group].members \subseteq Devices
  BY DEF Shape, Good, Rows, GroupRows
<1>3. P = {Group} \cup {Seat(UserOf[x]) : x \in t.added}
  BY DEF StagedCommit
<1>4. /\ b = [d \in Docs |-> b[d]] /\ b[Group] = t.plan[Group]
      /\ b[List] = a[List] /\ b[Entitlement] = a[Entitlement] /\ b[Channel] = a[Channel]
      /\ \A u \in Users : b[Member(u)] = a[Member(u)]
  BY <1>1, <1>2, <1>3 DEF Applied
<1>5. ASSUME NEW u \in Users PROVE b[Seat(u)] = a[Seat(u)]
  <2>1. CASE Seat(u) \notin P
    BY <2>1 DEF Applied
  <2>2. CASE Seat(u) \in P
    <3>1. PICK x \in t.added : Seat(u) = Seat(UserOf[x])
      BY <2>2, <1>3
    <3>2. u = UserOf[x]
      BY <3>1, <1>1, <1>2
    <3> QED
      BY <2>2, <3>1, <3>2 DEF Applied, StagedCommit, Held
  <2> QED
    BY <2>1, <2>2
<1> HIDE DEF b
<1>6. b[Group] = [a[Group] EXCEPT !.epoch = t.epoch, !.members = members,
                      !.pending = {u \in a[Group].pending : \E m \in members : UserOf[m] = u}]
  BY <1>4 DEF StagedCommit
<1>7. /\ b[Group] \in GroupRows /\ b[Group].members = members /\ b[Group].ad = a[Group].ad
      /\ b[Group].pending = {u \in a[Group].pending : \E m \in members : UserOf[m] = u}
  BY <1>2, <1>6 DEF GroupRows, Shape
<1>8. Rows(b)
  BY <1>4, <1>5, <1>7 DEF Good, Rows
<1>9. ASSUME NEW d \in members
      PROVE UserOf[d] \in b[Group].pending \/ (Held(b, UserOf[d]) /\ UserOf[d] \in b[List].seats)
  <2>1. CASE d \in t.added
    BY <2>1, <1>1, <1>2, <1>4, <1>5 DEF StagedCommit, Held
  <2>2. CASE d \in a[Group].members
    BY <2>2, <1>1, <1>2, <1>4, <1>5, <1>7 DEF Good, Roster, Held
  <2> QED
    BY <2>1, <2>2
<1>10. Roster(b)
  BY <1>7, <1>9 DEF Roster
<1>11. a[List].version > 0 /\ a[Group].ad = a[List].version
  BY DEF StagedCommit, Good, Listed
<1>12. \A u \in b[Group].pending : Has(b[Group], u)
  BY <1>7 DEF Has
<1>13. Listed(b)
  <2>1. a[List].version # 0
    BY <1>11, TextBounds DEF Good, Rows
  <2> QED
    BY <2>1, <1>4, <1>5, <1>7, <1>11, <1>12, TextOwner DEF Good, Listed, Held
<1>14. ASSUME NEW u \in Users, Has(b[Group], u), ~Has(a[Group], u)
       PROVE  Seat(u) \in P
  BY <1>14, <1>7, <1>3 DEF Has
<1>15. InUse(b) = InUse(a)
  BY <1>5 DEF InUse
<1>16. Rely(a, b, P)
  BY <1>3, <1>4, <1>5, <1>14, <1>15 DEF Rely, Held, StagedCommit
<1> QED
  BY <1>8, <1>10, <1>13, <1>16 DEF Good, b

\* A release takes the seat and owes the group the removal together, whichever applies
LEMMA ReleaseApplied ==
    ASSUME NEW a, NEW t, Good(a), Shape(t), t.user # Owner, StagedRelease(a, t)
    PROVE  /\ Good(Applied(a, t)) /\ Rely(a, Applied(a, t), DOMAIN t.plan)
           /\ \A u \in Users : Held(Applied(a, t), u) => Held(a, u)
<1> DEFINE b == Applied(a, t)
           P == DOMAIN t.plan
           v == t.user
<1> USE DocFacts
<1>1. v \in Users /\ P \subseteq {Group, Seat(v)}
  BY DEF Shape, StagedRelease
<1>2. /\ b = [d \in Docs |-> b[d]]
      /\ b[List] = a[List] /\ b[Entitlement] = a[Entitlement] /\ b[Channel] = a[Channel]
      /\ \A u \in Users : b[Member(u)] = a[Member(u)]
      /\ \A u \in Users \ {v} : b[Seat(u)] = a[Seat(u)]
  BY <1>1 DEF Applied
<1>3. /\ Seat(v) \in P => a[Seat(v)] = "active" /\ b[Seat(v)] = "cooling"
      /\ Seat(v) \notin P => b[Seat(v)] = a[Seat(v)]
  BY <1>1 DEF Applied, StagedRelease, Held
<1>4. /\ Group \in P => Has(a[Group], v) /\ b[Group] = [a[Group] EXCEPT !.pending = a[Group].pending \cup {v}]
      /\ Group \notin P => b[Group] = a[Group]
  BY DEF Applied, StagedRelease
<1>5. a[Group] \in GroupRows /\ a[Group].members \subseteq Devices
  BY DEF Good, Rows, GroupRows
<1> HIDE DEF b
<1>6. /\ b[Group] \in GroupRows /\ b[Group].members = a[Group].members /\ b[Group].ad = a[Group].ad
      /\ b[Group].pending = IF Group \in P THEN a[Group].pending \cup {v} ELSE a[Group].pending
  BY <1>1, <1>4, <1>5 DEF GroupRows
<1>7. Rows(b)
  BY <1>2, <1>3, <1>6 DEF Good, Rows
<1>8. \A d \in Devices : UserOf[d] \in Users
  BY TextDevices
<1>9. Seat(v) \in P /\ Group \notin P => \A d \in a[Group].members : UserOf[d] # v
  BY DEF StagedRelease, Has
<1>10. Roster(b)
  <2> SUFFICES ASSUME NEW d \in a[Group].members
               PROVE UserOf[d] \in b[Group].pending \/ (Held(b, UserOf[d]) /\ UserOf[d] \in b[List].seats)
    BY <1>6 DEF Roster
  <2>1. CASE UserOf[d] # v
    BY <2>1, <1>2, <1>5, <1>6, <1>8 DEF Good, Roster, Held
  <2>2. CASE UserOf[d] = v /\ Group \in P
    BY <2>2, <1>6
  <2>3. CASE UserOf[d] = v /\ Group \notin P
    BY <2>3, <1>2, <1>3, <1>6, <1>9 DEF Good, Roster, Held
  <2> QED
    BY <2>1, <2>2, <2>3
<1>11. \A u \in b[Group].pending : Has(b[Group], u)
  BY <1>4, <1>6 DEF Good, Listed, Has
<1>12. \A u \in Users : Held(b, u) => Held(a, u)
  BY <1>2, <1>3 DEF Held
<1>13. Listed(b)
  <2>1. CASE a[List].version = 0
    <3>1. a[Group] = NoGroup /\ \A u \in Users : a[Seat(u)] = "none"
      BY <2>1 DEF Good, Listed
    <3>2. ~Has(a[Group], v)
      BY <3>1 DEF Has, NoGroup
    <3>3. b[Group] = a[Group] /\ \A u \in Users : b[Seat(u)] = a[Seat(u)]
      BY <3>1, <3>2, <1>1, <1>2, <1>3, <1>4
    <3> QED
      BY <2>1, <3>1, <3>3, <1>2, <1>12 DEF Good, Listed, Held
  <2>2. CASE a[List].version # 0
    <3>1. Open(b[Group]) <=> Open(a[Group])
      BY <1>6 DEF Open
    <3>2. Held(b, Owner) <=> Held(a, Owner)
      BY <1>2, TextOwner DEF Held
    <3> QED
      BY <2>2, <3>1, <3>2, <1>2, <1>6, <1>11, <1>12 DEF Good, Listed
  <2> QED
    BY <2>1, <2>2
<1>14. InUse(b) \subseteq InUse(a)
  BY <1>2, <1>3 DEF InUse
<1>15. ASSUME NEW u \in Users, Held(a, u), ~Held(b, u), Has(a[Group], u) PROVE Group \in P
  BY <1>15, <1>2, <1>3, <1>9 DEF Held, Has
<1>16. \A u \in Users : Has(b[Group], u) <=> Has(a[Group], u)
  BY <1>6 DEF Has
<1>17. b[Group] # a[Group] => Open(a[Group])
  BY <1>4 DEF Has, Open
<1>18. Rely(a, b, P)
  BY <1>1, <1>2, <1>3, <1>4, <1>12, <1>14, <1>15, <1>16, <1>17 DEF Rely
<1> QED
  BY <1>7, <1>10, <1>12, <1>13, <1>18 DEF Good, b

\* The channel's deletion empties whatever the channel had
LEMMA DeleteApplied ==
    ASSUME NEW a, NEW t, Good(a), Shape(t), StagedDelete(a, t)
    PROVE  /\ Good(Applied(a, t)) /\ Rely(a, Applied(a, t), DOMAIN t.plan)
           /\ \A u \in Users : Held(Applied(a, t), u) => Held(a, u)
           /\ InUse(Applied(a, t)) \subseteq InUse(a)
           /\ Entitlement \in DOMAIN t.plan => InUse(Applied(a, t)) = {}
<1> DEFINE b == Applied(a, t)
           P == DOMAIN t.plan
<1> USE DocFacts
<1>1. b = [d \in Docs |-> b[d]]
  BY DEF Applied
<1>2. /\ b[Entitlement] = IF Entitlement \in P THEN 0 ELSE a[Entitlement]
      /\ b[List] = IF List \in P THEN NoList ELSE a[List]
      /\ b[Group] = IF Group \in P THEN NoGroup ELSE a[Group]
      /\ b[Channel] = a[Channel]
  BY EmptyFacts DEF Applied, StagedDelete
<1>3. ASSUME NEW u \in Users
      PROVE  b[Seat(u)] = (IF Seat(u) \in P THEN "none" ELSE a[Seat(u)]) /\ b[Member(u)] = a[Member(u)]
  BY EmptyFacts DEF Applied, StagedDelete
<1>4. /\ Group \in P => List \in P
      /\ \A u \in Users : Seat(u) \in P => List \in P
      /\ List \in P /\ Group \notin P => a[Group] = NoGroup
      /\ \A u \in Users : (List \in P \/ Entitlement \in P) /\ Seat(u) \notin P => a[Seat(u)] = "none"
  BY DEF StagedDelete
<1> HIDE DEF b
<1>5. NoGroup \in GroupRows /\ ~Open(NoGroup) /\ NoGroup.members = {} /\ NoGroup.pending = {}
  BY TextBounds DEF NoGroup, GroupRows, Open
<1>6. NoList \in [version : 0..MaxVersion, seats : SUBSET Users, signer : SUBSET Devices] /\ NoList.version = 0
  BY TextBounds DEF NoList
<1>7. Rows(b)
  <2>1. b[Entitlement] \in Caps0
    BY <1>2 DEF Good, Rows, Caps0
  <2>2. b[List] \in [version : 0..MaxVersion, seats : SUBSET Users, signer : SUBSET Devices]
    BY <1>2, <1>6 DEF Good, Rows
  <2>3. b[Group] \in GroupRows
    BY <1>2, <1>5 DEF Good, Rows
  <2> QED
    BY <2>1, <2>2, <2>3, <1>1, <1>2, <1>3 DEF Good, Rows
<1>8. List \in P => b[Group] = NoGroup /\ \A u \in Users : b[Seat(u)] = "none"
  BY <1>2, <1>3, <1>4
<1>9. List \notin P => b[Group] = a[Group] /\ b[List] = a[List] /\ \A u \in Users : b[Seat(u)] = a[Seat(u)]
  BY <1>2, <1>3, <1>4
<1>10. Entitlement \in P => \A u \in Users : b[Seat(u)] = "none"
  BY <1>3, <1>4
<1>11. \A d \in Devices : UserOf[d] \in Users
  BY TextDevices
<1>12. a[Group].members \subseteq Devices
  BY DEF Good, Rows, GroupRows
<1>13. Roster(b)
  <2>1. CASE List \in P
    BY <2>1, <1>5, <1>8 DEF Roster
  <2>2. CASE List \notin P
    BY <2>2, <1>9, <1>11, <1>12 DEF Good, Roster, Held
  <2> QED
    BY <2>1, <2>2
<1>14. \A u \in Users : Held(b, u) => Held(a, u)
  BY <1>3 DEF Held
<1>15. Listed(b)
  <2>1. CASE List \in P
    BY <2>1, <1>2, <1>5, <1>6, <1>8 DEF Listed, Held
  <2>2. CASE List \notin P
    <3>1. b[Entitlement] = 0 => \A u \in Users : ~Held(b, u)
      BY <1>2, <1>10, <1>14 DEF Good, Listed, Held
    <3>2. Held(b, Owner) <=> Held(a, Owner)
      BY <2>2, <1>9, TextOwner DEF Held
    <3> QED
      BY <2>2, <3>1, <3>2, <1>2, <1>9 DEF Good, Listed
  <2> QED
    BY <2>1, <2>2
<1>16. InUse(b) \subseteq InUse(a) /\ (Entitlement \in P => InUse(b) = {})
  BY <1>3, <1>10 DEF InUse
<1>17. Rely(a, b, P)
  <2>1. \A u \in Users : ~Has(NoGroup, u)
    BY <1>5 DEF Has
  <2>2. ASSUME NEW u \in Users, Held(a, u), ~Held(b, u), Has(a[Group], u) PROVE Group \in P
    BY <2>1, <2>2, <1>3, <1>4 DEF Held
  <2>3. ASSUME NEW u \in Users, Has(b[Group], u) PROVE Has(a[Group], u)
    BY <2>1, <2>3, <1>2
  <2>4. List \in P /\ Open(a[Group]) => Group \in P
    BY <1>4, <1>5
  <2>5. b[Group] # a[Group] => List \in P
    BY <1>2, <1>4
  <2> QED
    BY <2>2, <2>3, <2>4, <2>5, <1>2, <1>3, <1>14, <1>16 DEF Rely
<1> QED
  BY <1>7, <1>13, <1>14, <1>15, <1>16, <1>17 DEF Good, b

\* A list seats whom it names and unseats the rest, and owes the group the latter
LEMMA ListApplied ==
    ASSUME NEW a, NEW t, Good(a), Shape(t), Proper(t), t.kind \in {"protect", "put"}, StagedList(a, t)
    PROVE  /\ Good(Applied(a, t)) /\ Rely(a, Applied(a, t), DOMAIN t.plan)
           /\ InUse(Applied(a, t)) \subseteq InUse(a) \cup Claims(t)
           /\ Applied(a, t)[List].seats = t.seats
           /\ \A u \in a[List].seats \ {Owner} : Held(Applied(a, t), u) => Held(a, u)
<1> DEFINE b == Applied(a, t)
           P == DOMAIN t.plan
<1> USE DocFacts
<1>1. b = [d \in Docs |-> b[d]]
  BY DEF Applied
<1>2. /\ b[List] = [version |-> t.version, seats |-> t.seats, signer |-> t.device]
      /\ b[Entitlement] = a[Entitlement]
      /\ Entitlement \in P => a[Entitlement] > 0
      /\ b[Channel] = IF t.kind = "protect" THEN "protected" ELSE a[Channel]
      /\ b[Group] = IF Open(a[Group]) THEN t.plan[Group] ELSE a[Group]
      /\ Group \in P <=> Open(a[Group])
      /\ Channel \in P <=> t.kind = "protect"
      /\ List \in P
  BY DEF Applied, StagedList
<1>3. ASSUME NEW u \in Users
      PROVE  /\ b[Member(u)] = a[Member(u)]
             /\ b[Seat(u)] = IF Seat(u) \in P THEN (IF u \in t.seats THEN "active" ELSE "cooling")
                             ELSE a[Seat(u)]
  BY DEF Applied, StagedList
<1>4. ASSUME NEW u \in Users
      PROVE  /\ Seat(u) \in P /\ u \in t.seats =>
                  /\ Entitlement \in P /\ Member(u) \in P /\ a[Member(u)]
                  /\ ~Held(a, u) /\ u \notin a[List].seats \ {Owner}
             /\ u \notin t.seats => (Seat(u) \in P <=> Held(a, u))
             /\ u \in t.seats /\ Seat(u) \notin P /\ Has(a[Group], u) => Held(a, u)
  BY DEF StagedList
<1>5. /\ Seat(Owner) \notin P => a[List].version > 0
      /\ t.kind = "put" => a[List].version > 0
      /\ t.version = a[List].version + 1
  BY DEF StagedList
<1>6. /\ t.seats \subseteq Users /\ t.device \subseteq Devices /\ t.version \in 0..MaxVersion
      /\ a[List].version \in 0..MaxVersion /\ a[List].seats \subseteq Users
      /\ a[Entitlement] \in Caps0
      /\ Owner \in t.seats /\ t.device \subseteq DevicesOf(Owner)
  BY DEF Shape, Proper, Good, Rows
<1>7. t.version > 0 /\ t.version # 0
  BY <1>5, <1>6, TextBounds
<1>8. a[Group] \in GroupRows /\ a[Group].members \subseteq Devices /\ a[Group].pending \subseteq Users
  BY DEF Good, Rows, GroupRows
<1>9. /\ b[Group] \in GroupRows /\ b[Group].members = a[Group].members
      /\ Open(a[Group]) => b[Group].ad = t.version
      /\ \A u \in b[Group].pending : Has(a[Group], u)
      /\ \A u \in Users : Has(a[Group], u) => u \in t.seats \cup b[Group].pending
  <2>1. CASE Open(a[Group])
    <3>1. PICK x \in SUBSET Users :
            /\ t.plan[Group] = [a[Group] EXCEPT !.ad = t.version, !.pending = a[Group].pending \cup x]
            /\ \A u \in x : Has(a[Group], u)
            /\ \A u \in Users : Has(a[Group], u) => u \in t.seats \cup a[Group].pending \cup x
      BY <2>1 DEF StagedList
    <3>2. b[Group] = [a[Group] EXCEPT !.ad = t.version, !.pending = a[Group].pending \cup x]
      BY <2>1, <3>1, <1>2
    <3> HIDE DEF b
    <3>3. /\ b[Group] \in GroupRows /\ b[Group].members = a[Group].members
          /\ b[Group].ad = t.version /\ b[Group].pending = a[Group].pending \cup x
      BY <3>2, <1>6, <1>8 DEF GroupRows
    <3> QED
      BY <3>1, <3>3 DEF Good, Listed
  <2>2. CASE ~Open(a[Group])
    <3>1. b[Group] = a[Group] /\ \A u \in Users : ~Has(a[Group], u)
      BY <2>2, <1>2 DEF Open, Has
    <3> HIDE DEF b
    <3> QED
      BY <2>2, <3>1, <1>8 DEF Good, Listed
  <2> QED
    BY <2>1, <2>2
<1> HIDE DEF b
<1>10. Rows(b)
  <2>1. b[List] \in [version : 0..MaxVersion, seats : SUBSET Users, signer : SUBSET Devices]
    BY <1>2, <1>6
  <2>2. b[Channel] \in {"open", "protected", "gone"}
    BY <1>2 DEF Good, Rows
  <2>3. ASSUME NEW u \in Users
        PROVE b[Seat(u)] \in {"none", "active", "cooling", "lapsed"} /\ b[Member(u)] \in BOOLEAN
    BY <1>3 DEF Good, Rows
  <2>4. b[Entitlement] \in Caps0
    BY <1>2 DEF Good, Rows
  <2> QED
    BY <2>1, <2>2, <2>3, <2>4, <1>1, <1>9 DEF Rows
<1>11. \A d \in Devices : UserOf[d] \in Users
  BY TextDevices
<1>12. b[List].seats = t.seats /\ b[List].version = t.version /\ b[List].signer = t.device
  BY <1>2
<1>13. ASSUME NEW u \in Users, u \in t.seats, Has(a[Group], u) PROVE Held(b, u)
  BY <1>3, <1>4, <1>13 DEF Held
<1>14. Roster(b)
  <2> SUFFICES ASSUME NEW d \in a[Group].members
               PROVE UserOf[d] \in b[Group].pending \/ (Held(b, UserOf[d]) /\ UserOf[d] \in b[List].seats)
    BY <1>9 DEF Roster
  <2>1. UserOf[d] \in Users /\ Has(a[Group], UserOf[d])
    BY <1>8, <1>11 DEF Has
  <2> QED
    BY <2>1, <1>9, <1>12, <1>13
<1>15. Held(b, Owner)
  <2>1. Seat(Owner) \notin P => Held(a, Owner)
    BY <1>5 DEF Good, Listed
  <2> QED
    BY <2>1, <1>3, <1>6, TextOwner DEF Held
<1>16. b[Entitlement] = 0 => \A u \in Users : ~Held(b, u)
  <2> SUFFICES ASSUME b[Entitlement] = 0, NEW u \in Users, Held(b, u) PROVE FALSE
    OBVIOUS
  <2>1. a[Entitlement] = 0 /\ ~Held(a, u)
    BY <1>2 DEF Good, Listed
  <2>2. Seat(u) \in P /\ u \in t.seats
    BY <2>1, <1>3 DEF Held
  <2> QED
    BY <2>1, <2>2, <1>2, <1>4
<1>17. b[Channel] # "open"
  <2>1. CASE t.kind = "protect"
    BY <2>1, <1>2
  <2>2. CASE t.kind = "put"
    <3>1. a[List].version # 0
      BY <2>2, <1>5, <1>6, TextBounds
    <3> QED
      BY <2>2, <3>1, <1>2 DEF Good, Listed
  <2> QED
    BY <2>1, <2>2
<1>18. \A u \in b[Group].pending : Has(b[Group], u)
  BY <1>9 DEF Has
<1>19. Open(b[Group]) <=> Open(a[Group])
  BY <1>9 DEF Open
<1>20. Listed(b)
  BY <1>6, <1>7, <1>9, <1>12, <1>15, <1>16, <1>17, <1>18, <1>19 DEF Listed
<1>21. InUse(b) \subseteq InUse(a) \cup Claims(t)
  <2> SUFFICES ASSUME NEW u \in Users, b[Seat(u)] \in {"active", "cooling"}
               PROVE u \in InUse(a) \cup Claims(t)
    BY DEF InUse
  <2>1. CASE Seat(u) \notin P
    BY <2>1, <1>3 DEF InUse
  <2>2. CASE Seat(u) \in P /\ u \in t.seats
    BY <2>2 DEF Claims
  <2>3. CASE Seat(u) \in P /\ u \notin t.seats
    BY <2>3, <1>4 DEF InUse, Held
  <2> QED
    BY <2>1, <2>2, <2>3
<1>22. \A u \in a[List].seats \ {Owner} : Held(b, u) => Held(a, u)
  BY <1>3, <1>4, <1>6 DEF Held
<1>23. Rely(a, b, P)
  <2>1. \A d \in {Entitlement, List, Group, Channel} \ P : b[d] = a[d]
    BY <1>2
  <2>2. ASSUME NEW u \in Users
        PROVE  /\ Seat(u) \notin P => b[Seat(u)] = a[Seat(u)]
               /\ Held(b, u) /\ ~Held(a, u) => Entitlement \in P /\ b[Member(u)]
               /\ Held(a, u) /\ ~Held(b, u) /\ Has(a[Group], u) => Group \in P
               /\ a[Seat(u)] = "none" /\ b[Seat(u)] # "none" => Entitlement \in P
               /\ Has(b[Group], u) => Has(a[Group], u)
    <3>1. Has(a[Group], u) => Group \in P
      BY <1>2 DEF Has, Open
    <3>2. Has(b[Group], u) => Has(a[Group], u)
      BY <1>9 DEF Has
    <3>3. Held(b, u) /\ ~Held(a, u) => Seat(u) \in P /\ u \in t.seats
      BY <1>3 DEF Held
    <3>4. a[Seat(u)] = "none" /\ b[Seat(u)] # "none" => Seat(u) \in P /\ u \in t.seats
      BY <1>3, <1>4 DEF Held
    <3> QED
      BY <3>1, <3>2, <3>3, <3>4, <1>3, <1>4
  <2>3. Entitlement \notin P => InUse(b) \subseteq InUse(a)
    BY <1>4, <1>6, <1>21 DEF Claims
  <2> QED
    BY <2>1, <2>2, <2>3, <1>2, <1>3 DEF Rely
<1> QED
  BY <1>10, <1>12, <1>14, <1>20, <1>21, <1>22, <1>23 DEF Good, b

-----------------------------------------------------------------------------
(* Begin: what a transaction has checked on its snapshot it knows          *)

Staging(t, p) == [t EXCEPT !.stage = "staged", !.plan = p]

\* A request that has begun differs from itself in its stage and its plan
LEMMA StageShape ==
    ASSUME NEW t, Shape(t), NEW p, DOMAIN p \subseteq Docs
    PROVE  LET s == Staging(t, p) IN
           /\ Shape(s) /\ s.stage = "staged" /\ s.plan = p /\ s.kind = t.kind /\ s.user = t.user
           /\ s.cap = t.cap /\ s.seats = t.seats /\ s.version = t.version
           /\ s.generation = t.generation /\ s.epoch = t.epoch /\ s.added = t.added
           /\ s.removed = t.removed /\ s.device = t.device /\ s.lapsed = t.lapsed
           /\ s.again = t.again
<1> SUFFICES ASSUME NEW s, s = [t EXCEPT !.stage = "staged", !.plan = p]
             PROVE  /\ Shape(s) /\ s.stage = "staged" /\ s.plan = p /\ s.kind = t.kind /\ s.user = t.user
                    /\ s.cap = t.cap /\ s.seats = t.seats /\ s.version = t.version
                    /\ s.generation = t.generation /\ s.epoch = t.epoch /\ s.added = t.added
                    /\ s.removed = t.removed /\ s.device = t.device /\ s.lapsed = t.lapsed
                    /\ s.again = t.again
  BY Zenon DEF Staging
<1> DEFINE q == [kind |-> t.kind, stage |-> "staged", user |-> t.user, cap |-> t.cap, seats |-> t.seats,
                 version |-> t.version, generation |-> t.generation, epoch |-> t.epoch,
                 added |-> t.added, removed |-> t.removed, device |-> t.device,
                 lapsed |-> t.lapsed, again |-> t.again, plan |-> p]
<1>1. s = q
  BY DEF Shape, Fields
<1>2. /\ s.stage = "staged" /\ s.plan = p /\ s.kind = t.kind /\ s.user = t.user
      /\ s.cap = t.cap /\ s.seats = t.seats /\ s.version = t.version
      /\ s.generation = t.generation /\ s.epoch = t.epoch /\ s.added = t.added
      /\ s.removed = t.removed /\ s.device = t.device /\ s.lapsed = t.lapsed
      /\ s.again = t.again
  BY <1>1
<1>3. Fields(s)
  BY <1>1, <1>2 DEF Fields
<1> QED
  BY <1>2, <1>3 DEF Shape, Stages

\* The documents a list write plans, and what it will write to them
LEMMA ListPlan ==
    ASSUME NEW t, t.seats \subseteq Users
    PROVE  LET p == WriteList(t) IN
           /\ DOMAIN p = ListWrites(t) /\ DOMAIN p \subseteq Docs
           /\ List \in DOMAIN p
           /\ p[List] = [version |-> t.version, seats |-> t.seats, signer |-> t.device]
           /\ Group \in DOMAIN p <=> Open(db[Group])
           /\ Group \in DOMAIN p =>
                p[Group] = [db[Group] EXCEPT !.ad = t.version, !.pending = db[Group].pending \cup Dropped(t)]
           /\ Entitlement \in DOMAIN p <=> Claimed(t) # {}
           /\ Entitlement \in DOMAIN p => p[Entitlement] = db[Entitlement]
           /\ Channel \in DOMAIN p <=> t.kind = "protect"
           /\ Channel \in DOMAIN p => p[Channel] = "protected"
           /\ \A u \in Users :
                /\ Member(u) \in DOMAIN p <=> u \in Claimed(t)
                /\ Member(u) \in DOMAIN p => p[Member(u)] = db[Member(u)]
                /\ Seat(u) \in DOMAIN p <=> u \in Claimed(t) \cup Unseated(t)
                /\ Seat(u) \in DOMAIN p => p[Seat(u)] = IF u \in t.seats THEN "active" ELSE "cooling"
<1> DEFINE p == WriteList(t)
<1>1. Claimed(t) \subseteq Users /\ Unseated(t) \subseteq Users
  BY DEF Claimed, Unseated
<1>2. DOMAIN p = ListWrites(t)
  BY DEF WriteList
<1>3. /\ ListWrites(t) \subseteq Docs /\ List \in ListWrites(t)
      /\ Group \in ListWrites(t) <=> Open(db[Group])
      /\ Entitlement \in ListWrites(t) <=> Claimed(t) # {}
      /\ Channel \in ListWrites(t) <=> t.kind = "protect"
  BY <1>1, DocFacts DEF ListWrites
<1>4. ASSUME NEW u \in Users
      PROVE  /\ Member(u) \in ListWrites(t) <=> u \in Claimed(t)
             /\ Seat(u) \in ListWrites(t) <=> u \in Claimed(t) \cup Unseated(t)
  BY <1>1, DocFacts DEF ListWrites
<1>5. p[List] = [version |-> t.version, seats |-> t.seats, signer |-> t.device]
  BY <1>3, DocFacts, DocNames DEF WriteList
<1>6. Group \in ListWrites(t) =>
         p[Group] = [db[Group] EXCEPT !.ad = t.version, !.pending = db[Group].pending \cup Dropped(t)]
  BY DocFacts, DocNames DEF WriteList
<1>7. Entitlement \in ListWrites(t) => p[Entitlement] = db[Entitlement]
  BY DocFacts, DocNames DEF WriteList
<1>8. Channel \in ListWrites(t) => p[Channel] = "protected"
  BY DocFacts, DocNames DEF WriteList
<1>9. ASSUME NEW u \in Users, Member(u) \in ListWrites(t) PROVE p[Member(u)] = db[Member(u)]
  BY <1>9, DocFacts, DocNames DEF WriteList
<1>10. ASSUME NEW u \in Users, Seat(u) \in ListWrites(t)
       PROVE  p[Seat(u)] = IF u \in t.seats THEN "active" ELSE "cooling"
  BY <1>10, DocFacts, DocNames DEF WriteList
<1> HIDE DEF p
<1> QED
  BY <1>2, <1>3, <1>4, <1>5, <1>6, <1>7, <1>8, <1>9, <1>10 DEF p

\* A list write that begins knows what it checked
LEMMA ListBegins ==
    ASSUME Good(db), NEW t, Shape(t), Proper(t), t.kind \in {"protect", "put"}, Allowed(t)
    PROVE  StagedList(db, Staging(t, WriteList(t)))
<1> DEFINE p == WriteList(t)
           s == Staging(t, p)
<1> USE DocFacts
<1>1. t.seats \subseteq Users
  BY DEF Shape
<1>2. /\ DOMAIN p \subseteq Docs
      /\ List \in DOMAIN p
      /\ p[List] = [version |-> t.version, seats |-> t.seats, signer |-> t.device]
      /\ Group \in DOMAIN p <=> Open(db[Group])
      /\ Group \in DOMAIN p =>
           p[Group] = [db[Group] EXCEPT !.ad = t.version, !.pending = db[Group].pending \cup Dropped(t)]
      /\ Entitlement \in DOMAIN p <=> Claimed(t) # {}
      /\ Entitlement \in DOMAIN p => p[Entitlement] = db[Entitlement]
      /\ Channel \in DOMAIN p <=> t.kind = "protect"
      /\ Channel \in DOMAIN p => p[Channel] = "protected"
      /\ \A u \in Users :
           /\ Member(u) \in DOMAIN p <=> u \in Claimed(t)
           /\ Member(u) \in DOMAIN p => p[Member(u)] = db[Member(u)]
           /\ Seat(u) \in DOMAIN p <=> u \in Claimed(t) \cup Unseated(t)
           /\ Seat(u) \in DOMAIN p => p[Seat(u)] = IF u \in t.seats THEN "active" ELSE "cooling"
  BY <1>1, ListPlan
<1> HIDE DEF p
<1>3. /\ s.plan = p /\ s.kind = t.kind /\ s.seats = t.seats /\ s.version = t.version /\ s.device = t.device
  BY <1>2, StageShape
<1> HIDE DEF s
<1>4. /\ ListAllowed(t)
      /\ t.kind = "put" => db[List].version > 0
      /\ t.kind = "protect" => db[Channel] = "open"
  BY DEF Allowed, ProtectAllowed
<1>5. /\ t.version = db[List].version + 1
      /\ Removed(t) = {}
      /\ Claimed(t) # {} => db[Entitlement] > 0 /\ \A u \in Claimed(t) : db[Member(u)]
  BY <1>4 DEF ListAllowed
<1>6. ASSUME NEW u \in Users
      PROVE /\ Seat(u) \in DOMAIN p /\ u \in t.seats =>
                  /\ Entitlement \in DOMAIN p /\ Member(u) \in DOMAIN p /\ db[Member(u)]
                  /\ ~Held(db, u) /\ u \notin db[List].seats \ {Owner}
            /\ u \notin t.seats => (Seat(u) \in DOMAIN p <=> Held(db, u))
            /\ u \in t.seats /\ Seat(u) \notin DOMAIN p => Held(db, u)
  <2>1. u \in Claimed(t) => u \in t.seats /\ ~Held(db, u) /\ u \notin db[List].seats \ {Owner}
    BY <1>5 DEF Claimed, Removed, Active, Held
  <2>2. u \in Unseated(t) <=> u \notin t.seats /\ Held(db, u)
    BY DEF Unseated, Active, Held
  <2>3. u \in t.seats /\ u \notin Claimed(t) => Held(db, u)
    BY DEF Claimed, Active, Held
  <2> QED
    BY <2>1, <2>2, <2>3, <1>2, <1>5
<1>7. Seat(Owner) \notin DOMAIN p => db[List].version > 0
  <2>1. Owner \in t.seats
    BY DEF Proper
  <2>2. Seat(Owner) \notin DOMAIN p => db[Seat(Owner)] = "active"
    BY <2>1, <1>6, TextOwner DEF Held
  <2>3. db[List].version \in Nat
    BY TextBounds DEF Good, Rows
  <2> QED
    BY <2>2, <2>3, TextOwner DEF Good, Listed
<1>8. /\ Dropped(t) \in SUBSET Users
      /\ \A u \in Dropped(t) : Has(db[Group], u)
      /\ \A u \in Users : Has(db[Group], u) => u \in t.seats \cup db[Group].pending \cup Dropped(t)
  <2>1. db[List].seats \subseteq Users /\ db[Group].members \subseteq Devices
    BY DEF Good, Rows, GroupRows
  <2>2. Dropped(t) \in SUBSET Users /\ \A u \in Dropped(t) : Has(db[Group], u)
    BY <2>1 DEF Dropped, Unseated
  <2>3. ASSUME NEW u \in Users, Has(db[Group], u), u \notin t.seats, u \notin db[Group].pending
        PROVE  u \in Dropped(t)
    <3>1. u \in db[List].seats
      BY <2>3 DEF Has, Good, Roster
    <3> QED
      BY <2>3, <3>1 DEF Dropped
  <2> QED
    BY <2>2, <2>3
<1>9. Entitlement \in DOMAIN p => db[Entitlement] > 0
  BY <1>2, <1>5
<1>10. Group \in DOMAIN p =>
         \E x \in SUBSET Users :
            /\ p[Group] = [db[Group] EXCEPT !.ad = t.version, !.pending = db[Group].pending \cup x]
            /\ \A u \in x : Has(db[Group], u)
            /\ \A u \in Users : Has(db[Group], u) => u \in t.seats \cup db[Group].pending \cup x
  BY <1>2, <1>8
<1>11. StagedList(db, s)
  BY <1>2, <1>3, <1>4, <1>5, <1>6, <1>7, <1>9, <1>10 DEF StagedList
<1> QED
  BY <1>11 DEF s, p

\* The check of the cap counts every seat in use; what it may miss is a seat whose cooldown
\* ran out after the request had arrived
LEMMA ListFits ==
    ASSUME Good(db), Fitted, NEW t, Shape(t), t.kind \in {"protect", "put"}, Allowed(t)
    PROVE  Fits(db, Staging(t, WriteList(t)), overran)
<1> DEFINE p == WriteList(t)
           s == Staging(t, p)
           counted == {u \in Users : Active(u) \/ Cooling(t, u)}
<1>1. t.seats \subseteq Users /\ DOMAIN p \subseteq Docs
  BY ListPlan DEF Shape
<1>2. /\ Entitlement \in DOMAIN p <=> Claimed(t) # {}
      /\ \A u \in Users : Seat(u) \in DOMAIN p <=> u \in Claimed(t) \cup Unseated(t)
  BY <1>1, ListPlan
<1> HIDE DEF p
<1>3. s.plan = p /\ s.kind = t.kind /\ s.seats = t.seats /\ s.lapsed = t.lapsed
  BY <1>1, StageShape
<1> HIDE DEF s
<1>4. Claims(s) = Claimed(t)
  BY <1>1, <1>2, <1>3 DEF Claims, Claimed, Unseated
<1> SUFFICES ASSUME Entitlement \in DOMAIN p
             PROVE  \/ Cardinality(InUse(db) \cup Claimed(t)) <= db[Entitlement]
                    \/ overran \/ LapsedClaim(db, s)
  <2>1. Fits(db, s, overran)
    BY <1>3, <1>4 DEF Fits
  <2> QED
    BY <2>1 DEF s, p
<1>5. /\ Claimed(t) # {} /\ Claimed(t) \subseteq Users /\ InUse(db) \subseteq counted
      /\ NewSlots(t) \subseteq Users /\ Claimed(t) \subseteq counted \cup NewSlots(t)
  BY <1>1, <1>2 DEF Claimed, InUse, Active, Cooling, NewSlots
<1>6. NewSlots(t) # {} => Cardinality(counted) + Cardinality(NewSlots(t)) <= db[Entitlement]
  BY <1>5 DEF Allowed, ProtectAllowed, ListAllowed, Used
<1>7. db[Entitlement] \in Nat
  BY TextCaps DEF Good, Rows, Caps0
<1>8. CASE NewSlots(t) # {}
  <2>1. IsFiniteSet(counted) /\ IsFiniteSet(NewSlots(t)) /\ counted \subseteq Users
    BY <1>5, TextUsers, FS_Subset
  <2>2. /\ IsFiniteSet(counted \cup NewSlots(t)) /\ IsFiniteSet(counted \cap NewSlots(t))
        /\ Cardinality(counted \cup NewSlots(t)) =
             Cardinality(counted) + Cardinality(NewSlots(t)) - Cardinality(counted \cap NewSlots(t))
    BY <2>1, FS_Union, FS_Subset
  <2>3. InUse(db) \cup Claimed(t) \subseteq counted \cup NewSlots(t)
    BY <1>5
  <2>4. Cardinality(InUse(db) \cup Claimed(t)) <= Cardinality(counted \cup NewSlots(t))
    BY <2>2, <2>3, FS_Subset
  <2>5. /\ Cardinality(counted) \in Nat /\ Cardinality(NewSlots(t)) \in Nat
        /\ Cardinality(counted \cap NewSlots(t)) \in Nat
        /\ Cardinality(InUse(db) \cup Claimed(t)) \in Nat
    <3>1. IsFiniteSet(InUse(db) \cup Claimed(t))
      BY <2>2, <2>3, FS_Subset
    <3> QED
      BY <3>1, <2>1, <2>2, FS_CardinalityType
  <2> HIDE DEF counted
  <2> QED
    BY <2>2, <2>4, <2>5, <1>6, <1>7, <1>8
<1>9. CASE NewSlots(t) = {} /\ \A u \in Claimed(t) : db[Seat(u)] = "cooling"
  <2>1. InUse(db) \cup Claimed(t) = InUse(db)
    BY <1>5, <1>9 DEF InUse
  <2> QED
    BY <2>1 DEF Fitted
<1>10. CASE NewSlots(t) = {} /\ \E u \in Claimed(t) : db[Seat(u)] # "cooling"
  <2>1. PICK u \in Claimed(t) : db[Seat(u)] # "cooling"
    BY <1>10
  <2>2. Cooling(t, u)
    BY <2>1, <1>10 DEF NewSlots
  <2>3. db[Seat(u)] = "lapsed" /\ u \notin t.lapsed
    BY <2>1, <2>2 DEF Cooling
  <2> QED
    BY <2>1, <2>3, <1>3, <1>4 DEF LapsedClaim
<1> QED
  BY <1>8, <1>9, <1>10

\* What the other transactions plan
LEMMA GrantBegins ==
    ASSUME Good(db), NEW t, Shape(t), t.kind = "grant", Allowed(t)
    PROVE  /\ DOMAIN Grant(t) \subseteq Docs
           /\ StagedGrant(db, Staging(t, Grant(t))) /\ Fits(db, Staging(t, Grant(t)), overran)
<1> DEFINE p == Grant(t)
           s == Staging(t, p)
           counted == {u \in Users : Active(u) \/ Cooling(t, u)}
<1>1. DOMAIN p = {Entitlement} /\ p[Entitlement] = t.cap /\ DOMAIN p \subseteq Docs
  BY DocFacts DEF Grant
<1> HIDE DEF p
<1>2. s.plan = p /\ s.kind = "grant" /\ s.cap = t.cap
  BY <1>1, StageShape
<1>3. InUse(db) \subseteq counted /\ counted \subseteq Users
  BY DEF InUse, Active, Cooling
<1>4. /\ Cardinality(InUse(db)) \in Nat /\ Cardinality(counted) \in Nat
      /\ Cardinality(InUse(db)) <= Cardinality(counted)
  <2>1. IsFiniteSet(counted)
    BY <1>3, TextUsers, FS_Subset
  <2>2. IsFiniteSet(InUse(db))
    BY <1>3, <2>1, FS_Subset
  <2> QED
    BY <1>3, <2>1, <2>2, FS_Subset, FS_CardinalityType
<1>5. Cardinality(counted) <= t.cap /\ t.cap \in Nat
  BY TextCaps DEF Allowed, GrantAllowed, Used, Shape, Caps0
<1> HIDE DEF s, counted
<1>6. Fits(db, s, overran)
  BY <1>2, <1>4, <1>5 DEF Fits
<1>7. StagedGrant(db, s)
  BY <1>1, <1>2 DEF StagedGrant
<1> QED
  BY <1>1, <1>6, <1>7 DEF s, p

\* A create has read the list that its device signed
LEMMA CreateBegins ==
    ASSUME NEW t, Shape(t), t.kind = "create", Allowed(t)
    PROVE  DOMAIN Create(t) \subseteq Docs /\ StagedCreate(db, Staging(t, Create(t)))
<1> DEFINE p == Create(t)
           s == Staging(t, p)
<1>1. /\ DOMAIN p = {List, Group} /\ DOMAIN p \subseteq Docs
      /\ p[List] = db[List]
      /\ p[Group] = [generation |-> t.generation, epoch |-> 0, members |-> t.device,
                     pending |-> {}, ad |-> db[List].version]
  BY DocFacts DEF Create
<1>2. db[List].version > 0 /\ db[List].signer = t.device
  BY DEF Allowed, CreateAllowed
<1> HIDE DEF p
<1>3. s.plan = p /\ s.generation = t.generation
  BY <1>1, StageShape
<1> HIDE DEF s
<1>4. StagedCreate(db, s)
  BY <1>1, <1>2, <1>3 DEF StagedCreate
<1> QED
  BY <1>1, <1>4 DEF s, p

\* A commit has read the seats and the list of the users it adds
LEMMA CommitBegins ==
    ASSUME NEW t, Shape(t), t.kind = "commit", Allowed(t)
    PROVE  DOMAIN TextCommit(t) \subseteq Docs /\ StagedCommit(db, Staging(t, TextCommit(t)))
<1> DEFINE p == TextCommit(t)
           s == Staging(t, p)
           members == (db[Group].members \ t.removed) \cup t.added
<1> USE DocFacts
<1>1. t.added \subseteq Devices /\ \A d \in Devices : UserOf[d] \in Users
  BY TextDevices DEF Shape
<1>2. /\ DOMAIN p = {Group} \cup {Seat(UserOf[a]) : a \in t.added}
      /\ p[Group] = [db[Group] EXCEPT !.epoch = t.epoch, !.members = members,
                        !.pending = {u \in db[Group].pending : \E m \in members : UserOf[m] = u}]
  BY DEF TextCommit
<1>3. \A a \in t.added : p[Seat(UserOf[a])] = db[Seat(UserOf[a])]
  BY <1>1 DEF TextCommit
<1>4. DOMAIN p \subseteq Docs
  BY <1>1, <1>2
<1>5. Open(db[Group]) /\ \A a \in t.added : Active(UserOf[a]) /\ UserOf[a] \in db[List].seats
  BY DEF Allowed, CommitAllowed
<1> HIDE DEF p
<1>6. s.plan = p /\ s.added = t.added /\ s.removed = t.removed /\ s.epoch = t.epoch
  BY <1>4, StageShape
<1> HIDE DEF s
<1>7. StagedCommit(db, s)
  BY <1>2, <1>3, <1>5, <1>6 DEF StagedCommit, Active, Held
<1> QED
  BY <1>4, <1>7 DEF s, p

\* A release has read the seat and the roster; without an entitlement there is nothing to do
LEMMA ReleaseBegins ==
    ASSUME NEW t, Shape(t), Releases(t)
    PROVE  LET p == IF db[Entitlement] > 0 THEN Release(t) ELSE Nothing IN
           DOMAIN p \subseteq Docs /\ StagedRelease(db, Staging(t, p))
<1> DEFINE p == IF db[Entitlement] > 0 THEN Release(t) ELSE Nothing
           s == Staging(t, p)
<1> USE DocFacts
<1>1. t.user \in Users
  BY DEF Shape
<1>2. CASE db[Entitlement] > 0
  <2>1. /\ DOMAIN p = (IF Has(db[Group], t.user) THEN {Group} ELSE {})
                         \cup (IF Active(t.user) THEN {Seat(t.user)} ELSE {})
        /\ Group \in DOMAIN p => p[Group] = [db[Group] EXCEPT !.pending = db[Group].pending \cup {t.user}]
        /\ Seat(t.user) \in DOMAIN p => p[Seat(t.user)] = "cooling"
    BY <1>1, <1>2 DEF Release
  <2>2. DOMAIN p \subseteq Docs
    BY <1>1, <2>1
  <2> HIDE DEF p
  <2>3. s.plan = p /\ s.user = t.user
    BY <2>2, StageShape
  <2> HIDE DEF s
  <2>4. StagedRelease(db, s)
    BY <1>1, <2>1, <2>3 DEF StagedRelease, Active, Held
  <2> QED
    BY <2>2, <2>4 DEF s, p
<1>3. CASE ~(db[Entitlement] > 0)
  <2>1. p = Nothing /\ DOMAIN p = {}
    BY <1>3 DEF Nothing
  <2> HIDE DEF p
  <2>3. s.plan = p /\ s.user = t.user
    BY <2>1, StageShape
  <2> HIDE DEF s
  <2>4. StagedRelease(db, s)
    BY <1>1, <2>1, <2>3 DEF StagedRelease
  <2> QED
    BY <2>1, <2>4 DEF s, p
<1> QED
  BY <1>2, <1>3

\* The deletion has read every document the channel has
LEMMA DeleteBegins ==
    ASSUME Good(db), NEW t, Shape(t), t.kind = "delete"
    PROVE  DOMAIN Cascade(t) \subseteq Docs /\ StagedDelete(db, Staging(t, Cascade(t)))
<1> DEFINE p == Cascade(t)
           s == Staging(t, p)
<1> USE DocFacts, EmptyFacts
<1>1. /\ DOMAIN p = {d \in Docs : d[1] \notin {"channel", "member"} /\ db[d] # Empty[d]}
      /\ \A d \in DOMAIN p : p[d] = Empty[d]
  BY DEF Cascade
<1> HIDE DEF p
<1>2. /\ Channel \notin DOMAIN p /\ \A u \in Users : Member(u) \notin DOMAIN p
      /\ List \in DOMAIN p <=> db[List] # NoList
      /\ Group \in DOMAIN p <=> db[Group] # NoGroup
      /\ \A u \in Users : Seat(u) \in DOMAIN p <=> db[Seat(u)] # "none"
  BY <1>1, DocNames
<1>3. db[List] = NoList => db[Group] = NoGroup /\ \A u \in Users : db[Seat(u)] = "none"
  BY DEF Good, Listed, NoList
<1>4. s.plan = p
  BY <1>1, StageShape
<1> HIDE DEF s
<1>5. StagedDelete(db, s)
  BY <1>1, <1>2, <1>3, <1>4 DEF StagedDelete
<1> QED
  BY <1>1, <1>5 DEF s, p

\* Together: a transaction that begins knows what it needs to commit
LEMMA Begins ==
    ASSUME Good(db), Fitted, NEW t, Shape(t), Proper(t), t.stage = "begin", Allowed(t)
    PROVE  DOMAIN Plan(t) \subseteq Docs /\ Known(db, posts, overran, Staging(t, Plan(t)))
<1> DEFINE p == Plan(t)
           s == Staging(t, p)
<1> SUFFICES DOMAIN p \subseteq Docs /\ Staged(db, s) /\ Fits(db, s, overran)
  <2>1. /\ s.stage = "staged" /\ s.plan = p /\ s.kind = t.kind /\ s.user = t.user
        /\ s.cap = t.cap /\ s.seats = t.seats /\ s.device = t.device /\ s.again = t.again /\ Shape(s)
    BY StageShape DEF p
  <2>2. Proper(s)
    <3> HIDE DEF s, p
    <3> QED
      BY <2>1 DEF Proper, Releases
  <2>3. t.kind = "protect" => "kept" \notin posts
    BY DEF Allowed, ProtectAllowed
  <2> QED
    BY <2>1, <2>2, <2>3 DEF Known
<1>0. ASSUME DOMAIN p \subseteq Docs
      PROVE  s.kind = t.kind
  BY <1>0, StageShape
<1>1. CASE t.kind = "grant"
  <2>1. p = Grant(t)
    BY <1>1 DEF Plan
  <2>2. DOMAIN p \subseteq Docs /\ StagedGrant(db, s) /\ Fits(db, s, overran)
    BY <2>1, <1>1, GrantBegins
  <2> HIDE DEF p, s
  <2> QED
    BY <2>2, <1>0, <1>1 DEF Staged, Releases
<1>2. CASE t.kind \in {"protect", "put"}
  <2>1. p = WriteList(t)
    BY <1>2 DEF Plan
  <2>2. DOMAIN p \subseteq Docs
    BY <2>1, ListPlan DEF Shape
  <2>3. StagedList(db, s) /\ Fits(db, s, overran)
    BY <2>1, <1>2, ListBegins, ListFits
  <2> HIDE DEF p, s
  <2> QED
    BY <2>2, <2>3, <1>0, <1>2 DEF Staged, Releases
<1>3. CASE t.kind = "create"
  <2>1. p = Create(t)
    BY <1>3 DEF Plan
  <2>2. DOMAIN p \subseteq Docs /\ StagedCreate(db, s)
    BY <2>1, <1>3, CreateBegins
  <2> HIDE DEF p, s
  <2> QED
    BY <2>2, <1>0, <1>3 DEF Staged, Releases, Fits
<1>4. CASE t.kind = "commit"
  <2>1. p = TextCommit(t)
    BY <1>4 DEF Plan
  <2>2. DOMAIN p \subseteq Docs /\ StagedCommit(db, s)
    BY <2>1, <1>4, CommitBegins
  <2> HIDE DEF p, s
  <2> QED
    BY <2>2, <1>0, <1>4 DEF Staged, Releases, Fits
<1>5. CASE t.kind = "delete"
  <2>1. p = Cascade(t)
    BY <1>5 DEF Plan
  <2>2. DOMAIN p \subseteq Docs /\ StagedDelete(db, s)
    BY <2>1, <1>5, DeleteBegins
  <2> HIDE DEF p, s
  <2> QED
    BY <2>2, <1>0, <1>5 DEF Staged, Releases, Fits
<1>6. CASE Releases(t)
  <2>1. p = IF db[Entitlement] > 0 THEN Release(t) ELSE Nothing
    BY <1>6 DEF Plan, Releases
  <2>2. DOMAIN p \subseteq Docs /\ StagedRelease(db, s)
    BY <2>1, <1>6, ReleaseBegins
  <2> HIDE DEF p, s
  <2> QED
    BY <2>2, <1>0, <1>6 DEF Staged, Releases, Fits
<1> QED
  BY <1>1, <1>2, <1>3, <1>4, <1>5, <1>6 DEF Shape, Proper, Kinds, Releases

-----------------------------------------------------------------------------
(* The requests                                                            *)

\* The fields of a request that has ended
LEMMA IdleFacts ==
    /\ Shape(Idle) /\ Proper(Idle) /\ Idle.stage = "idle" /\ ~Idle.again
    /\ Idle.user = Owner /\ Idle.cap = 0 /\ Idle.seats = {} /\ Idle.version = 0
    /\ Idle.generation = 0 /\ Idle.epoch = 0 /\ Idle.added = {} /\ Idle.removed = {}
    /\ Idle.device = {} /\ Idle.lapsed = {} /\ DOMAIN Idle.plan = {}
    /\ \A b, k, o : Known(b, k, o, Idle)
<1>1. Shape(Idle)
  BY TextOwner, TextBounds DEF Idle, Shape, Fields, Kinds, Stages, Caps0, Nothing
<1>2. Proper(Idle) /\ Idle.stage = "idle" /\ ~Idle.again
  BY DEF Idle, Proper, Nothing, Releases
<1>3. /\ Idle.user = Owner /\ Idle.cap = 0 /\ Idle.seats = {} /\ Idle.version = 0
      /\ Idle.generation = 0 /\ Idle.epoch = 0 /\ Idle.added = {} /\ Idle.removed = {}
      /\ Idle.device = {} /\ Idle.lapsed = {} /\ DOMAIN Idle.plan = {}
  BY DEF Idle, Nothing
<1> QED
  BY <1>1, <1>2, <1>3 DEF Known

\* It is a record of the requests' fields
LEMMA IdleFields == Fields(Idle)
  BY IdleFacts DEF Shape

\* A request that moves on to a stage drops its plan and keeps the rest
LEMMA WaitsShape ==
    ASSUME NEW t, Shape(t), NEW stage \in Stages
    PROVE  LET s == Waits(t, stage) IN
           /\ Shape(s) /\ s.stage = stage /\ DOMAIN s.plan = {} /\ s.kind = t.kind /\ s.user = t.user
           /\ s.cap = t.cap /\ s.seats = t.seats /\ s.device = t.device /\ s.again = t.again
<1> SUFFICES ASSUME NEW s, s = [t EXCEPT !.stage = stage, !.plan = Nothing]
             PROVE  /\ Shape(s) /\ s.stage = stage /\ DOMAIN s.plan = {} /\ s.kind = t.kind
                    /\ s.user = t.user /\ s.cap = t.cap /\ s.seats = t.seats
                    /\ s.device = t.device /\ s.again = t.again
  BY Zenon DEF Waits
<1>1. s = [kind |-> t.kind, stage |-> stage, user |-> t.user, cap |-> t.cap, seats |-> t.seats,
           version |-> t.version, generation |-> t.generation, epoch |-> t.epoch,
           added |-> t.added, removed |-> t.removed, device |-> t.device,
           lapsed |-> t.lapsed, again |-> t.again, plan |-> Nothing]
  BY DEF Shape, Fields
<1>2. /\ s.stage = stage /\ s.plan = Nothing /\ s.kind = t.kind /\ s.user = t.user
      /\ s.cap = t.cap /\ s.seats = t.seats /\ s.version = t.version
      /\ s.generation = t.generation /\ s.epoch = t.epoch /\ s.added = t.added
      /\ s.removed = t.removed /\ s.device = t.device /\ s.lapsed = t.lapsed
      /\ s.again = t.again
  BY <1>1
<1>3. Fields(s)
  BY <1>1, <1>2 DEF Fields
<1>4. DOMAIN Nothing = {}
  BY DEF Nothing
<1> QED
  BY <1>2, <1>3, <1>4 DEF Shape

\* A staged transaction keeps what it knows, or is sent back to Begin
LEMMA KnownStable ==
    ASSUME NEW a, NEW b, NEW W, NEW k, NEW l, NEW o, NEW p, NEW t,
           Rows(a), Rows(b), Rely(a, b, W), Known(a, k, o, t), o => p,
           "kept" \in l => "kept" \in k \/ Channel \in W,
           DOMAIN t.plan \cap W = {}
    PROVE  Known(b, l, p, t)
<1> SUFFICES ASSUME t.stage = "staged"
             PROVE  Staged(b, t) /\ Fits(b, t, p) /\ (t.kind = "protect" => "kept" \notin l)
  BY DEF Known
<1>1. Shape(t) /\ Proper(t) /\ Staged(a, t) /\ Fits(a, t, o)
  BY DEF Known
<1>2. Staged(b, t)
  BY <1>1, StagedStable
<1>3. Fits(b, t, p)
  BY <1>1, FitsStable DEF Staged
<1>4. t.kind = "protect" => Channel \in DOMAIN t.plan /\ "kept" \notin k
  BY <1>1 DEF Staged, StagedList, Known
<1> QED
  BY <1>2, <1>3, <1>4

\* A transaction sent back to Begin is a request in good order, and still a removal's
LEMMA SentBack ==
    ASSUME NEW a, NEW b, NEW k, NEW l, NEW o, NEW p, NEW t, Known(a, k, o, t), t.stage = "staged"
    PROVE  /\ Known(b, l, p, Waits(t, "begin"))
           /\ \A u : Retakes(t, u) => Retakes(Waits(t, "begin"), u)
<1> DEFINE s == Waits(t, "begin")
<1>1. /\ Shape(s) /\ s.stage = "begin" /\ DOMAIN s.plan = {} /\ s.kind = t.kind /\ s.user = t.user
      /\ s.cap = t.cap /\ s.seats = t.seats /\ s.device = t.device /\ s.again = t.again
  BY WaitsShape DEF Known, Stages
<1> HIDE DEF s
<1>2. Known(b, l, p, s)
  BY <1>1 DEF Known, Proper, Releases
<1>3. \A u : Retakes(t, u) => Retakes(s, u)
  BY <1>1 DEF Retakes
<1> QED
  BY <1>2, <1>3 DEF s

-----------------------------------------------------------------------------
(* A step that leaves the documents alone moves one request                *)

\* A step that moves one request keeps the invariant if that request is in good order and
\* a removal that still has a seat to take is not forgotten
LEMMA MovesInv ==
    ASSUME Inv, NEW r \in Requests, NEW t, Moves(r, t), UNCHANGED <<db, struck, overran>>,
           posts' \subseteq {"kept", "stray"}, "kept" \in posts' => "kept" \in posts,
           Known(db, posts', overran, t),
           abandoned \subseteq abandoned', abandoned' \subseteq Users,
           \A u \in Users : Retakes(req[r], u) /\ Held(db, u) => Retakes(t, u) \/ u \in abandoned'
    PROVE  Inv'
<1>1. /\ req' = [q \in Requests |-> req'[q]]
      /\ req'[r] = t /\ \A q \in Requests \ {r} : req'[q] = req[q]
  BY DEF Inv, Moves
<1>2. ASSUME NEW q \in Requests PROVE Known(db, posts', overran, req'[q])
  <2>1. CASE q = r
    BY <2>1, <1>1
  <2>2. CASE q # r
    <3>1. Known(db, posts, overran, req[q]) /\ req'[q] = req[q]
      BY <2>2, <1>1 DEF Inv
    <3>2. Known(db, posts', overran, req[q])
      BY <3>1 DEF Known
    <3> QED
      BY <3>1, <3>2
  <2> QED
    BY <2>1, <2>2
<1>3. Orphans'
  <2> SUFFICES ASSUME NEW u \in Users, Held(db, u), ~db[Member(u)]
               PROVE  u \in abandoned' \/ \E q \in Requests : Retakes(req'[q], u)
    BY DEF Orphans
  <2>1. u \in abandoned \/ \E q \in Requests : Retakes(req[q], u)
    BY DEF Inv, Orphans
  <2>2. ASSUME NEW q \in Requests, Retakes(req[q], u)
        PROVE  u \in abandoned' \/ \E x \in Requests : Retakes(req'[x], u)
    BY <2>2, <1>1
  <2> QED
    BY <2>1, <2>2
<1>4. NoPlaintext' /\ Fitted' /\ Struck'
  BY DEF Inv, NoPlaintext, Fitted, Struck
<1> QED
  BY <1>1, <1>2, <1>3, <1>4 DEF Inv

\* A request that arrives only has to be in good order
LEMMA StartedInv ==
    ASSUME Inv, NEW r \in Requests, NEW t, Start(r, t), Shape(t), Proper(t), t.stage # "staged"
    PROVE  Inv'
<1>1. /\ Moves(r, t) /\ UNCHANGED <<db, struck, overran>> /\ UNCHANGED posts /\ UNCHANGED abandoned
      /\ req[r].stage = "idle"
  BY DEF Start, At, history
<1>2. ~req[r].again /\ posts \subseteq {"kept", "stray"} /\ abandoned \subseteq Users
  BY <1>1 DEF Inv, Known, Proper
<1>3. Known(db, posts', overran, t)
  BY DEF Known
<1> QED
  BY <1>1, <1>2, <1>3, MovesInv DEF Retakes

\* Every request that arrives is in good order
LEMMA StartInv ==
    ASSUME Inv, NEW r \in Requests,
           \/ StartGrant(r) \/ StartList(r) \/ StartCreate(r) \/ StartCommit(r) \/ StartRemove(r)
           \/ StartJoin(r) \/ StartRelease(r) \/ StartDelete(r) \/ StartPost(r)
    PROVE  Inv'
<1>0. /\ db[List].version \in 0..MaxVersion /\ db[List].signer \subseteq Devices
      /\ db[Group].generation \in 0..MaxGeneration /\ db[Group].epoch \in 0..MaxEpoch
      /\ db[Group].ad \in 0..MaxVersion /\ db[Group].members \subseteq Devices
      /\ Lapsed \subseteq Users
  BY DEF Inv, Good, Rows, GroupRows, Lapsed
<1>1. /\ 0 \in 0..MaxVersion /\ 0 \in 0..MaxGeneration /\ 0 \in 0..MaxEpoch
      /\ 0 \in Caps0 /\ Caps \subseteq Caps0
  BY TextBounds DEF Caps0
<1> USE <1>1, TextOwner
<1>2. CASE StartGrant(r)
  <2>1. PICK cap \in Caps : Start(r, [New("grant") EXCEPT !.cap = cap, !.lapsed = Lapsed])
    BY <1>2 DEF StartGrant
  <2>2. PICK t : t = [New("grant") EXCEPT !.cap = cap, !.lapsed = Lapsed]
    OBVIOUS
  <2>3. t = [kind |-> "grant", stage |-> "begin", user |-> Idle.user, cap |-> cap,
             seats |-> Idle.seats, version |-> Idle.version, generation |-> Idle.generation,
             epoch |-> Idle.epoch, added |-> Idle.added, removed |-> Idle.removed,
             device |-> Idle.device, lapsed |-> Lapsed, again |-> Idle.again, plan |-> Idle.plan]
    BY ONLY <2>2, IdleFields DEF New, Fields
  <2>4. Start(r, t)
    BY <2>1, <2>2
  <2>5. Shape(t) /\ Proper(t) /\ t.stage = "begin"
    BY <1>0, <2>3, IdleFacts DEF Shape, Fields, Proper, Kinds, Stages, Releases
  <2> QED
    BY <2>4, <2>5, StartedInv
<1>3. CASE StartList(r)
  <2> DEFINE kind == IF db[Channel] = "open" THEN "protect" ELSE "put"
  <2>1. PICK seats \in SUBSET Users, d \in DevicesOf(Owner) :
          /\ Owner \in seats
          /\ db[List].version < MaxVersion
          /\ Start(r, [New(kind) EXCEPT !.seats = seats, !.device = {d},
                                        !.version = db[List].version + 1, !.lapsed = Lapsed])
    BY <1>3 DEF StartList
  <2>2. kind \in {"protect", "put"}
    OBVIOUS
  <2> HIDE DEF kind
  <2>3. db[List].version + 1 \in 0..MaxVersion /\ {d} \in SUBSET Devices /\ {d} \subseteq DevicesOf(Owner)
    BY <2>1, <1>0, TextBounds DEF DevicesOf
  <2>4. PICK t : t = [New(kind) EXCEPT !.seats = seats, !.device = {d},
                                       !.version = db[List].version + 1, !.lapsed = Lapsed]
    OBVIOUS
  <2>5. t = [kind |-> kind, stage |-> "begin", user |-> Idle.user, cap |-> Idle.cap,
             seats |-> seats, version |-> db[List].version + 1, generation |-> Idle.generation,
             epoch |-> Idle.epoch, added |-> Idle.added, removed |-> Idle.removed, device |-> {d},
             lapsed |-> Lapsed, again |-> Idle.again, plan |-> Idle.plan]
    BY ONLY <2>4, IdleFields DEF New, Fields
  <2>6. Start(r, t)
    BY <2>1, <2>4
  <2>7. Shape(t) /\ Proper(t) /\ t.stage = "begin"
    BY <1>0, <2>1, <2>2, <2>3, <2>5, IdleFacts DEF Shape, Fields, Proper, Kinds, Stages, Releases
  <2> QED
    BY <2>6, <2>7, StartedInv
<1>4. CASE StartCreate(r)
  <2> DEFINE generation == IF Open(db[Group]) THEN db[Group].generation + 1 ELSE 0
  <2>1. /\ Open(db[Group]) => db[Group].generation < MaxGeneration
        /\ Start(r, [New("create") EXCEPT !.device = db[List].signer, !.generation = generation])
    BY <1>4 DEF StartCreate
  <2>2. generation \in 0..MaxGeneration
    BY <2>1, <1>0, TextBounds
  <2> HIDE DEF generation
  <2>3. PICK t : t = [New("create") EXCEPT !.device = db[List].signer, !.generation = generation]
    OBVIOUS
  <2>4. t = [kind |-> "create", stage |-> "begin", user |-> Idle.user, cap |-> Idle.cap,
             seats |-> Idle.seats, version |-> Idle.version, generation |-> generation,
             epoch |-> Idle.epoch, added |-> Idle.added, removed |-> Idle.removed,
             device |-> db[List].signer, lapsed |-> Idle.lapsed, again |-> Idle.again,
             plan |-> Idle.plan]
    BY ONLY <2>3, IdleFields DEF New, Fields
  <2>5. Start(r, t)
    BY <2>1, <2>3
  <2>6. Shape(t) /\ Proper(t) /\ t.stage = "begin"
    BY <1>0, <2>2, <2>4, IdleFacts DEF Shape, Fields, Proper, Kinds, Stages, Releases
  <2> QED
    BY <2>5, <2>6, StartedInv
<1>5. CASE StartCommit(r)
  <2> DEFINE T(d, added, removed) ==
                [New("commit") EXCEPT !.device = {d}, !.added = added, !.removed = removed,
                    !.generation = db[Group].generation, !.epoch = db[Group].epoch + 1,
                    !.version = db[Group].ad]
  <2>1. PICK d \in db[Group].members :
          \E added \in SUBSET (Devices \ db[Group].members), removed \in SUBSET (db[Group].members \ {d}) :
            db[Group].epoch < MaxEpoch /\ Start(r, T(d, added, removed))
    BY <1>5 DEF StartCommit
  <2>2. PICK added \in SUBSET (Devices \ db[Group].members), removed \in SUBSET (db[Group].members \ {d}) :
          db[Group].epoch < MaxEpoch /\ Start(r, T(d, added, removed))
    BY <2>1
  <2>3. /\ db[Group].epoch + 1 \in 0..MaxEpoch /\ {d} \in SUBSET Devices
        /\ added \in SUBSET Devices /\ removed \in SUBSET Devices
    BY <2>2, <1>0, TextBounds
  <2>4. PICK t : t = T(d, added, removed)
    OBVIOUS
  <2>5. t = [kind |-> "commit", stage |-> "begin", user |-> Idle.user, cap |-> Idle.cap,
             seats |-> Idle.seats, version |-> db[Group].ad, generation |-> db[Group].generation,
             epoch |-> db[Group].epoch + 1, added |-> added, removed |-> removed, device |-> {d},
             lapsed |-> Idle.lapsed, again |-> Idle.again, plan |-> Idle.plan]
    BY ONLY <2>4, IdleFields DEF New, Fields
  <2>6. Start(r, t)
    BY <2>2, <2>4
  <2>7. Shape(t) /\ Proper(t) /\ t.stage = "begin"
    BY <1>0, <2>3, <2>5, IdleFacts DEF Shape, Fields, Proper, Kinds, Stages, Releases
  <2> QED
    BY <2>6, <2>7, StartedInv
<1>6. ASSUME NEW kind \in {"remove", "join", "release"}, NEW u \in Others,
             Start(r, [New(kind) EXCEPT !.user = u])
      PROVE  Inv'
  <2>1. u \in Users /\ u # Owner
    BY DEF Others
  <2>2. PICK t : t = [New(kind) EXCEPT !.user = u]
    OBVIOUS
  <2>3. t = [kind |-> kind, stage |-> "begin", user |-> u, cap |-> Idle.cap, seats |-> Idle.seats,
             version |-> Idle.version, generation |-> Idle.generation, epoch |-> Idle.epoch,
             added |-> Idle.added, removed |-> Idle.removed, device |-> Idle.device,
             lapsed |-> Idle.lapsed, again |-> Idle.again, plan |-> Idle.plan]
    BY ONLY <2>2, IdleFields DEF New, Fields
  <2>4. Start(r, t)
    BY <1>6, <2>2
  <2>5. Shape(t) /\ Proper(t) /\ t.stage = "begin"
    BY <2>1, <2>3, IdleFacts DEF Shape, Fields, Proper, Kinds, Stages, Releases
  <2> QED
    BY <2>4, <2>5, StartedInv
<1>7. CASE StartRemove(r) \/ StartJoin(r) \/ StartRelease(r)
  BY <1>6, <1>7 DEF StartRemove, StartJoin, StartRelease
<1>8. CASE StartDelete(r)
  <2>1. Start(r, New("delete"))
    BY <1>8 DEF StartDelete
  <2>2. PICK t : t = New("delete")
    OBVIOUS
  <2>3. t = [kind |-> "delete", stage |-> "begin", user |-> Idle.user, cap |-> Idle.cap,
             seats |-> Idle.seats, version |-> Idle.version, generation |-> Idle.generation,
             epoch |-> Idle.epoch, added |-> Idle.added, removed |-> Idle.removed,
             device |-> Idle.device, lapsed |-> Idle.lapsed, again |-> Idle.again,
             plan |-> Idle.plan]
    BY ONLY <2>2, IdleFields DEF New, Fields
  <2>4. Start(r, t)
    BY <2>1, <2>2
  <2>5. Shape(t) /\ Proper(t) /\ t.stage = "begin"
    BY <2>3, IdleFacts DEF Shape, Fields, Proper, Kinds, Stages, Releases
  <2> QED
    BY <2>4, <2>5, StartedInv
<1>9. CASE StartPost(r)
  <2>1. Start(r, [New("post") EXCEPT !.stage = "post"])
    BY <1>9 DEF StartPost
  <2>2. PICK t : t = [New("post") EXCEPT !.stage = "post"]
    OBVIOUS
  <2>3. t = [kind |-> "post", stage |-> "post", user |-> Idle.user, cap |-> Idle.cap,
             seats |-> Idle.seats, version |-> Idle.version, generation |-> Idle.generation,
             epoch |-> Idle.epoch, added |-> Idle.added, removed |-> Idle.removed,
             device |-> Idle.device, lapsed |-> Idle.lapsed, again |-> Idle.again,
             plan |-> Idle.plan]
    BY ONLY <2>2, IdleFields DEF New, Fields
  <2>4. Start(r, t)
    BY <2>1, <2>2
  <2>5. Shape(t) /\ Proper(t) /\ t.stage = "post"
    BY <2>3, IdleFacts DEF Shape, Fields, Proper, Kinds, Stages, Releases
  <2> QED
    BY <2>4, <2>5, StartedInv
<1> QED
  BY <1>2, <1>3, <1>4, <1>5, <1>7, <1>8, <1>9

-----------------------------------------------------------------------------
(* A step that writes documents sends back the transactions it conflicts   *)
(* with                                                                    *)

\* A write of the documents W by one request keeps the invariant if it keeps to Rely
LEMMA WriteInv ==
    ASSUME Inv, NEW r \in Requests, NEW t, NEW W,
           req' = [Conflict(r, W) EXCEPT ![r] = t],
           Good(db'), Rely(db, db', W), Fitted', Struck', NoPlaintext',
           posts' \subseteq {"kept", "stray"}, "kept" \in posts' => "kept" \in posts \/ Channel \in W,
           overran => overran', overran' \in BOOLEAN, abandoned' \subseteq Users,
           Known(db', posts', overran', t),
           \A u \in Users : Held(db', u) /\ ~db'[Member(u)] =>
              \/ Retakes(t, u)
              \/ /\ Held(db, u) /\ ~db[Member(u)] /\ ~Retakes(req[r], u)
                 /\ u \in abandoned => u \in abandoned'
    PROVE  Inv'
<1>1. /\ req' = [q \in Requests |-> req'[q]] /\ req'[r] = t
      /\ \A q \in Requests \ {r} :
            req'[q] = IF DOMAIN req[q].plan \cap W # {} THEN Waits(req[q], "begin") ELSE req[q]
  BY DEF Conflict
<1>2. Rows(db) /\ Rows(db')
  BY DEF Inv, Good
<1>3. ASSUME NEW q \in Requests, q # r
      PROVE  /\ Known(db', posts', overran', req'[q])
             /\ \A u : Retakes(req[q], u) => Retakes(req'[q], u)
  <2>1. Known(db, posts, overran, req[q])
    BY DEF Inv
  <2>2. CASE DOMAIN req[q].plan \cap W = {}
    <3>1. req'[q] = req[q]
      BY <2>2, <1>1, <1>3
    <3>2. Known(db', posts', overran', req[q])
      BY <2>1, <2>2, <1>2, KnownStable
    <3> QED
      BY <3>1, <3>2
  <2>3. CASE DOMAIN req[q].plan \cap W # {}
    <3>1. req'[q] = Waits(req[q], "begin")
      BY <2>3, <1>1, <1>3
    <3>2. req[q].stage = "staged"
      BY <2>1, <2>3 DEF Known, Proper
    <3>3. /\ Known(db', posts', overran', Waits(req[q], "begin"))
          /\ \A u : Retakes(req[q], u) => Retakes(Waits(req[q], "begin"), u)
      BY <2>1, <3>2, SentBack
    <3> QED
      BY <3>1, <3>3
  <2> QED
    BY <2>2, <2>3
<1>4. \A q \in Requests : Known(db', posts', overran', req'[q])
  BY <1>1, <1>3
<1>5. Orphans'
  <2> SUFFICES ASSUME NEW u \in Users, Held(db', u), ~db'[Member(u)]
               PROVE  u \in abandoned' \/ \E q \in Requests : Retakes(req'[q], u)
    BY DEF Orphans
  <2>1. CASE Retakes(t, u)
    BY <2>1, <1>1
  <2>2. CASE /\ Held(db, u) /\ ~db[Member(u)] /\ ~Retakes(req[r], u)
             /\ u \in abandoned => u \in abandoned'
    <3>1. u \in abandoned \/ \E q \in Requests : Retakes(req[q], u)
      BY <2>2 DEF Inv, Orphans
    <3>2. ASSUME NEW q \in Requests, Retakes(req[q], u) PROVE q # r /\ Retakes(req'[q], u)
      BY <2>2, <3>2, <1>3
    <3> QED
      BY <2>2, <3>1, <3>2
  <2> QED
    BY <2>1, <2>2
<1> QED
  BY <1>1, <1>4, <1>5 DEF Inv

\* Cardinalities of sets of users
LEMMA CardMono ==
    ASSUME NEW S, NEW T, S \subseteq T, T \subseteq Users
    PROVE  /\ Cardinality(S) \in Nat /\ Cardinality(T) \in Nat
           /\ Cardinality(S) <= Cardinality(T)
<1>1. IsFiniteSet(T)
  BY TextUsers, FS_Subset
<1> QED
  BY <1>1, FS_Subset, FS_CardinalityType

\* What every commit does
LEMMA Committed ==
    ASSUME NEW a, NEW k, NEW o, NEW t, Good(a), Known(a, k, o, t), t.stage = "staged"
    PROVE  LET b == Applied(a, t) IN
           /\ Good(b) /\ Rely(a, b, DOMAIN t.plan)
           /\ \A u \in Users : b[Member(u)] = a[Member(u)]
           /\ Releases(t) /\ Seat(t.user) \in DOMAIN t.plan => ~Held(b, t.user)
<1> DEFINE b == Applied(a, t)
<1> USE DocFacts
<1>0. Shape(t) /\ Proper(t) /\ Staged(a, t) /\ t.user \in Users /\ DOMAIN t.plan \subseteq Docs
  BY DEF Known, Shape
<1>1. ASSUME NEW d \in Docs PROVE b[d] = IF d \in DOMAIN t.plan THEN t.plan[d] ELSE a[d]
  BY DEF Applied
<1>2. CASE t.kind = "grant"
  <2>1. \A u \in Users : Member(u) \notin DOMAIN t.plan
    BY <1>0, <1>2 DEF Staged, StagedGrant
  <2>2. \A u \in Users : b[Member(u)] = a[Member(u)]
    BY <2>1, <1>1
  <2>3. Good(b) /\ Rely(a, b, DOMAIN t.plan)
    BY <1>0, <1>2, GrantApplied DEF Staged
  <2> QED
    BY <2>2, <2>3, <1>2 DEF Releases
<1>3. CASE t.kind \in {"protect", "put"}
  <2>1. \A u \in Users : Member(u) \in DOMAIN t.plan => t.plan[Member(u)] = a[Member(u)]
    BY <1>0, <1>3 DEF Staged, StagedList
  <2>2. \A u \in Users : b[Member(u)] = a[Member(u)]
    BY <2>1, <1>1
  <2>3. Good(b) /\ Rely(a, b, DOMAIN t.plan)
    BY <1>0, <1>3, ListApplied DEF Staged
  <2> QED
    BY <2>2, <2>3, <1>3 DEF Releases
<1>4. CASE t.kind = "create"
  <2>1. \A u \in Users : Member(u) \notin DOMAIN t.plan
    BY <1>0, <1>4 DEF Staged, StagedCreate
  <2>2. \A u \in Users : b[Member(u)] = a[Member(u)]
    BY <2>1, <1>1
  <2>3. Good(b) /\ Rely(a, b, DOMAIN t.plan)
    BY <1>0, <1>4, CreateApplied DEF Staged
  <2> QED
    BY <2>2, <2>3, <1>4 DEF Releases
<1>5. CASE t.kind = "commit"
  <2>0. \A x \in t.added : UserOf[x] \in Users
    BY <1>0, TextDevices DEF Shape
  <2>1. \A u \in Users : Member(u) \notin DOMAIN t.plan
    BY <1>0, <1>5, <2>0 DEF Staged, StagedCommit
  <2>2. \A u \in Users : b[Member(u)] = a[Member(u)]
    BY <2>1, <1>1
  <2>3. Good(b) /\ Rely(a, b, DOMAIN t.plan)
    BY <1>0, <1>5, CommitApplied DEF Staged
  <2> QED
    BY <2>2, <2>3, <1>5 DEF Releases
<1>6. CASE t.kind = "delete"
  <2>1. \A u \in Users : Member(u) \notin DOMAIN t.plan
    BY <1>0, <1>6 DEF Staged, StagedDelete
  <2>2. \A u \in Users : b[Member(u)] = a[Member(u)]
    BY <2>1, <1>1
  <2>3. Good(b) /\ Rely(a, b, DOMAIN t.plan)
    BY <1>0, <1>6, DeleteApplied DEF Staged
  <2> QED
    BY <2>2, <2>3, <1>6 DEF Releases
<1>7. CASE Releases(t)
  <2>0. StagedRelease(a, t) /\ t.user # Owner
    BY <1>0, <1>7 DEF Staged, Proper
  <2>1. \A u \in Users : Member(u) \notin DOMAIN t.plan
    BY <1>0, <2>0 DEF StagedRelease
  <2>2. \A u \in Users : b[Member(u)] = a[Member(u)]
    BY <2>1, <1>1
  <2>3. Good(b) /\ Rely(a, b, DOMAIN t.plan)
    BY <1>0, <2>0, ReleaseApplied
  <2>4. Seat(t.user) \in DOMAIN t.plan => ~Held(b, t.user)
    BY <1>0, <1>1, <2>0 DEF StagedRelease, Held
  <2> QED
    BY <2>2, <2>3, <2>4
<1> QED
  BY <1>0, <1>2, <1>3, <1>4, <1>5, <1>6, <1>7 DEF Shape, Proper, Kinds, Releases

\* The cap, and the users the server has struck off, outlive every commit
Overruns(a, t) ==
    /\ t.kind = "put"
    /\ \E u \in t.seats \ t.lapsed : Seat(u) \in DOMAIN t.plan /\ a[Seat(u)] = "lapsed"

\* Seats in use fit the cap after every commit, or the commit overran
LEMMA CommitFitted ==
    ASSUME NEW a, NEW k, NEW o, NEW t, Good(a), Known(a, k, o, t), t.stage = "staged",
           Cardinality(InUse(a)) <= a[Entitlement] \/ o
    PROVE  LET b == Applied(a, t) IN
           Cardinality(InUse(b)) <= b[Entitlement] \/ o \/ Overruns(a, t)
<1> DEFINE b == Applied(a, t)
           P == DOMAIN t.plan
<1> USE DocFacts
<1>0. /\ Shape(t) /\ Proper(t) /\ Staged(a, t) /\ Fits(a, t, o) /\ t.seats \subseteq Users
      /\ b[Entitlement] = IF Entitlement \in P THEN t.plan[Entitlement] ELSE a[Entitlement]
  BY DEF Known, Shape, Applied
<1>1. Good(b) /\ Rely(a, b, P)
  BY Committed
<1> SUFFICES Cardinality(InUse(b)) <= b[Entitlement] \/ o \/ Overruns(a, t)
  OBVIOUS
<1> HIDE DEF b
<1>2. InUse(a) \subseteq Users /\ InUse(b) \subseteq Users
  BY DEF InUse
<1>3. a[Entitlement] \in Nat /\ b[Entitlement] \in Nat
  BY <1>1, TextCaps DEF Good, Rows, Caps0
<1>4. CASE Entitlement \notin P
  <2>1. InUse(b) \subseteq InUse(a) /\ b[Entitlement] = a[Entitlement]
    BY <1>0, <1>1, <1>4 DEF Rely
  <2> QED
    BY <2>1, <1>2, <1>3, CardMono
<1>5. CASE Entitlement \in P /\ t.kind = "grant"
  <2>1. InUse(b) \subseteq InUse(a)
    <3>1. \A u \in Users : b[Seat(u)] = a[Seat(u)]
      BY <1>0, <1>5 DEF Staged, StagedGrant, Applied, b
    <3> QED
      BY <3>1 DEF InUse
  <2>2. Cardinality(InUse(a)) <= t.cap /\ b[Entitlement] = t.cap
    BY <1>0, <1>5 DEF Fits, Staged, StagedGrant
  <2> QED
    BY <2>1, <2>2, <1>2, <1>3, CardMono
<1>6. CASE Entitlement \in P /\ t.kind \in {"protect", "put"}
  <2>1. StagedList(a, t) /\ b[Entitlement] = a[Entitlement]
    BY <1>0, <1>6 DEF Staged, StagedList
  <2>2. InUse(b) \subseteq InUse(a) \cup Claims(t) /\ Claims(t) \subseteq Users
    BY <2>1, <1>0, <1>6, ListApplied DEF Claims, b
  <2>3. LapsedClaim(a, t) => Overruns(a, t)
    <3> SUFFICES ASSUME LapsedClaim(a, t) PROVE t.kind = "put"
      BY DEF LapsedClaim, Overruns, Claims
    <3>1. PICK u \in t.seats : a[Seat(u)] = "lapsed"
      BY DEF LapsedClaim, Claims
    <3>2. u \in Users
      BY <1>0
    <3>3. a[Channel] = "open" => a[Seat(u)] = "none"
      BY <3>2 DEF Good, Listed
    <3> QED
      BY <2>1, <3>1, <3>3, <1>6 DEF StagedList
  <2>4. \/ Cardinality(InUse(a) \cup Claims(t)) <= a[Entitlement]
        \/ o \/ LapsedClaim(a, t)
    BY <1>0, <1>6 DEF Fits
  <2>5. /\ Cardinality(InUse(b)) <= Cardinality(InUse(a) \cup Claims(t))
        /\ Cardinality(InUse(b)) \in Nat /\ Cardinality(InUse(a) \cup Claims(t)) \in Nat
    BY <2>2, <1>2, CardMono
  <2> QED
    BY <2>1, <2>3, <2>4, <2>5, <1>3
<1>7. CASE Entitlement \in P /\ t.kind = "delete"
  <2>1. InUse(b) = {}
    BY <1>0, <1>7, DeleteApplied DEF Staged, b
  <2> QED
    BY <2>1, <1>3, FS_EmptySet
<1>8. Entitlement \in P => t.kind \in {"grant", "protect", "put", "delete"}
  <2>1. \A x \in t.added : UserOf[x] \in Users
    BY <1>0, TextDevices DEF Shape
  <2>2. t.kind = "commit" => Entitlement \notin P
    BY <2>1, <1>0 DEF Staged, StagedCommit
  <2>3. t.kind = "create" => Entitlement \notin P
    BY <1>0 DEF Staged, StagedCreate
  <2>4. Releases(t) => Entitlement \notin P
    BY <1>0 DEF Staged, StagedRelease, Shape
  <2> QED
    BY <2>2, <2>3, <2>4, <1>0 DEF Shape, Proper, Kinds, Releases
<1> QED
  BY <1>4, <1>5, <1>6, <1>7, <1>8

\* Somebody struck off stays listed and unseated after every commit, or is no longer listed
LEMMA CommitStruck ==
    ASSUME Inv, NEW r \in Requests, Commit(r)
    PROVE  Struck'
<1> DEFINE t == req[r]
           P == DOMAIN t.plan
           b == Applied(db, t)
<1> USE DocFacts
<1>1. /\ db' = b /\ t.stage = "staged" /\ Good(db) /\ Known(db, posts, overran, t)
      /\ struck \subseteq db[List].seats \ {Owner} /\ \A u \in struck : ~Held(db, u)
      /\ db[List].seats \subseteq Users
  BY DEF Commit, At, Inv, Struck, Applied, Good, Rows
<1>2. Shape(t) /\ Proper(t) /\ Staged(db, t) /\ t.user \in Users
  BY <1>1 DEF Known, Shape
<1>3. /\ Good(b) /\ Rely(db, b, P)
      /\ Releases(t) /\ Seat(t.user) \in P => ~Held(b, t.user)
  BY <1>1, Committed
<1>4. struck' = CASE t.kind \in {"put", "protect"} -> struck \cap t.seats
                  [] t.kind = "delete" -> {}
                  [] Releases(t) /\ Seat(t.user) \in P -> struck \cup ({t.user} \cap db[List].seats)
                  [] OTHER -> struck
  BY DEF Commit
<1>5. b[List] = IF List \in P THEN t.plan[List] ELSE db[List]
  BY DEF Applied
<1> SUFFICES struck' \subseteq b[List].seats \ {Owner} /\ \A u \in struck' : ~Held(b, u)
  BY <1>1 DEF Struck
<1> HIDE DEF b, t
<1>6. CASE t.kind \in {"put", "protect"}
  <2>1. StagedList(db, t)
    BY <1>2, <1>6 DEF Staged
  <2>2. b[List].seats = t.seats /\ \A u \in db[List].seats \ {Owner} : Held(b, u) => Held(db, u)
    BY <2>1, <1>1, <1>2, <1>6, ListApplied DEF b
  <2>3. struck' = struck \cap t.seats
    BY <1>4, <1>6 DEF Releases
  <2> QED
    BY <2>2, <2>3, <1>1
<1>7. CASE t.kind = "delete"
  BY <1>4, <1>7 DEF Releases
<1>8. CASE t.kind \notin {"put", "protect", "delete"}
  <2>1. b[List] = db[List] /\ (List \notin P \/ Entitlement \notin P)
    <3>1. CASE t.kind = "grant"
      BY <3>1, <1>2, <1>5 DEF Staged, StagedGrant
    <3>2. CASE t.kind = "create"
      BY <3>2, <1>2, <1>5 DEF Staged, StagedCreate
    <3>3. CASE t.kind = "commit"
      <4>1. \A x \in t.added : UserOf[x] \in Users
        BY <1>2, TextDevices DEF Shape
      <4> QED
        BY <3>3, <4>1, <1>2, <1>5 DEF Staged, StagedCommit
    <3>4. CASE Releases(t)
      BY <3>4, <1>2, <1>5 DEF Staged, StagedRelease
    <3> QED
      BY <3>1, <3>2, <3>3, <3>4, <1>1, <1>2, <1>8 DEF Shape, Proper, Kinds, Releases
  <2>2. \A u \in Users : Held(b, u) => Held(db, u)
    BY <2>1, <1>3 DEF Rely
  <2>3. CASE Releases(t) /\ Seat(t.user) \in P
    <3>1. struck' = struck \cup ({t.user} \cap db[List].seats)
      BY <2>3, <1>4, <1>8
    <3>2. t.user # Owner
      BY <2>3, <1>2 DEF Proper
    <3> QED
      BY <2>1, <2>2, <2>3, <3>1, <3>2, <1>1, <1>3
  <2>4. CASE ~(Releases(t) /\ Seat(t.user) \in P)
    <3>1. struck' = struck
      BY <2>4, <1>4, <1>8
    <3> QED
      BY <2>1, <2>2, <3>1, <1>1
  <2> QED
    BY <2>3, <2>4
<1> QED
  BY <1>6, <1>7, <1>8

\* Whatever a request does once it has committed, it holds no plan
LEMMA AfterKnown ==
    ASSUME NEW a, NEW k, NEW o, NEW b, NEW l, NEW p, NEW t, Known(a, k, o, t), t.stage = "staged"
    PROVE  Known(b, l, p, After(t))
<1>1. Shape(t) /\ Proper(t)
  BY DEF Known
<1>2. ASSUME NEW stage \in Stages \ {"idle", "begin", "staged"}, ~t.again,
             stage = "soft_delete" => t.kind = "remove"
      PROVE  Known(b, l, p, Waits(t, stage))
  <2> DEFINE s == Waits(t, stage)
  <2>1. /\ Shape(s) /\ s.stage = stage /\ DOMAIN s.plan = {} /\ s.kind = t.kind /\ s.user = t.user
        /\ s.cap = t.cap /\ s.seats = t.seats /\ s.device = t.device /\ s.again = t.again
    BY <1>1, WaitsShape
  <2> HIDE DEF s
  <2>2. Proper(s)
    BY <2>1, <1>1, <1>2 DEF Proper, Releases
  <2>3. Known(b, l, p, s)
    BY <2>1, <2>2, <1>2 DEF Known
  <2> QED
    BY <2>3 DEF s
<1>3. CASE t.kind = "remove" /\ ~t.again
  <2>1. After(t) = Waits(t, "soft_delete")
    BY <1>3 DEF After
  <2> QED
    BY <2>1, <1>2, <1>3 DEF Stages
<1>4. CASE t.kind = "join"
  <2>1. After(t) = Waits(t, "insert") /\ ~t.again
    BY <1>1, <1>4 DEF After, Proper
  <2> QED
    BY <2>1, <1>2 DEF Stages
<1>5. CASE t.kind = "delete"
  <2>1. After(t) = Waits(t, "drop") /\ ~t.again
    BY <1>1, <1>5 DEF After, Proper
  <2> QED
    BY <2>1, <1>2 DEF Stages
<1>6. CASE ~(t.kind = "remove" /\ ~t.again) /\ t.kind \notin {"join", "delete"}
  <2>1. After(t) = Idle
    BY <1>6 DEF After
  <2> QED
    BY <2>1, IdleFacts
<1> QED
  BY <1>3, <1>4, <1>5, <1>6

\* A commit
LEMMA CommitInv ==
    ASSUME Inv, NEW r \in Requests, Commit(r)
    PROVE  Inv'
<1> DEFINE t == req[r]
           P == DOMAIN t.plan
           b == Applied(db, t)
<1> USE DocFacts
<1>1. /\ db' = b /\ t.stage = "staged" /\ Good(db) /\ Known(db, posts, overran, t) /\ Fitted
  BY DEF Commit, At, Inv, Applied
<1>2. /\ req' = [Conflict(r, P) EXCEPT ![r] = After(t)] /\ posts' = posts
      /\ abandoned' = IF Releases(t) /\ Seat(t.user) \in P THEN abandoned \ {t.user} ELSE abandoned
      /\ overran' = (overran \/ Overruns(db, t))
  BY DEF Commit, Overruns
<1>3. Shape(t) /\ Proper(t) /\ Staged(db, t) /\ t.user \in Users
  BY <1>1 DEF Known, Shape
<1>4. /\ Good(b) /\ Rely(db, b, P)
      /\ \A u \in Users : b[Member(u)] = db[Member(u)]
      /\ Releases(t) /\ Seat(t.user) \in P => ~Held(b, t.user)
  BY <1>1, Committed
<1>5. Struck'
  BY CommitStruck
<1>6. Fitted'
  <2>1. Cardinality(InUse(b)) <= b[Entitlement] \/ overran \/ Overruns(db, t)
    BY <1>1, CommitFitted DEF Fitted
  <2> QED
    BY <2>1, <1>1, <1>2 DEF Fitted
<1>7. Known(db', posts', overran', After(t))
  BY <1>1, AfterKnown
<1>8. /\ posts \subseteq {"kept", "stray"} /\ abandoned' \subseteq Users /\ overran' \in BOOLEAN
      /\ overran => overran'
  BY <1>2 DEF Inv
<1>9. NoPlaintext'
  <2>1. CASE Channel \notin P
    BY <2>1, <1>1, <1>2, <1>4 DEF Inv, NoPlaintext, Rely
  <2>2. CASE t.kind = "protect"
    BY <2>2, <1>1, <1>2 DEF Known, NoPlaintext
  <2>3. CASE t.kind # "protect"
    <3>1. \A x \in t.added : UserOf[x] \in Users
      BY <1>3, TextDevices DEF Shape
    <3>2. t.kind = "commit" => Channel \notin P
      BY <3>1, <1>3 DEF Staged, StagedCommit
    <3>3. t.kind = "create" => Channel \notin P
      BY <1>3 DEF Staged, StagedCreate
    <3>4. Releases(t) => Channel \notin P
      BY <1>3 DEF Staged, StagedRelease
    <3>5. t.kind = "delete" => Channel \notin P
      BY <1>3 DEF Staged, StagedDelete
    <3>6. t.kind = "grant" => Channel \notin P
      BY <1>3 DEF Staged, StagedGrant
    <3>7. t.kind = "put" => Channel \notin P
      BY <1>3 DEF Staged, StagedList
    <3> QED
      BY <2>1, <2>3, <3>2, <3>3, <3>4, <3>5, <3>6, <3>7, <1>1, <1>3 DEF Shape, Proper, Kinds, Releases
  <2> QED
    BY <2>2, <2>3
<1>10. ASSUME NEW u \in Users, Held(b, u), ~b[Member(u)]
       PROVE  /\ Held(db, u) /\ ~db[Member(u)] /\ ~Retakes(t, u)
              /\ u \in abandoned => u \in abandoned'
  <2>1. Held(db, u)
    BY <1>4, <1>10 DEF Rely
  <2>2. ~Retakes(t, u)
    BY <1>1, <1>4, <1>10 DEF Retakes, Releases
  <2>3. u \in abandoned => u \in abandoned'
    BY <1>2, <1>4, <1>10
  <2> QED
    BY <2>1, <2>2, <2>3, <1>4, <1>10
<1> HIDE DEF b
<1> QED
  BY <1>1, <1>2, <1>4, <1>5, <1>6, <1>7, <1>8, <1>9, <1>10, WriteInv

-----------------------------------------------------------------------------
(* The other steps                                                         *)

\* A transaction begins
LEMMA BeginInv ==
    ASSUME Inv, NEW r \in Requests, Begin(r)
    PROVE  Inv'
<1> DEFINE t == req[r]
           s == Staging(t, Plan(t))
<1>1. /\ t.stage = "begin" /\ Allowed(t) /\ Moves(r, s)
      /\ UNCHANGED <<db, struck, overran>> /\ posts' = posts /\ abandoned' = abandoned
  BY DEF Begin, At, Staging, history
<1>2. Good(db) /\ Fitted /\ Shape(t) /\ Proper(t) /\ t.user \in Users
      /\ posts \subseteq {"kept", "stray"} /\ abandoned \subseteq Users
  BY DEF Inv, Known, Shape
<1>3. DOMAIN Plan(t) \subseteq Docs /\ Known(db, posts, overran, s)
  BY <1>1, <1>2, Begins
<1>4. /\ s.kind = t.kind /\ s.user = t.user /\ s.again = t.again /\ s.plan = Plan(t)
      /\ s.stage = "staged"
  BY <1>2, <1>3, StageShape
<1>5. ASSUME NEW u \in Users, Retakes(t, u), Held(db, u) PROVE Retakes(s, u)
  <2>1. t.kind = "remove" /\ t.user = u /\ t.again
    BY <1>5 DEF Retakes
  <2>2. db[Entitlement] \in Nat /\ db[Entitlement] # 0
    BY <1>2, <1>5, TextCaps DEF Good, Rows, Caps0, Listed
  <2>3. Plan(t) = Release(t)
    BY <2>1, <2>2 DEF Plan
  <2>4. Seat(u) \in DOMAIN Plan(t)
    BY <2>1, <2>3, <1>5 DEF Release, Active, Held
  <2> HIDE DEF s
  <2> QED
    BY <2>1, <2>4, <1>4 DEF Retakes
<1> HIDE DEF s
<1> QED
  BY <1>1, <1>2, <1>3, <1>5, MovesInv

\* A transaction is refused; a removal never is
LEMMA RefuseInv ==
    ASSUME Inv, NEW r \in Requests, Refuse(r)
    PROVE  Inv'
<1>1. /\ req[r].stage = "begin" /\ ~Allowed(req[r]) /\ Moves(r, Idle)
      /\ UNCHANGED <<db, struck, overran>> /\ posts' = posts /\ abandoned' = abandoned
  BY DEF Refuse, At, history
<1>2. posts \subseteq {"kept", "stray"} /\ abandoned \subseteq Users
  BY DEF Inv
<1>3. Known(db, posts, overran, Idle)
  BY IdleFacts
<1>4. ASSUME NEW u \in Users PROVE ~Retakes(req[r], u)
  BY <1>1 DEF Retakes, Allowed
<1> QED
  BY <1>1, <1>2, <1>3, <1>4, MovesInv

\* A request dies; a removal that had a seat to take is then abandoned
LEMMA FailInv ==
    ASSUME Inv, NEW r \in Requests, Fail(r)
    PROVE  Inv'
<1> DEFINE t == req[r]
<1>1. /\ Moves(r, Idle) /\ UNCHANGED <<db, struck, overran>>
      /\ posts' = IF t.stage = "hold" THEN posts \cup {"stray"} ELSE posts
      /\ abandoned' = IF t.kind = "remove" /\ t.again THEN abandoned \cup {t.user} ELSE abandoned
  BY DEF Fail
<1>2. posts \subseteq {"kept", "stray"} /\ abandoned \subseteq Users /\ t.user \in Users
  BY DEF Inv, Known, Shape
<1>3. Known(db, posts', overran, Idle)
  BY IdleFacts
<1>4. ASSUME NEW u \in Users, Retakes(t, u) PROVE u \in abandoned'
  BY <1>1, <1>4 DEF Retakes
<1>5. posts' \subseteq {"kept", "stray"} /\ ("kept" \in posts' => "kept" \in posts)
  BY <1>1, <1>2
<1>6. abandoned \subseteq abandoned' /\ abandoned' \subseteq Users
  BY <1>1, <1>2
<1> QED
  BY <1>1, <1>3, <1>4, <1>5, <1>6, MovesInv

\* A message is inserted before it is held
LEMMA PostInv ==
    ASSUME Inv, NEW r \in Requests, Post(r)
    PROVE  Inv'
<1>1. PICK s : s = [req[r] EXCEPT !.stage = "hold"]
  OBVIOUS
<1>2. /\ req[r].stage = "post" /\ Moves(r, s)
      /\ UNCHANGED <<db, struck, overran>> /\ posts' = posts /\ abandoned' = abandoned
  BY <1>1 DEF Post, At, history
<1>3. Shape(req[r]) /\ Proper(req[r]) /\ posts \subseteq {"kept", "stray"} /\ abandoned \subseteq Users
  BY DEF Inv, Known
<1>4. s = [kind |-> req[r].kind, stage |-> "hold", user |-> req[r].user, cap |-> req[r].cap,
           seats |-> req[r].seats, version |-> req[r].version, generation |-> req[r].generation,
           epoch |-> req[r].epoch, added |-> req[r].added, removed |-> req[r].removed,
           device |-> req[r].device, lapsed |-> req[r].lapsed, again |-> req[r].again,
           plan |-> req[r].plan]
  <2>1. Fields(req[r])
    BY <1>3 DEF Shape
  <2> QED
    BY ONLY <1>1, <2>1 DEF Fields
<1>5. /\ s.stage = "hold" /\ s.plan = req[r].plan /\ s.kind = req[r].kind /\ s.user = req[r].user
      /\ s.cap = req[r].cap /\ s.seats = req[r].seats /\ s.version = req[r].version
      /\ s.generation = req[r].generation /\ s.epoch = req[r].epoch /\ s.added = req[r].added
      /\ s.removed = req[r].removed /\ s.device = req[r].device /\ s.lapsed = req[r].lapsed
      /\ s.again = req[r].again
  BY <1>4
<1>6. Fields(s)
  BY <1>4, <1>5 DEF Fields
<1>7. Shape(s) /\ Proper(s)
  BY <1>2, <1>3, <1>5, <1>6 DEF Shape, Proper, Stages, Releases
<1>8. Known(db, posts, overran, s)
  BY <1>5, <1>7 DEF Known
<1>9. ASSUME NEW u \in Users PROVE ~Retakes(req[r], u)
  BY <1>2, <1>3 DEF Retakes, Proper
<1> QED
  BY <1>2, <1>3, <1>8, <1>9, MovesInv

\* A write of a membership or of the channel alone leaves everything else as it is
LEMMA SingleWrite ==
    ASSUME NEW a, Good(a), NEW d \in Docs, NEW v, NEW b,
           b = [x \in Docs |-> b[x]], b[d] = v, \A x \in Docs \ {d} : b[x] = a[x],
           \/ d = Channel /\ v = "gone"
           \/ \E u \in Users : d = Member(u) /\ v \in BOOLEAN
    PROVE  /\ Good(b) /\ Rely(a, b, {d}) /\ InUse(b) = InUse(a) /\ b[Entitlement] = a[Entitlement]
           /\ b[List] = a[List] /\ \A u \in Users : Held(b, u) <=> Held(a, u)
<1> USE DocFacts
<1>1. /\ b = [x \in Docs |-> b[x]] /\ b[d] = v
      /\ \A x \in Docs \ {d} : b[x] = a[x]
  OBVIOUS
<1>2. /\ b[Entitlement] = a[Entitlement] /\ b[List] = a[List] /\ b[Group] = a[Group]
      /\ \A u \in Users : b[Seat(u)] = a[Seat(u)]
  BY <1>1
<1>3. b[Channel] \in {a[Channel], "gone"} /\ \A u \in Users : b[Member(u)] \in {a[Member(u)], TRUE, FALSE}
  BY <1>1
<1>4. Rows(b)
  BY <1>1, <1>2, <1>3 DEF Good, Rows
<1>5. \A u \in Users : Held(b, u) <=> Held(a, u)
  BY <1>2 DEF Held
<1>6. \A x \in a[Group].members : UserOf[x] \in Users
  BY TextDevices DEF Good, Rows, GroupRows
<1>7. Roster(b)
  BY <1>2, <1>5, <1>6 DEF Good, Roster
<1>8. Listed(b)
  BY <1>2, <1>3, <1>5, TextOwner DEF Good, Listed
<1>9. InUse(b) = InUse(a)
  BY <1>2 DEF InUse
<1>10. /\ \A x \in {Entitlement, List, Group, Channel} \ {d} : b[x] = a[x]
       /\ \A u \in Users : Member(u) \notin {d} => b[Member(u)] = a[Member(u)]
       /\ List # d /\ Group # d /\ Entitlement # d
  BY <1>1
<1>11. Rely(a, b, {d})
  BY <1>2, <1>5, <1>9, <1>10 DEF Rely
<1> QED
  BY <1>2, <1>4, <1>5, <1>7, <1>8, <1>9, <1>11 DEF Good

\* A single write keeps the invariant if whoever loses the membership is to lose the seat
LEMMA WritesInv ==
    ASSUME Inv, NEW r \in Requests, NEW d \in Docs, NEW v, NEW t, Writes(r, d, v, t),
           \/ d = Channel /\ v = "gone"
           \/ \E u \in Users : d = Member(u) /\ v \in BOOLEAN,
           Known(db', posts, overran, t), ~req[r].again,
           \A u \in Users : db[Member(u)] /\ ~db'[Member(u)] => Retakes(t, u)
    PROVE  Inv'
<1>1. /\ db' = [db EXCEPT ![d] = v] /\ req' = [Conflict(r, {d}) EXCEPT ![r] = t]
      /\ posts' = posts /\ struck' = struck /\ abandoned' = abandoned /\ overran' = overran
  BY DEF Writes, history
<1>2. /\ Good(db) /\ posts \subseteq {"kept", "stray"} /\ abandoned \subseteq Users
      /\ overran \in BOOLEAN /\ Fitted /\ Struck /\ NoPlaintext
      /\ db[List].seats \subseteq Users
  BY DEF Inv, Good, Rows
<1>3. /\ Good(db') /\ Rely(db, db', {d}) /\ InUse(db') = InUse(db) /\ db'[Entitlement] = db[Entitlement]
      /\ db'[List] = db[List] /\ \A u \in Users : Held(db', u) <=> Held(db, u)
  <2>1. db' = [x \in Docs |-> db'[x]] /\ db'[d] = v /\ \A x \in Docs \ {d} : db'[x] = db[x]
    BY <1>1, <1>2 DEF Good, Rows
  <2> QED
    BY <2>1, <1>2, SingleWrite
<1>4. Fitted' /\ Struck'
  BY <1>1, <1>2, <1>3 DEF Fitted, Struck
<1>5. NoPlaintext'
  <2>1. db'[Channel] \in {db[Channel], "gone"}
    BY <1>1, <1>2, DocFacts DEF Good, Rows
  <2> QED
    BY <2>1, <1>1, <1>2 DEF NoPlaintext
<1>6. \A u \in Users : ~Retakes(req[r], u)
  BY DEF Retakes
<1>7. Known(db', posts', overran', t)
  BY <1>1
<1> QED
  BY <1>1, <1>2, <1>3, <1>4, <1>5, <1>6, <1>7, WriteInv

\* The membership ends, and its seats are to be released again
LEMMA SoftDeleteInv ==
    ASSUME Inv, NEW r \in Requests, SoftDelete(r)
    PROVE  Inv'
<1> DEFINE q == Waits(req[r], "begin")
<1>1. PICK s : s = [q EXCEPT !.again = TRUE]
  OBVIOUS
<1>2. /\ req[r].stage = "soft_delete" /\ db[Member(req[r].user)]
      /\ Writes(r, Member(req[r].user), FALSE, s)
  BY <1>1 DEF SoftDelete, At
<1>3. /\ Shape(req[r]) /\ Proper(req[r]) /\ req[r].user \in Users /\ ~req[r].again
      /\ req[r].kind = "remove" /\ Member(req[r].user) \in Docs
  BY <1>2, DocFacts DEF Inv, Known, Shape, Proper
<1>4. /\ Shape(q) /\ q.stage = "begin" /\ DOMAIN q.plan = {} /\ q.kind = "remove"
      /\ q.user = req[r].user
  BY <1>3, WaitsShape DEF Stages
<1> HIDE DEF q
<1>5. PICK yes : yes = TRUE
  OBVIOUS
<1>6. s = [kind |-> q.kind, stage |-> q.stage, user |-> q.user, cap |-> q.cap, seats |-> q.seats,
           version |-> q.version, generation |-> q.generation, epoch |-> q.epoch,
           added |-> q.added, removed |-> q.removed, device |-> q.device,
           lapsed |-> q.lapsed, again |-> yes, plan |-> q.plan]
  <2>1. Fields(q) /\ s = [q EXCEPT !.again = yes]
    BY <1>1, <1>4, <1>5 DEF Shape
  <2> QED
    BY ONLY <2>1 DEF Fields
<1>7. /\ s.kind = q.kind /\ s.stage = q.stage /\ s.user = q.user /\ s.cap = q.cap /\ s.seats = q.seats
      /\ s.version = q.version /\ s.generation = q.generation /\ s.epoch = q.epoch
      /\ s.added = q.added /\ s.removed = q.removed /\ s.device = q.device
      /\ s.lapsed = q.lapsed /\ s.plan = q.plan /\ s.again = yes
  BY <1>6
<1>8. Fields(s)
  BY <1>6, <1>7 DEF Fields
<1>9. Shape(s) /\ s.again
  BY <1>4, <1>5, <1>7, <1>8 DEF Shape
<1>10. Proper(s)
  BY <1>3, <1>4, <1>7 DEF Proper, Releases
<1>11. Known(db', posts, overran, s)
  BY <1>4, <1>7, <1>9, <1>10 DEF Known
<1>12. ASSUME NEW u \in Users, db[Member(u)], ~db'[Member(u)] PROVE Retakes(s, u)
  <2>1. u = req[r].user
    BY <1>2, <1>3, <1>12, DocFacts DEF Writes, Inv, Good, Rows
  <2> QED
    BY <2>1, <1>4, <1>7, <1>9 DEF Retakes
<1> QED
  BY <1>2, <1>3, <1>11, <1>12, WritesInv

\* A membership begins
LEMMA InsertInv ==
    ASSUME Inv, NEW r \in Requests, Insert(r)
    PROVE  Inv'
<1>1. req[r].stage = "insert" /\ Writes(r, Member(req[r].user), TRUE, Idle)
  BY DEF Insert, At
<1>2. req[r].user \in Users /\ ~req[r].again /\ Member(req[r].user) \in Docs
  BY <1>1, DocFacts DEF Inv, Known, Shape, Proper
<1>3. \A u \in Users : db[Member(u)] => db'[Member(u)]
  BY <1>1, <1>2, DocFacts DEF Writes, Inv, Good, Rows
<1>4. Known(db', posts, overran, Idle)
  BY IdleFacts
<1> QED
  BY <1>1, <1>2, <1>3, <1>4, WritesInv

\* The channel is gone
LEMMA DropInv ==
    ASSUME Inv, NEW r \in Requests, Drop(r)
    PROVE  Inv'
<1>1. req[r].stage = "drop" /\ Writes(r, Channel, "gone", Idle)
  BY DEF Drop, At
<1>2. ~req[r].again /\ Channel \in Docs
  BY <1>1, DocFacts DEF Inv, Known, Proper
<1>3. \A u \in Users : db[Member(u)] => db'[Member(u)]
  BY <1>1, <1>2, DocFacts DEF Writes, Inv, Good, Rows
<1>4. Known(db', posts, overran, Idle)
  BY IdleFacts
<1> QED
  BY <1>1, <1>2, <1>3, <1>4, WritesInv

\* A message is held in an open channel, which it writes, or deleted again
LEMMA HoldInv ==
    ASSUME Inv, NEW r \in Requests, Hold(r)
    PROVE  Inv'
<1> DEFINE W == IF db[Channel] = "open" THEN {Channel} ELSE {}
<1>1. /\ req[r].stage = "hold" /\ db' = db /\ struck' = struck /\ abandoned' = abandoned
      /\ overran' = overran /\ req' = [Conflict(r, W) EXCEPT ![r] = Idle]
      /\ posts' = IF db[Channel] = "open" THEN posts \cup {"kept"} ELSE posts
  BY DEF Hold, At, history
<1>2. /\ Good(db) /\ posts \subseteq {"kept", "stray"} /\ abandoned \subseteq Users
      /\ overran \in BOOLEAN /\ Fitted /\ Struck /\ NoPlaintext
  BY DEF Inv
<1>3. Rely(db, db', W)
  BY <1>1, DocFacts DEF Rely
<1>4. Good(db') /\ Fitted' /\ Struck'
  BY <1>1, <1>2 DEF Fitted, Struck
<1>5. NoPlaintext'
  BY <1>1, <1>2 DEF NoPlaintext
<1>6. Known(db', posts', overran', Idle)
  BY IdleFacts
<1>7. \A u \in Users : ~Retakes(req[r], u)
  BY <1>1 DEF Retakes, Inv, Known, Proper
<1>8. posts' \subseteq {"kept", "stray"} /\ ("kept" \in posts' => "kept" \in posts \/ Channel \in W)
  BY <1>1, <1>2
<1> HIDE DEF W
<1> QED
  BY <1>1, <1>2, <1>3, <1>4, <1>5, <1>6, <1>7, <1>8, WriteInv

\* A cooldown runs out, unseen by any transaction
LEMMA LapseInv ==
    ASSUME Inv, NEW v \in Users, Lapse(v)
    PROVE  Inv'
<1> USE DocFacts
<1>1. /\ db[Seat(v)] = "cooling" /\ db' = [db EXCEPT ![Seat(v)] = "lapsed"]
      /\ UNCHANGED <<posts, req, struck, abandoned, overran>>
  BY DEF Lapse, history
<1>2. /\ db' = [x \in Docs |-> db'[x]] /\ db'[Seat(v)] = "lapsed"
      /\ \A x \in Docs \ {Seat(v)} : db'[x] = db[x]
  BY <1>1 DEF Inv, Good, Rows
<1>3. /\ db'[Entitlement] = db[Entitlement] /\ db'[List] = db[List] /\ db'[Group] = db[Group]
      /\ db'[Channel] = db[Channel]
      /\ \A u \in Users : db'[Member(u)] = db[Member(u)]
      /\ \A u \in Users \ {v} : db'[Seat(u)] = db[Seat(u)]
  BY <1>2
<1>4. \A u \in Users : Held(db', u) <=> Held(db, u)
  BY <1>1, <1>2, <1>3 DEF Held
<1>5. Rows(db) /\ Roster(db) /\ Listed(db)
  BY DEF Inv, Good
<1>6. Rows(db')
  BY <1>2, <1>3, <1>5 DEF Rows
<1>7. \A x \in db[Group].members : UserOf[x] \in Users
  BY <1>5, TextDevices DEF Rows, GroupRows
<1>8. Roster(db')
  BY <1>3, <1>4, <1>5, <1>7 DEF Roster
<1>9. Listed(db')
  BY <1>1, <1>3, <1>4, <1>5, TextOwner DEF Listed
<1>10. InUse(db') \subseteq InUse(db)
  BY <1>1, <1>2, <1>3 DEF InUse
<1>11. Rely(db, db', {})
  BY <1>1, <1>2, <1>3, <1>4, <1>10 DEF Rely
<1>12. Fitted'
  <2>1. InUse(db) \subseteq Users /\ db[Entitlement] \in Nat
    BY <1>5, TextCaps DEF InUse, Rows, Caps0
  <2>2. /\ Cardinality(InUse(db')) <= Cardinality(InUse(db))
        /\ Cardinality(InUse(db')) \in Nat /\ Cardinality(InUse(db)) \in Nat
    BY <2>1, <1>10, CardMono
  <2> QED
    BY <2>1, <2>2, <1>1, <1>3 DEF Inv, Fitted
<1>13. Struck'
  <2>1. db[List].seats \subseteq Users
    BY <1>5 DEF Rows
  <2> QED
    BY <2>1, <1>1, <1>3, <1>4 DEF Inv, Struck
<1>14. Orphans' /\ NoPlaintext'
  BY <1>1, <1>3, <1>4 DEF Inv, Orphans, NoPlaintext
<1>15. ASSUME NEW r \in Requests PROVE Known(db', posts, overran, req[r])
  <2>1. Known(db, posts, overran, req[r])
    BY DEF Inv
  <2> QED
    BY <2>1, <1>5, <1>6, <1>11, KnownStable
<1> QED
  BY <1>1, <1>6, <1>8, <1>9, <1>12, <1>13, <1>14, <1>15 DEF Inv, Good

\* A channel starts open and empty
LEMMA InitInv == Init => Inv
<1> SUFFICES ASSUME Init PROVE Inv
  OBVIOUS
<1> USE DocFacts, EmptyFacts
<1>1. /\ db = [d \in Docs |-> db[d]]
      /\ db[Entitlement] = FirstCap /\ db[List] = NoList /\ db[Group] = NoGroup /\ db[Channel] = "open"
      /\ \A u \in Users : db[Seat(u)] = "none" /\ db[Member(u)] = TRUE
  BY DEF Init
<1>2. Rows(db)
  <2>1. NoList \in [version : 0..MaxVersion, seats : SUBSET Users, signer : SUBSET Devices]
    BY TextBounds DEF NoList
  <2>2. NoGroup \in GroupRows
    BY TextBounds DEF NoGroup, GroupRows
  <2>3. FirstCap \in Caps0
    BY TextCaps DEF Caps0
  <2> QED
    BY <2>1, <2>2, <2>3, <1>1 DEF Rows
<1>3. Roster(db) /\ Listed(db)
  BY <1>1 DEF Roster, Listed, NoGroup, NoList, Open, Held
<1>4. Fitted
  <2>1. InUse(db) = {}
    BY <1>1 DEF InUse
  <2>2. FirstCap \in Nat /\ Cardinality({}) = 0
    BY TextCaps, FS_EmptySet
  <2> QED
    BY <2>1, <2>2, <1>1 DEF Fitted
<1>5. Struck /\ Orphans /\ NoPlaintext
  BY <1>1 DEF Init, Struck, Orphans, NoPlaintext, Held
<1>6. /\ req = [r \in Requests |-> req[r]] /\ \A r \in Requests : Known(db, posts, overran, req[r])
  BY IdleFacts DEF Init
<1> QED
  BY <1>2, <1>3, <1>4, <1>5, <1>6 DEF Init, Inv, Good

\* Every step keeps the invariant
LEMMA NextInv == Inv /\ [Next]_vars => Inv'
<1> SUFFICES ASSUME Inv, [Next]_vars PROVE Inv'
  OBVIOUS
<1>1. CASE UNCHANGED vars
  BY <1>1 DEF vars, Inv, Fitted, Struck, Orphans, NoPlaintext
<1>2. ASSUME NEW r \in Requests,
             \/ StartGrant(r) \/ StartList(r) \/ StartCreate(r) \/ StartCommit(r) \/ StartRemove(r)
             \/ StartJoin(r) \/ StartRelease(r) \/ StartDelete(r) \/ StartPost(r)
      PROVE  Inv'
  BY <1>2, StartInv
<1>3. ASSUME NEW r \in Requests, Begin(r) \/ Refuse(r) \/ Commit(r) \/ Fail(r)
      PROVE  Inv'
  BY <1>3, BeginInv, RefuseInv, CommitInv, FailInv
<1>4. ASSUME NEW r \in Requests, SoftDelete(r) \/ Insert(r) \/ Drop(r) \/ Post(r) \/ Hold(r)
      PROVE  Inv'
  BY <1>4, SoftDeleteInv, InsertInv, DropInv, PostInv, HoldInv
<1>5. ASSUME NEW u \in Users, Lapse(u) PROVE Inv'
  BY <1>5, LapseInv
<1> QED
  BY <1>1, <1>2, <1>3, <1>4, <1>5 DEF Next

-----------------------------------------------------------------------------
(* Theorems                                                                *)

\* The documents, the requests and what the staged transactions know of their snapshots stay
\* consistent through every interleaving of requests, failures, conflicts and cooldowns
THEOREM TextInvariant == Spec => []Inv
  BY InitInv, NextInv, PTL DEF Spec

\* The documents hold what the drivers store, within their bounds
THEOREM TextTypes == Spec => []TypeOK
<1>1. Inv => TypeOK
  <2> SUFFICES ASSUME Inv PROVE TypeOK
    OBVIOUS
  <2>1. Rows(db) /\ DOMAIN db = Docs
    BY DEF Inv, Good, Rows
  <2>2. \A r \in Requests : DOMAIN req[r].plan \subseteq Docs
    BY DEF Inv, Known, Shape
  <2>3. struck \subseteq Users
    BY <2>1 DEF Inv, Struck, Rows
  <2> QED
    BY <2>1, <2>2, <2>3 DEF Inv, Rows, TypeOK
<1> QED
  BY <1>1, TextInvariant, PTL

\* However many requests race, every device that can decrypt is of a seated and listed user,
\* or of one whose removal the group still owes (text_commit_attempt, release_attempt)
THEOREM TextRosterSeated == Spec => []RosterSeated
<1>1. Inv => RosterSeated
  BY DEF Inv, Good, Roster, RosterSeated, Active, Held
<1> QED
  BY <1>1, TextInvariant, PTL

\* A pending removal always names a user with a device in the group (plan_mls_text_commit)
THEOREM TextPendingRemovable == Spec => []PendingRemovable
<1>1. Inv => PendingRemovable
  BY DEF Inv, Good, Listed, PendingRemovable
<1> QED
  BY <1>1, TextInvariant, PTL

\* An open group is bound to the newest list (create_text_group_attempt, seat_list_write_attempt)
THEOREM TextBoundToList == Spec => []BoundToList
<1>1. Inv => BoundToList
  BY DEF Inv, Good, Listed, BoundToList
<1> QED
  BY <1>1, TextInvariant, PTL

\* Seats in use fit the cap, whatever claims and grants interleave (upsert_entitlement_attempt,
\* plan_seat_list_write), unless a request reactivated a seat that lapsed while it ran
THEOREM TextWithinCap == Spec => []WithinCap
<1>1. Inv => WithinCap
  BY DEF Inv, Fitted, InUse, WithinCap
<1> QED
  BY <1>1, TextInvariant, PTL

\* Somebody the server released is not seated by a list that went on naming them
\* (plan_seat_list_write, release_attempt)
THEOREM TextNotReseated == Spec => []NotReseated
<1>1. Inv => NotReseated
  BY DEF Inv, Struck, NotReseated, Active, Held
<1> QED
  BY <1>1, TextInvariant, PTL

\* A seat without a membership is one whose removal is still to release it, or died
\* (remove_with_outcome)
THEOREM TextSeatedAreMembers == Spec => []SeatedAreMembers
<1>1. Inv => SeatedAreMembers
  BY DEF Inv, Orphans, Retakes, SeatedAreMembers, Active, Held
<1> QED
  BY <1>1, TextInvariant, PTL

\* No plaintext message is kept in a protected channel (hold_channel_unprotected, protect)
THEOREM TextNoPlaintext == Spec => []NoPlaintext
<1>1. Inv => NoPlaintext
  BY DEF Inv
<1> QED
  BY <1>1, TextInvariant, PTL
=============================================================================
