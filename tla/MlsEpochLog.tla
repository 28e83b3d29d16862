---------------------------- MODULE MlsEpochLog ----------------------------
(***************************************************************************)
(* What the delivery service promises of a call's MLS groups, as if every  *)
(* commit were one atomic step: a group is a log of winning commits, each  *)
(* made against the roster the ones before it left behind.  `head` is the  *)
(* number of winning commits, `roster` the member devices after them.      *)
(*                                                                         *)
(* A request that read the group open may still win the next epoch after   *)
(* the group was closed: one commit, never two.  The promise of a group    *)
(* ends when the sweep has chosen it (`expired`).                          *)
(***************************************************************************)
EXTENDS Naturals, FiniteSets

CONSTANTS Devices, UserOf, Groups, Changes, MaxMembers

VARIABLES state, head, roster, late
vars == <<state, head, roster, late>>

\* What a commit has to satisfy of the roster it changes: the committer is a member,
\* no added user has a device in it, and the result is within the ceiling
Legal(members, by, change) ==
    /\ by \in members
    /\ \A d \in change.add, m \in members : UserOf[d] # UserOf[m]
    /\ Cardinality(members) + Cardinality(change.add)
           <= MaxMembers + Cardinality(change.rem \cap members)

AfterChange(members, change) == (members \ change.rem) \cup change.add

Init ==
    /\ state = [g \in Groups |-> "none"]
    /\ head = [g \in Groups |-> 0]
    /\ roster = [g \in Groups |-> {}]
    /\ late = [g \in Groups |-> FALSE]

Open(g) ==
    /\ state[g] = "none"
    /\ \A h \in Groups : state[h] # "open"
    /\ \E d \in Devices : roster' = [roster EXCEPT ![g] = {d}]
    /\ state' = [state EXCEPT ![g] = "open"]
    /\ UNCHANGED <<head, late>>

Win(g) ==
    /\ \/ state[g] = "open" /\ UNCHANGED late
       \/ state[g] = "closed" /\ ~late[g] /\ late' = [late EXCEPT ![g] = TRUE]
    /\ \E by \in Devices, change \in Changes :
          /\ Legal(roster[g], by, change)
          /\ roster' = [roster EXCEPT ![g] = AfterChange(@, change)]
    /\ head' = [head EXCEPT ![g] = @ + 1]
    /\ UNCHANGED state

Close(g) ==
    /\ state[g] = "open"
    /\ state' = [state EXCEPT ![g] = "closed"]
    /\ \E b \in BOOLEAN : late' = [late EXCEPT ![g] = b]
    /\ UNCHANGED <<head, roster>>

\* The sweep takes any number of groups at once
Expire(gs) ==
    /\ state' = [g \in Groups |-> IF g \in gs THEN "expired" ELSE state[g]]
    /\ head' = [g \in Groups |-> IF g \in gs THEN 0 ELSE head[g]]
    /\ roster' = [g \in Groups |-> IF g \in gs THEN {} ELSE roster[g]]
    /\ late' = [g \in Groups |-> IF g \in gs THEN FALSE ELSE late[g]]

Next ==
    \/ \E g \in Groups : Open(g) \/ Win(g) \/ Close(g)
    \/ \E gs \in SUBSET Groups : Expire(gs)

Spec == Init /\ [][Next]_vars
=============================================================================
