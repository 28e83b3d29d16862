------------------------- MODULE ProtFoundingProofs -------------------------
(***************************************************************************)
(* Proofs about ProtFounding for any number of orders, tiers and syncs     *)
(* and any amounts that do not fall from tier to tier.                     *)
(***************************************************************************)
EXTENDS ProtFounding, FiniteSetTheorems, TLAPS

-----------------------------------------------------------------------------
(* Sums over a finite set: a sum does not depend on the order in which the elements are taken. *)
(* Induction over the set is the choice of a smallest counterexample                           *)

Some(s) == CHOOSE x \in s : TRUE

\* g adds the weights of every subset of S, one element after the other: the function that
\* MapThenSumSet computes with
Adds(a, S, g) ==
    g = [s \in SUBSET S |-> IF s = {} THEN 0 ELSE a[Some(s)] + g[s \ {Some(s)}]]

Total(a, S) == (CHOOSE g : Adds(a, S, g))[S]

\* Among the subsets of a finite set that have a property, one is smallest
LEMMA SmallestSubset ==
    ASSUME NEW S, IsFiniteSet(S), NEW T, T \subseteq SUBSET S, T # {}
    PROVE  \E s \in T : \A t \in T : t \subseteq s => t = s
<1>1. T \subseteq FiniteSubsetsOf(S)
  BY FS_Subset DEF FiniteSubsetsOf
<1>2. \E s \in T : \A t \in T : <<t, s>> \notin StrictSubsetOrdering(S)
  BY <1>1, FS_StrictSubsetOrderingWellFounded, WFMin
<1> QED
  BY <1>2 DEF StrictSubsetOrdering

LEMMA SomeElement ==
    ASSUME NEW s, s # {}
    PROVE  Some(s) \in s
BY DEF Some

LEMMA AddsAt ==
    ASSUME NEW a, NEW S, NEW g, Adds(a, S, g), NEW s \in SUBSET S
    PROVE  /\ s = {} => g[s] = 0
           /\ s # {} => g[s] = a[Some(s)] + g[s \ {Some(s)}]
BY DEF Adds

\* Two such functions agree wherever both are defined and their weights agree
LEMMA AddsAgree ==
    ASSUME NEW a, NEW b, NEW S, NEW V \in SUBSET S, IsFiniteSet(V), NEW g, NEW k,
           Adds(a, S, g), Adds(b, V, k), \A x \in V : a[x] = b[x]
    PROVE  g[V] = k[V]
<1>0. PICK bad : bad = {t \in SUBSET V : g[t] # k[t]}
  OBVIOUS
<1>1. SUFFICES ASSUME bad # {} PROVE FALSE
  BY <1>0, V \in SUBSET V
<1>2. PICK t \in bad : \A u \in bad : u \subseteq t => u = t
  <2>1. bad \subseteq SUBSET V
    BY <1>0
  <2> QED
    BY ONLY <1>1, <2>1, IsFiniteSet(V), SmallestSubset
<1>3. t \in SUBSET V /\ t \in SUBSET S /\ g[t] # k[t]
  BY <1>0
<1>4. t # {}
  <2>1. t = {} => g[t] = 0
    BY ONLY <1>3, Adds(a, S, g), AddsAt
  <2>2. t = {} => k[t] = 0
    BY ONLY <1>3, Adds(b, V, k), AddsAt
  <2> QED
    BY <1>3, <2>1, <2>2
<1>5. Some(t) \in t
  BY <1>4, SomeElement
<1>6. t \ {Some(t)} \in SUBSET V /\ t \ {Some(t)} \subseteq t /\ t \ {Some(t)} # t
  BY <1>3, <1>5
<1>7. g[t \ {Some(t)}] = k[t \ {Some(t)}]
  BY <1>0, <1>2, <1>6
<1>8. a[Some(t)] = b[Some(t)]
  BY <1>3, <1>5
<1>9. g[t] = a[Some(t)] + g[t \ {Some(t)}]
  BY <1>3, <1>4, AddsAt
<1>10. k[t] = b[Some(t)] + k[t \ {Some(t)}]
  BY ONLY <1>3, <1>4, Adds(b, V, k), AddsAt
<1> QED
  BY <1>3, <1>7, <1>8, <1>9, <1>10

\* There is one for every finite set
LEMMA AddsExists ==
    ASSUME NEW a, NEW S, IsFiniteSet(S)
    PROVE  \E g : Adds(a, S, g)
<1>0. PICK bad : bad = {t \in SUBSET S : ~\E g : Adds(a, t, g)}
  OBVIOUS
<1>1. SUFFICES ASSUME bad # {} PROVE FALSE
  BY <1>0
<1>2. PICK t \in bad : \A u \in bad : u \subseteq t => u = t
  <2>1. bad \subseteq SUBSET S
    BY <1>0
  <2> QED
    BY ONLY <1>1, <2>1, IsFiniteSet(S), SmallestSubset
<1>3. t \in SUBSET S /\ IsFiniteSet(t) /\ ~\E g : Adds(a, t, g)
  BY <1>0, FS_Subset
<1>4. \A u \in SUBSET t : u # t => Adds(a, u, CHOOSE g : Adds(a, u, g)) /\ IsFiniteSet(u)
  <2> SUFFICES ASSUME NEW u \in SUBSET t, u # t
               PROVE  Adds(a, u, CHOOSE g : Adds(a, u, g)) /\ IsFiniteSet(u)
    OBVIOUS
  <2>1. \E g : Adds(a, u, g)
    BY <1>0, <1>2, <1>3
  <2>2. IsFiniteSet(u)
    BY <1>3, FS_Subset
  <2> QED
    BY <2>1, <2>2
<1> DEFINE G(u) == CHOOSE g : Adds(a, u, g)
           h == [s \in SUBSET t |-> IF s = {} THEN 0
                                    ELSE a[Some(s)] + G(s \ {Some(s)})[s \ {Some(s)}]]
<1>5. ASSUME NEW u \in SUBSET t, u # t
      PROVE  h[u] = G(u)[u]
  <2>1. Adds(a, u, G(u)) /\ IsFiniteSet(u)
    BY <1>4, <1>5
  <2>2. CASE u = {}
    BY <2>1, <2>2, AddsAt
  <2>3. CASE u # {}
    <3> DEFINE v == u \ {Some(u)}
    <3>1. Some(u) \in u
      BY <2>3, SomeElement
    <3>2. v \in SUBSET t /\ v # t /\ v \in SUBSET u
      BY <3>1
    <3>3. Adds(a, v, G(v)) /\ IsFiniteSet(v)
      BY <1>4, <3>2
    <3>4. PICK g, k : g = G(u) /\ k = G(v)
      OBVIOUS
    <3>5. Adds(a, u, g) /\ Adds(a, v, k)
      BY <2>1, <3>3, <3>4
    <3>6. g[v] = k[v]
      BY ONLY <3>2, <3>3, <3>5, AddsAgree
    <3>7. G(u)[u] = a[Some(u)] + G(u)[v]
      BY <2>1, <2>3, AddsAt
    <3>8. h[u] = a[Some(u)] + G(v)[v]
      BY <2>3
    <3> QED
      BY <3>4, <3>6, <3>7, <3>8
  <2> QED
    BY <2>2, <2>3
<1>6. ASSUME NEW s \in SUBSET t
      PROVE  h[s] = IF s = {} THEN 0 ELSE a[Some(s)] + h[s \ {Some(s)}]
  <2>1. CASE s = {}
    BY <2>1
  <2>2. CASE s # {}
    <3>1. Some(s) \in s
      BY <2>2, SomeElement
    <3>2. s \ {Some(s)} \in SUBSET t /\ s \ {Some(s)} # t
      BY <3>1
    <3>3. h[s \ {Some(s)}] = G(s \ {Some(s)})[s \ {Some(s)}]
      BY <1>5, <3>2
    <3>4. h[s] = a[Some(s)] + G(s \ {Some(s)})[s \ {Some(s)}]
      BY <2>2
    <3> QED
      BY <2>2, <3>3, <3>4
  <2> QED
    BY <2>1, <2>2
<1>7. h = [s \in SUBSET t |-> h[s]]
  OBVIOUS
<1> HIDE DEF h
<1>8. h = [s \in SUBSET t |-> IF s = {} THEN 0 ELSE a[Some(s)] + h[s \ {Some(s)}]]
  BY <1>6, <1>7
<1> QED
  BY <1>3, <1>8 DEF Adds

LEMMA TotalAdds ==
    ASSUME NEW a, NEW S, IsFiniteSet(S), NEW g, Adds(a, S, g)
    PROVE  Total(a, S) = g[S]
<1>1. Adds(a, S, CHOOSE k : Adds(a, S, k))
  OBVIOUS
<1> QED
  BY <1>1, AddsAgree DEF Total

LEMMA TotalEmpty ==
    ASSUME NEW a
    PROVE  Total(a, {}) = 0
<1>1. PICK g : Adds(a, {}, g)
  BY AddsExists, FS_EmptySet
<1>2. g[{}] = 0
  BY <1>1, AddsAt
<1> QED
  BY <1>1, <1>2, TotalAdds, FS_EmptySet

\* A total of integers is an integer, and any element may be the one taken out first
LEMMA TotalTakes ==
    ASSUME NEW a, NEW S, IsFiniteSet(S), \A x \in S : a[x] \in Int
    PROVE  /\ Total(a, S) \in Int
           /\ \A x \in S : Total(a, S) = a[x] + Total(a, S \ {x})
<1>1. PICK g : Adds(a, S, g)
  BY AddsExists
<1>2. \A s \in SUBSET S : s # {} => Some(s) \in s /\ s \ {Some(s)} \in SUBSET S /\ s \ {Some(s)} # s
  BY SomeElement
<1>3. \A s \in SUBSET S : g[s] = Total(a, s)
  <2> SUFFICES ASSUME NEW s \in SUBSET S PROVE g[s] = Total(a, s)
    OBVIOUS
  <2>1. IsFiniteSet(s)
    BY FS_Subset
  <2>2. PICK k : Adds(a, s, k)
    BY <2>1, AddsExists
  <2>3. g[s] = k[s]
    BY ONLY <1>1, <2>1, <2>2, s \in SUBSET S, AddsAgree
  <2> QED
    BY <2>1, <2>2, <2>3, TotalAdds
<1>4. \A s \in SUBSET S : g[s] \in Int
  <2>0. PICK bad : bad = {s \in SUBSET S : g[s] \notin Int}
    OBVIOUS
  <2>1. SUFFICES ASSUME bad # {} PROVE FALSE
    BY <2>0
  <2>2. PICK t \in bad : \A u \in bad : u \subseteq t => u = t
    <3>1. bad \subseteq SUBSET S
      BY <2>0
    <3> QED
      BY ONLY <2>1, <3>1, IsFiniteSet(S), SmallestSubset
  <2>3. t \in SUBSET S /\ g[t] \notin Int
    BY <2>0
  <2>4. t # {}
    BY ONLY <1>1, <2>3, AddsAt, 0 \in Int
  <2>5. g[t] = a[Some(t)] + g[t \ {Some(t)}]
    BY <1>1, <2>3, <2>4, AddsAt
  <2>6. g[t \ {Some(t)}] \in Int
    BY <1>2, <2>0, <2>2, <2>3, <2>4
  <2>7. a[Some(t)] \in Int
    BY <1>2, <2>3, <2>4
  <2> QED
    BY <2>3, <2>5, <2>6, <2>7
<1>5. \A s \in SUBSET S : \A x \in s : g[s] = a[x] + g[s \ {x}]
  <2>0. PICK bad : bad = {s \in SUBSET S : ~\A x \in s : g[s] = a[x] + g[s \ {x}]}
    OBVIOUS
  <2>1. SUFFICES ASSUME bad # {} PROVE FALSE
    BY <2>0
  <2>2. PICK t \in bad : \A u \in bad : u \subseteq t => u = t
    <3>1. bad \subseteq SUBSET S
      BY <2>0
    <3> QED
      BY ONLY <2>1, <3>1, IsFiniteSet(S), SmallestSubset
  <2>a. t \in SUBSET S
    BY <2>0
  <2>3. PICK x \in t : g[t] # a[x] + g[t \ {x}]
    BY <2>0
  <2>4. PICK p : p = Some(t)
    OBVIOUS
  <2>5. p \in t /\ g[t] = a[p] + g[t \ {p}]
    BY <1>1, <1>2, <2>a, <2>3, <2>4, AddsAt
  <2>6. p # x
    BY <2>3, <2>5
  <2>7. \A u \in SUBSET S : u \subseteq t /\ u # t => \A y \in u : g[u] = a[y] + g[u \ {y}]
    BY <2>0, <2>2
  <2>8. /\ t \ {p} \in SUBSET S /\ t \ {p} # t /\ x \in t \ {p}
        /\ t \ {x} \in SUBSET S /\ t \ {x} # t /\ p \in t \ {x}
        /\ (t \ {p}) \ {x} = (t \ {x}) \ {p} /\ (t \ {p}) \ {x} \in SUBSET S
    BY <2>a, <2>5, <2>6
  <2>9. g[t \ {p}] = a[x] + g[(t \ {p}) \ {x}]
    BY <2>7, <2>8
  <2>10. g[t \ {x}] = a[p] + g[(t \ {x}) \ {p}]
    BY <2>7, <2>8
  <2>11. a[x] \in Int /\ a[p] \in Int /\ g[(t \ {p}) \ {x}] \in Int
    BY <1>4, <2>a, <2>5, <2>8
  <2>12. PICK ax, ap, r : ax = a[x] /\ ap = a[p] /\ r = g[(t \ {p}) \ {x}]
    OBVIOUS
  <2>13. g[t] = ap + (ax + r) /\ g[t \ {x}] = ap + r
    BY <2>5, <2>8, <2>9, <2>10, <2>12
  <2>14. ax \in Int /\ ap \in Int /\ r \in Int /\ g[t] # ax + g[t \ {x}]
    BY <2>3, <2>11, <2>12
  <2> QED
    BY <2>13, <2>14
<1> QED
  BY <1>3, <1>4, <1>5

\* One element more adds its own weight
LEMMA TotalAdd ==
    ASSUME NEW a, NEW S, IsFiniteSet(S), NEW x, x \notin S, \A y \in S \cup {x} : a[y] \in Int
    PROVE  Total(a, S \cup {x}) = Total(a, S) + a[x] /\ Total(a, S) \in Int
<1>1. IsFiniteSet(S \cup {x}) /\ x \in S \cup {x} /\ (S \cup {x}) \ {x} = S
  BY FS_AddElement
<1>2. Total(a, S \cup {x}) = a[x] + Total(a, S)
  BY <1>1, TotalTakes
<1>3. Total(a, S) \in Int
  BY TotalTakes
<1> QED
  BY <1>2, <1>3

\* With weights that are natural numbers a larger set has a larger total
LEMMA TotalGrows ==
    ASSUME NEW a, NEW S, IsFiniteSet(S), NEW V \in SUBSET S, \A x \in S : a[x] \in Nat
    PROVE  Total(a, V) \in Nat /\ Total(a, S) \in Nat /\ Total(a, V) <= Total(a, S)
<1>1. \A t \in SUBSET S : Total(a, t) \in Int /\ \A x \in t : Total(a, t) = a[x] + Total(a, t \ {x})
  <2> SUFFICES ASSUME NEW t \in SUBSET S
               PROVE  Total(a, t) \in Int /\ \A x \in t : Total(a, t) = a[x] + Total(a, t \ {x})
    OBVIOUS
  <2>1. IsFiniteSet(t) /\ \A x \in t : a[x] \in Int
    BY FS_Subset
  <2> QED
    BY ONLY <2>1, TotalTakes
<1>2. ASSUME NEW U \in SUBSET S, NEW T \in SUBSET S, U \subseteq T
      PROVE  Total(a, U) <= Total(a, T)
  <2>0. PICK bad : bad = {t \in SUBSET S : U \subseteq t /\ ~(Total(a, U) <= Total(a, t))}
    OBVIOUS
  <2>1. SUFFICES ASSUME bad # {} PROVE FALSE
    BY <1>2, <2>0
  <2>2. PICK t \in bad : \A u \in bad : u \subseteq t => u = t
    <3>1. bad \subseteq SUBSET S
      BY <2>0
    <3> QED
      BY ONLY <2>1, <3>1, IsFiniteSet(S), SmallestSubset
  <2>3. t \in SUBSET S /\ U \subseteq t /\ ~(Total(a, U) <= Total(a, t))
    BY <2>0
  <2>4. t # U
    BY <1>1, <2>3
  <2>5. PICK x \in t : x \notin U
    BY <2>3, <2>4
  <2>6. t \ {x} \in SUBSET S /\ U \subseteq t \ {x} /\ t \ {x} \subseteq t /\ t \ {x} # t
    BY <2>3, <2>5
  <2>7. Total(a, U) <= Total(a, t \ {x})
    BY <2>0, <2>2, <2>6
  <2>8. /\ Total(a, t) = a[x] + Total(a, t \ {x}) /\ a[x] \in Nat
        /\ Total(a, t \ {x}) \in Int /\ Total(a, U) \in Int
    BY <1>1, <2>3, <2>5, <2>6
  <2> QED
    BY <2>3, <2>7, <2>8
<1>3. Total(a, {}) <= Total(a, V) /\ Total(a, V) <= Total(a, S) /\ Total(a, {}) <= Total(a, S)
  BY <1>2
<1>4. Total(a, V) \in Int /\ Total(a, S) \in Int
  BY <1>1
<1> QED
  BY <1>3, <1>4, TotalEmpty

-----------------------------------------------------------------------------

\* Handlers: buying, reversing, and of those the ones that finish a release
Buying == {"judge", "apply", "fulfil"}
Undoing == {"plan", "downgrade", "revoke", "mark"}
Passed == {"check", "upgrades", "delete", "record", "unmark"}
Releasing == {"mark", "release"} \cup Passed
Reversing == Undoing \cup Releasing \cup {"claw", "commit", "refunded"}
HandlerPcs == {"idle"} \cup Buying \cup Reversing
Applied == {"Fulfilled", "Refunded"}

OrderRow == [state : {"None", "Pending", "Expired", "Paid", "Fulfilled", "Refunded", "Voided"},
             from : Nat, to : Tiers, pending : BOOLEAN, reversed : BOOLEAN, home : Orders \cup {0}]
HandlerRow == [pc : HandlerPcs, why : {"Refund", "DisputeLost"}, need : Nat, releasing : BOOLEAN,
               stays : BOOLEAN, others : SUBSET Orders]

Shapes ==
    /\ order \in [Orders -> OrderRow]
    /\ handler \in [Orders -> HandlerRow]
    /\ member \in MemberRow \cup {None}
    /\ marked \subseteq Orders
    /\ granted \in [Orders -> Nat] /\ claws \in [Orders -> ClawRow \cup {None}]
    /\ balance \in Nat /\ sync \in [Syncers -> Nat]
    /\ replaced \subseteq Orders /\ released \subseteq Orders /\ cut \subseteq Orders /\ skipped \subseteq Orders

\* An order, its handler and its clawback row
OrderInv(o) ==
    LET x == order[o] h == handler[o] IN
    /\ x.from = x.to - 1 /\ (x.pending => x.reversed)
    /\ x.from = 0 => x.home \in {0, o}
    /\ h.pc \in Buying => x.state = "Paid"
    /\ h.pc \in Reversing => x.state \in Applied /\ x.reversed
    /\ h.pc \in Undoing => x.state = "Fulfilled"
    /\ h.pc \in Releasing \/ h.releasing => x.from = 0
    /\ h.releasing => h.pc \in Reversing
    /\ o \in marked => x.from = 0 /\ x.state \in Applied /\ x.reversed
    /\ claws[o] # None => x.state \in Applied /\ claws[o].amount <= claws[o].requested
    /\ o \in skipped \cup released => x.state \in Applied
OthersInv(o) == \A u \in handler[o].others : order[u].from # 0 /\ order[u].state # "None"

\* The row: it was bought by its first order, and upgraded by the others
RowInv ==
    member # None =>
        /\ member.orders # <<>> /\ (member.active <=> member.reason = "None")
        /\ order[Base].from = 0 /\ Base \notin replaced \cup released
        /\ \A i \in 2..Len(member.orders) : order[member.orders[i]].from # 0
        /\ \A i, j \in 1..Len(member.orders) : member.orders[i] = member.orders[j] => i = j
ListedInv(o) ==
    /\ Listed(o) => order[o].state \in Applied \cup {"Paid"} /\ order[o].home = Base
    /\ Listed(o) /\ Active => claws[o] = None /\ (order[o].from = 0 => order[o].state # "Refunded")
    /\ handler[o].pc = "apply" => ~Listed(o)
    /\ /\ Listed(o)
       /\ \/ handler[o].pc \in {"claw", "commit"}
          \/ handler[o].pc \in Passed \cup {"refunded"} /\ order[o].from = 0
       => ~Active

\* What is posted
Incumbent(b) == member # None /\ Base = b
PostedInv(b) ==
    /\ Posted(b) >= 0
    /\ ~Incumbent(b) /\ b \notin cut => Posted(b) = 0
    /\ Incumbent(b) /\ (claws[b] # None \/ handler[b].pc \in Passed) => Posted(b) = 0
    /\ b \in released => Posted(b) = 0 /\ Shortfall(b) = 0

\* A read that is current still tells what is there
SyncInv(s) == Current(s) => Active /\ sync[s] = Target - Posted(Base) /\ sync[s] > 0
ClawInv(o) ==
    Current(<<o, "claw">>) =>
        /\ handler[o].pc = "commit" /\ member # None /\ claws[o] = None
        /\ handler[o].need = Posted(Base) - Target
ReadInv(o) ==
    Current(<<o, "row">>) =>
        /\ handler[o].pc \in {"downgrade", "claw", "commit"} \cup Passed
        /\ Listed(o)
        /\ IF handler[o].pc = "downgrade" THEN Undo(o) = "downgrade" ELSE order[o].from = 0
        /\ handler[o].pc \in {"claw", "commit"} => handler[o].releasing
        /\ handler[o].pc \in {"upgrades", "delete"} => Shortfall(o) = 0

\* Who will claw back what a row has beyond its target
Blame(o) ==
    /\ order[o].state = "Fulfilled" /\ order[o].reversed /\ order[o].home = Base /\ claws[o] = None
    /\ ~(Listed(o) /\ Active)
    /\ handler[o].pc \notin Passed \cup {"refunded"}
OverInv ==
    member # None /\ Posted(Base) > Target =>
        (\E o \in Orders : Blame(o)) \/ (\E o \in skipped : order[o].home = Base) \/ Base \in cut

Inv ==
    /\ Shapes /\ RowInv /\ OverInv
    /\ \A o \in Orders : /\ OrderInv(o) /\ OthersInv(o) /\ ListedInv(o)
                         /\ PostedInv(o) /\ ClawInv(o) /\ ReadInv(o)
    /\ \A s \in Syncers : SyncInv(s)
-----------------------------------------------------------------------------
(* What is posted                                                          *)

Asked(c, S) == MapThenSumSet(LAMBDA o : c[o].requested, S)
Missed(c, S) == MapThenSumSet(LAMBDA o : c[o].requested - c[o].amount, S)
OfBase(c, b) == {o \in Orders : c[o] # None /\ c[o].base = b}

LEMMA AskedIsTotal ==
    ASSUME NEW c, NEW S, IsFiniteSet(S), NEW a, \A o \in S : a[o] = c[o].requested
    PROVE  Asked(c, S) = Total(a, S)
<1> DEFINE Taken(g) == [s \in SUBSET S |->
                          IF s = {} THEN 0
                          ELSE c[CHOOSE x \in s : TRUE].requested + g[s \ {CHOOSE x \in s : TRUE}]]
<1>1. PICK g : Adds(a, S, g)
  BY AddsExists
<1>2. ASSUME NEW k, k = Taken(k) PROVE Adds(a, S, k)
  <2>1. \A s \in SUBSET S : s # {} => (CHOOSE x \in s : TRUE) \in S
    OBVIOUS
  <2> QED
    BY <1>2, <2>1 DEF Adds, Some
<1>3. g = Taken(g)
  <2>1. \A s \in SUBSET S : s # {} => (CHOOSE x \in s : TRUE) \in S
    OBVIOUS
  <2> QED
    BY <1>1, <2>1 DEF Adds, Some
<1>4. PICK k : k = CHOOSE f : f = Taken(f)
  OBVIOUS
<1>5. k = Taken(k)
  <2> HIDE DEF Taken
  <2> QED
    BY <1>3, <1>4
<1>6. Asked(c, S) = k[S]
  BY <1>4 DEF Asked, MapThenSumSet, MapThenFoldSet
<1> QED
  BY <1>2, <1>5, <1>6, TotalAdds

LEMMA MissedIsTotal ==
    ASSUME NEW c, NEW S, IsFiniteSet(S), NEW a, \A o \in S : a[o] = c[o].requested - c[o].amount
    PROVE  Missed(c, S) = Total(a, S)
<1> DEFINE Taken(g) == [s \in SUBSET S |->
                          IF s = {} THEN 0
                          ELSE (c[CHOOSE x \in s : TRUE].requested - c[CHOOSE x \in s : TRUE].amount)
                               + g[s \ {CHOOSE x \in s : TRUE}]]
<1>1. PICK g : Adds(a, S, g)
  BY AddsExists
<1>2. ASSUME NEW k, k = Taken(k) PROVE Adds(a, S, k)
  <2>1. \A s \in SUBSET S : s # {} => (CHOOSE x \in s : TRUE) \in S
    OBVIOUS
  <2> QED
    BY <1>2, <2>1 DEF Adds, Some
<1>3. g = Taken(g)
  <2>1. \A s \in SUBSET S : s # {} => (CHOOSE x \in s : TRUE) \in S
    OBVIOUS
  <2> QED
    BY <1>1, <2>1 DEF Adds, Some
<1>4. PICK k : k = CHOOSE f : f = Taken(f)
  OBVIOUS
<1>5. k = Taken(k)
  <2> HIDE DEF Taken
  <2> QED
    BY <1>3, <1>4
<1>6. Missed(c, S) = k[S]
  BY <1>4 DEF Missed, MapThenSumSet, MapThenFoldSet
<1>7. Adds(a, S, k)
  <2> HIDE DEF Taken
  <2> QED
    BY <1>2, <1>5
<1> QED
  BY <1>6, <1>7, TotalAdds

\* One clawback row more
LEMMA OneMore ==
    ASSUME NEW c \in [Orders -> ClawRow \cup {None}], NEW d \in [Orders -> ClawRow \cup {None}],
           NEW o \in Orders, c[o] = None, d[o] # None, \A p \in Orders : p # o => d[p] = c[p], NEW b
    PROVE  /\ d[o].base = b => /\ Asked(d, OfBase(d, b)) = Asked(c, OfBase(c, b)) + d[o].requested
                               /\ Missed(d, OfBase(d, b)) = Missed(c, OfBase(c, b)) + (d[o].requested - d[o].amount)
           /\ d[o].base # b => /\ Asked(d, OfBase(d, b)) = Asked(c, OfBase(c, b))
                               /\ Missed(d, OfBase(d, b)) = Missed(c, OfBase(c, b))
           /\ Asked(c, OfBase(c, b)) \in Int /\ Missed(c, OfBase(c, b)) \in Int
<1>1. PICK S : S = OfBase(c, b)
  OBVIOUS
<1>2. IsFiniteSet(Orders)
  BY FS_Interval, FoundingBounds DEF Orders
<1>3. IsFiniteSet(S) /\ S \subseteq Orders /\ o \notin S /\ IsFiniteSet(S \cup {o})
  BY <1>1, <1>2, FS_Subset, FS_AddElement DEF OfBase
<1>4. PICK a, m : /\ a = [p \in S \cup {o} |-> d[p].requested]
                  /\ m = [p \in S \cup {o} |-> d[p].requested - d[p].amount]
  OBVIOUS
<1>5. \A p \in S \cup {o} : d[p] \in ClawRow
  BY <1>1, <1>3 DEF OfBase
<1>6. /\ \A p \in S \cup {o} : a[p] = d[p].requested /\ m[p] = d[p].requested - d[p].amount
      /\ \A p \in S \cup {o} : a[p] \in Int /\ m[p] \in Int
      /\ \A p \in S : a[p] = c[p].requested /\ m[p] = c[p].requested - c[p].amount
  BY <1>3, <1>4, <1>5 DEF ClawRow
<1>7. /\ Asked(c, S) = Total(a, S) /\ Missed(c, S) = Total(m, S)
      /\ Asked(d, S) = Total(a, S) /\ Missed(d, S) = Total(m, S)
      /\ Asked(d, S \cup {o}) = Total(a, S \cup {o}) /\ Missed(d, S \cup {o}) = Total(m, S \cup {o})
  BY <1>3, <1>6, AskedIsTotal, MissedIsTotal
<1>8. /\ Total(a, S \cup {o}) = Total(a, S) + a[o] /\ Total(a, S) \in Int
      /\ Total(m, S \cup {o}) = Total(m, S) + m[o] /\ Total(m, S) \in Int
  BY <1>3, <1>6, TotalAdd
<1>9. CASE d[o].base = b
  <2>1. OfBase(d, b) = S \cup {o}
    BY <1>1, <1>9 DEF OfBase
  <2> QED
    BY <1>1, <1>6, <1>7, <1>8, <1>9, <2>1
<1>10. CASE d[o].base # b
  <2>1. OfBase(d, b) = S
    BY <1>1, <1>10 DEF OfBase
  <2> QED
    BY <1>1, <1>7, <1>8, <1>10, <2>1
<1> QED
  BY <1>9, <1>10

LEMMA PostedIs ==
    /\ \A b : Posted(b) = granted[b] - Asked(claws, OfBase(claws, b))
    /\ \A b : Shortfall(b) = Missed(claws, OfBase(claws, b))
BY DEF Posted, Shortfall, Claws, Asked, Missed, OfBase

LEMMA PostedIsNext ==
    /\ \A b : Posted(b)' = granted'[b] - Asked(claws', OfBase(claws', b))
    /\ \A b : Shortfall(b)' = Missed(claws', OfBase(claws', b))
<1>1. (/\ \A b : Posted(b) = granted[b] - Asked(claws, OfBase(claws, b))
       /\ \A b : Shortfall(b) = Missed(claws, OfBase(claws, b)))'
  BY PostedIs, PTL
<1> QED
  BY <1>1

LEMMA SamePosted ==
    ASSUME UNCHANGED <<granted, claws>>
    PROVE  \A b : Posted(b)' = Posted(b) /\ Shortfall(b)' = Shortfall(b)
BY PostedIs, PostedIsNext

-----------------------------------------------------------------------------
(* What the pieces of an action do                                         *)

LEMMA GotoDoes ==
    ASSUME Shapes, NEW o \in Orders, NEW pc \in HandlerPcs, Goto(o, pc)
    PROVE  /\ handler' \in [Orders -> HandlerRow] /\ handler'[o].pc = pc
           /\ handler'[o].why = handler[o].why /\ handler'[o].need = handler[o].need
           /\ handler'[o].releasing = handler[o].releasing /\ handler'[o].stays = handler[o].stays
           /\ handler'[o].others = handler[o].others
           /\ \A p \in Orders \ {o} : handler'[p] = handler[p]
<1>1. handler[o] \in HandlerRow
  BY DEF Shapes
<1>2. PICK h : h = [handler[o] EXCEPT !.pc = pc]
  OBVIOUS
<1>3. /\ h \in HandlerRow /\ h.pc = pc /\ h.why = handler[o].why /\ h.need = handler[o].need
      /\ h.releasing = handler[o].releasing /\ h.stays = handler[o].stays /\ h.others = handler[o].others
  BY <1>1, <1>2 DEF HandlerRow
<1> QED
  BY <1>2, <1>3 DEF Shapes, Goto

LEMMA NoHandlerIs ==
    /\ NoHandler \in HandlerRow /\ NoHandler.pc = "idle" /\ NoHandler.releasing = FALSE
    /\ NoHandler.others = {}
<1>1. PICK h : h = [pc |-> "idle", why |-> "Refund", need |-> 0, releasing |-> FALSE, stays |-> FALSE, others |-> {}]
  OBVIOUS
<1>2. NoHandler = h
  BY <1>1 DEF NoHandler
<1>3. "idle" \in HandlerPcs /\ {} \in SUBSET Orders
  BY DEF HandlerPcs
<1>4. h \in HandlerRow
  BY <1>1, <1>3 DEF HandlerRow
<1> QED
  BY <1>1, <1>2, <1>4

LEMMA FinishDoes ==
    ASSUME Shapes, NEW o \in Orders, Finish(o)
    PROVE  /\ handler' \in [Orders -> HandlerRow] /\ handler'[o].pc = "idle"
           /\ handler'[o].releasing = FALSE /\ handler'[o].others = {}
           /\ \A p \in Orders \ {o} : handler'[p] = handler[p]
           /\ current' \subseteq current /\ <<o, "row">> \notin current' /\ <<o, "claw">> \notin current'
BY NoHandlerIs DEF Shapes, Finish

LEMMA BeginDoes ==
    ASSUME Shapes, NEW o \in Orders, NEW pc \in HandlerPcs, NEW why, why \in {"Refund", "DisputeLost"},
           Begin(o, pc, why)
    PROVE  /\ handler' \in [Orders -> HandlerRow] /\ handler[o].pc = "idle" /\ handler'[o].pc = pc
           /\ handler'[o].releasing = FALSE /\ handler'[o].others = {}
           /\ \A p \in Orders \ {o} : handler'[p] = handler[p]
<1>1. PICK h : h = [NoHandler EXCEPT !.pc = pc, !.why = why]
  OBVIOUS
<1>2. h \in HandlerRow /\ h.pc = pc /\ h.releasing = FALSE /\ h.others = {}
  BY <1>1 DEF NoHandler, HandlerRow, HandlerPcs
<1> QED
  BY <1>1, <1>2 DEF Shapes, Begin, At

LEMMA OrderIsDoes ==
    ASSUME Shapes, NEW o \in Orders, OrderIs(o, "Refunded") \/ OrderIs(o, "Voided") \/ OrderIs(o, "Expired")
                                     \/ OrderIs(o, "Paid") \/ OrderIs(o, "Fulfilled")
    PROVE  /\ order' \in [Orders -> OrderRow]
           /\ order'[o].from = order[o].from /\ order'[o].to = order[o].to /\ order'[o].home = order[o].home
           /\ order'[o].pending = order[o].pending /\ order'[o].reversed = order[o].reversed
           /\ \A p \in Orders \ {o} : order'[p] = order[p]
           /\ OrderIs(o, "Refunded") => order'[o].state = "Refunded"
           /\ OrderIs(o, "Voided") => order'[o].state = "Voided"
           /\ OrderIs(o, "Expired") => order'[o].state = "Expired"
           /\ OrderIs(o, "Paid") => order'[o].state = "Paid"
           /\ OrderIs(o, "Fulfilled") => order'[o].state = "Fulfilled"
BY DEF Shapes, OrderIs, OrderRow

\* A handler's tokens are its own
LEMMA Tokens ==
    ASSUME NEW o \in Orders
    PROVE  /\ \A s \in Syncers : s \notin {o} \X {"row", "claw"}
           /\ \A p \in Orders \ {o} : /\ <<p, "row">> \notin {o} \X {"row", "claw"}
                                      /\ <<p, "claw">> \notin {o} \X {"row", "claw"}
BY FoundingNames

\* The numbers are numbers
LEMMA Numbers ==
    ASSUME Shapes
    PROVE  /\ \A b \in Orders : Posted(b) \in Int /\ Shortfall(b) \in Int
           /\ Target \in Nat
<1>1. ASSUME NEW b \in Orders PROVE Posted(b) \in Int /\ Shortfall(b) \in Int
  <2>1. PICK S : S = OfBase(claws, b)
    OBVIOUS
  <2>2. IsFiniteSet(S)
    <3>1. IsFiniteSet(Orders)
      BY FS_Interval, FoundingBounds DEF Orders
    <3> QED
      BY <2>1, <3>1, FS_Subset DEF OfBase
  <2>3. PICK a : a = [p \in S |-> claws[p].requested]
    OBVIOUS
  <2>4. PICK m : m = [p \in S |-> claws[p].requested - claws[p].amount]
    OBVIOUS
  <2>5. \A p \in S : claws[p] \in ClawRow
    BY <2>1 DEF OfBase, Shapes
  <2>6. \A p \in S : /\ a[p] = claws[p].requested /\ m[p] = claws[p].requested - claws[p].amount
                     /\ a[p] \in Int /\ m[p] \in Int
    BY <2>3, <2>4, <2>5 DEF ClawRow
  <2>7. Asked(claws, S) = Total(a, S) /\ Missed(claws, S) = Total(m, S)
    BY <2>2, <2>6, AskedIsTotal, MissedIsTotal
  <2>8. Total(a, S) \in Int /\ Total(m, S) \in Int
    BY <2>2, <2>6, TotalTakes
  <2> QED
    BY <2>1, <2>7, <2>8, PostedIs DEF Shapes
<1>2. Target \in Nat
  BY FoundingProt DEF Shapes, MemberRow, Target, Active, Tiers
<1> QED
  BY <1>1, <1>2

\* No clawback takes more than it asks for
LEMMA ShortfallNat ==
    ASSUME Inv, NEW b \in Orders
    PROVE  Shortfall(b) \in Nat
<1>1. PICK S : S = OfBase(claws, b)
  OBVIOUS
<1>2. IsFiniteSet(S) /\ S \subseteq Orders
  <2>1. IsFiniteSet(Orders)
    BY FS_Interval, FoundingBounds DEF Orders
  <2> QED
    BY <1>1, <2>1, FS_Subset DEF OfBase
<1>3. PICK m : m = [p \in S |-> claws[p].requested - claws[p].amount]
  OBVIOUS
<1>4. \A p \in S : claws[p] \in ClawRow /\ claws[p].amount <= claws[p].requested
  BY <1>1, <1>2 DEF OfBase, Inv, Shapes, OrderInv
<1>5. \A p \in S : m[p] = claws[p].requested - claws[p].amount /\ m[p] \in Nat
  BY <1>3, <1>4 DEF ClawRow
<1>6. Missed(claws, S) = Total(m, S)
  BY <1>2, <1>5, MissedIsTotal
<1>7. Total(m, S) \in Nat
  BY <1>2, <1>5, TotalGrows, S \in SUBSET S
<1> QED
  BY <1>1, <1>6, <1>7, PostedIs

LEMMA BaseListed ==
    ASSUME Shapes, RowInv, member # None
    PROVE  /\ member \in MemberRow /\ Base \in Orders /\ Listed(Base) /\ member.orders \in Seq(Orders)
           /\ \A i \in 1..Len(member.orders) : member.orders[i] \in Orders /\ Listed(member.orders[i])
           /\ 1 \in 1..Len(member.orders)
<1>1. member \in MemberRow /\ member.orders # <<>>
  BY DEF Shapes, RowInv
<1>2. member.orders \in Seq(Orders) /\ 1 \in 1..Len(member.orders)
  BY <1>1 DEF MemberRow
<1> QED
  BY <1>1, <1>2 DEF Base, Listed, ToSet

LEMMA AskedInt ==
    ASSUME Shapes, NEW b \in Orders
    PROVE  Asked(claws, OfBase(claws, b)) \in Int
<1>2. PICK S : S = OfBase(claws, b)
  OBVIOUS
<1>3. IsFiniteSet(S)
  <2>1. IsFiniteSet(Orders)
    BY FS_Interval, FoundingBounds DEF Orders
  <2> QED
    BY <1>2, <2>1, FS_Subset DEF OfBase
<1>4. PICK a : a = [p \in S |-> claws[p].requested]
  OBVIOUS
<1>5. \A p \in S : claws[p] \in ClawRow
  BY <1>2 DEF OfBase, Shapes
<1>6. \A p \in S : a[p] = claws[p].requested /\ a[p] \in Int
  BY <1>4, <1>5 DEF ClawRow
<1>7. Asked(claws, S) = Total(a, S)
  BY <1>3, <1>6, AskedIsTotal
<1>8. Total(a, S) \in Int
  BY <1>3, <1>6, TotalTakes
<1> QED
  BY <1>2, <1>7, <1>8
-----------------------------------------------------------------------------
(* A step of one order's handler that leaves the ledger alone and the row's *)
(* orders and tier as they are: what it has to show of that order is enough *)

RowKept ==
    \/ member' = member
    \/ /\ member # None /\ member' # None /\ current' = {}
       /\ member'.orders = member.orders /\ member'.tier = member.tier
       /\ (member'.active => member.active) /\ (member'.active <=> member'.reason = "None")

Local(o) ==
    /\ \A p \in Orders \ {o} : /\ order'[p] = order[p] /\ handler'[p] = handler[p]
                               /\ (p \in marked' <=> p \in marked)
    /\ order[o].state # "None" => /\ order'[o].state # "None" /\ order'[o].from = order[o].from
                                  /\ order'[o].home = order[o].home
    /\ \A u \in handler'[o].others : u \in handler[o].others \/ (order[u].from # 0 /\ order[u].state # "None")
    /\ RowKept
    /\ granted' = granted /\ claws' = claws /\ sync' = sync
    /\ replaced' = replaced /\ released' = released /\ cut' = cut
    /\ skipped \subseteq skipped' /\ skipped' \subseteq skipped \cup {o}
    /\ current' \subseteq current \cup ({o} \X {"row", "claw"})

\* What the step has to show
Shown(o) ==
    /\ OrderInv(o)' /\ ListedInv(o)' /\ ClawInv(o)' /\ ReadInv(o)'
    /\ handler'[o].pc \in Passed /\ Incumbent(o) => Posted(o) = 0
    /\ (Active' <=> Active) \/ Blame(o)'
    /\ member # None /\ Posted(Base) > Target /\ Blame(o) =>
          Blame(o)' \/ (o \in skipped' /\ order[o].home = Base)

LEMMA RowKeptDoes ==
    ASSUME RowKept
    PROVE  /\ member' = None <=> member = None
           /\ \A p : Listed(p)' <=> Listed(p)
           /\ \A p : Incumbent(p)' <=> Incumbent(p)
           /\ member # None => Base' = Base /\ member'.orders = member.orders
           /\ Active' => Active
           /\ (Active' <=> Active) => Target' = Target
           /\ current' # {} => member' = member
BY DEF RowKept, Listed, Incumbent, Base, Active, Target, ToSet

LEMMA LocalOrder ==
    ASSUME Inv, Shapes', NEW o \in Orders, Local(o), OrderInv(o)', NEW p \in Orders
    PROVE  OrderInv(p)' /\ OthersInv(p)'
<1>1. OrderInv(p) /\ OthersInv(p)
  BY DEF Inv
<1>2. OthersInv(p)'
  <2>1. \A u \in handler'[p].others : u \in Orders /\ order[u].from # 0 /\ order[u].state # "None"
    <3>1. \A u \in handler'[p].others : order[u].from # 0 /\ order[u].state # "None"
      BY <1>1 DEF Local, OthersInv
    <3>2. handler'[p] \in HandlerRow
      BY DEF Shapes
    <3>3. handler'[p].others \subseteq Orders
      BY <3>2 DEF HandlerRow
    <3> QED
      BY <3>1, <3>3
  <2> QED
    BY <2>1 DEF OthersInv, Local
<1>3. ASSUME p # o PROVE OrderInv(p)'
  <2>1. /\ order'[p] = order[p] /\ handler'[p] = handler[p] /\ claws'[p] = claws[p] /\ released' = released
        /\ (p \in marked' <=> p \in marked) /\ (p \in skipped' <=> p \in skipped)
    BY <1>3 DEF Local
  <2> QED
    BY <1>1, <2>1 DEF OrderInv
<1> QED
  BY <1>2, <1>3

LEMMA LocalRow ==
    ASSUME Inv, NEW o \in Orders, Local(o)
    PROVE  RowInv'
<1>1. SUFFICES ASSUME member' # None PROVE RowInv'
  BY DEF RowInv
<1>2. member # None /\ Base' = Base /\ member'.orders = member.orders
  BY <1>1, RowKeptDoes DEF Local
<1>3. RowInv /\ member \in MemberRow
  BY <1>2 DEF Inv, Shapes
<1>4. \A i \in 1..Len(member.orders) : member.orders[i] \in Orders /\ Listed(member.orders[i])
  BY <1>2, <1>3 DEF MemberRow, Listed, ToSet
<1>5. \A i \in 1..Len(member.orders) : order[member.orders[i]].state # "None"
  BY <1>4 DEF Inv, ListedInv, Applied
<1>6. \A i \in 1..Len(member.orders) : order'[member.orders[i]].from = order[member.orders[i]].from
  BY <1>4, <1>5 DEF Local
<1>7. 1 \in 1..Len(member.orders)
  BY <1>2, <1>3 DEF RowInv, MemberRow
<1>8. order'[Base].from = order[Base].from
  BY <1>6, <1>7 DEF Base
<1>9. member'.active <=> member'.reason = "None"
  BY <1>2, <1>3 DEF Local, RowKept, RowInv
<1>10. Base' \notin (replaced \cup released)'
  BY <1>2, <1>3 DEF RowInv, Local
<1>11. \A i \in 2..Len(member.orders) : i \in 1..Len(member.orders)
  BY <1>3 DEF MemberRow
<1> QED
  BY <1>2, <1>3, <1>6, <1>8, <1>9, <1>10, <1>11 DEF RowInv

LEMMA LocalListed ==
    ASSUME Inv, NEW o \in Orders, Local(o), ListedInv(o)', NEW p \in Orders
    PROVE  ListedInv(p)'
<1>1. CASE p = o
  BY <1>1
<1>2. CASE p # o
  <2>1. /\ order'[p] = order[p] /\ handler'[p] = handler[p] /\ claws'[p] = claws[p]
        /\ (Listed(p)' <=> Listed(p)) /\ (Active' => Active) /\ (Listed(p) => Base' = Base)
    BY <1>2, RowKeptDoes DEF Local, Listed
  <2>2. ListedInv(p)
    BY DEF Inv
  <2> QED
    BY <2>1, <2>2 DEF ListedInv
<1> QED
  BY <1>1, <1>2

LEMMA LocalPosted ==
    ASSUME Inv, NEW o \in Orders, Local(o), Shown(o), NEW b \in Orders
    PROVE  PostedInv(b)'
<1>1. PostedInv(b)
  BY DEF Inv
<1>2. /\ Posted(b)' = Posted(b) /\ Shortfall(b)' = Shortfall(b) /\ (Incumbent(b)' <=> Incumbent(b))
      /\ claws'[b] = claws[b] /\ released' = released /\ cut' = cut
  BY SamePosted, RowKeptDoes DEF Local
<1>3. handler'[b].pc \in Passed /\ Incumbent(b) => handler[b].pc \in Passed \/ Posted(b) = 0
  BY DEF Local, Shown
<1> QED
  BY <1>1, <1>2, <1>3 DEF PostedInv

LEMMA LocalReads ==
    ASSUME Inv, NEW o \in Orders, Local(o), ClawInv(o)', ReadInv(o)'
    PROVE  /\ \A p \in Orders : ClawInv(p)' /\ ReadInv(p)'
           /\ \A s \in Syncers : SyncInv(s)'
<1>1. ASSUME member' = member, NEW p \in Orders, p # o PROVE ClawInv(p)' /\ ReadInv(p)'
  <2>1. /\ order'[p] = order[p] /\ handler'[p] = handler[p] /\ claws'[p] = claws[p]
        /\ (<<p, "claw">> \in current' => <<p, "claw">> \in current)
        /\ (<<p, "row">> \in current' => <<p, "row">> \in current)
    BY <1>1, Tokens DEF Local
  <2>2. /\ Target' = Target /\ (Listed(p)' <=> Listed(p)) /\ (member # None => Base' = Base)
        /\ Undo(p)' = Undo(p) /\ Posted(Base)' = Posted(Base) /\ Shortfall(p)' = Shortfall(p)
    <3>1. Target' = Target /\ (Listed(p)' <=> Listed(p)) /\ Base' = Base /\ (Active' <=> Active)
      BY <1>1 DEF Target, Listed, Base, Active
    <3>2. Undo(p)' = Undo(p)
      BY <1>1, <2>1, <3>1 DEF Undo
    <3>3. Posted(Base)' = Posted(Base) /\ Shortfall(p)' = Shortfall(p)
      BY <1>1, <3>1, SamePosted, PostedIs, PostedIsNext DEF Local
    <3> QED
      BY <3>1, <3>2, <3>3
  <2>3. ClawInv(p) /\ ReadInv(p)
    BY DEF Inv
  <2>4. ClawInv(p)'
    BY <1>1, <2>1, <2>2, <2>3 DEF ClawInv, Current
  <2>5. ReadInv(p)'
    BY <1>1, <2>1, <2>2, <2>3 DEF ReadInv, Current
  <2> QED
    BY <2>4, <2>5
<1>2. ASSUME member' = member, NEW s \in Syncers PROVE SyncInv(s)'
  <2>1. (s \in current' => s \in current) /\ sync' = sync
    BY Tokens DEF Local
  <2>2. Target' = Target /\ (Active' <=> Active) /\ Base' = Base
    BY <1>2 DEF Target, Base, Active
  <2>3. Posted(Base)' = Posted(Base)
    BY <2>2, PostedIs, PostedIsNext DEF Local
  <2>4. SyncInv(s)
    BY DEF Inv
  <2> QED
    BY <2>1, <2>2, <2>3, <2>4 DEF SyncInv, Current
<1>3. CASE current' = {}
  BY <1>3 DEF ClawInv, ReadInv, SyncInv, Current
<1>4. CASE current' # {}
  BY <1>1, <1>2, <1>4, RowKeptDoes DEF Local
<1> QED
  BY <1>3, <1>4

LEMMA LocalOver ==
    ASSUME Inv, NEW o \in Orders, Local(o), Shown(o)
    PROVE  OverInv'
<1>1. SUFFICES ASSUME member' # None, Posted(Base)' > Target',
                      ~ Blame(o)', Base' \notin cut'
               PROVE  (\E p \in Orders : Blame(p)') \/ (\E p \in skipped' : order'[p].home = Base')
  BY DEF OverInv
<1>2. member # None /\ Base' = Base /\ (Active' <=> Active) /\ Target' = Target
  BY <1>1, RowKeptDoes DEF Local, Shown
<1>3. Posted(Base)' = Posted(Base)
  BY <1>2, PostedIs, PostedIsNext DEF Local
<1>4. (\E p \in Orders : Blame(p)) \/ (\E p \in skipped : order[p].home = Base)
  BY <1>1, <1>2, <1>3 DEF Inv, OverInv, Local
<1>5. \A p \in skipped : p \in Orders /\ order'[p].home = order[p].home /\ p \in skipped'
  <2> SUFFICES ASSUME NEW p \in skipped
               PROVE  p \in Orders /\ order'[p].home = order[p].home /\ p \in skipped'
    OBVIOUS
  <2>1. p \in Orders /\ OrderInv(p)
    BY DEF Inv, Shapes
  <2>2. order[p].state # "None"
    BY <2>1 DEF OrderInv, Applied
  <2> QED
    BY <2>1, <2>2 DEF Local
<1>6. CASE \E p \in skipped : order[p].home = Base
  BY <1>2, <1>5, <1>6
<1>7. ASSUME NEW p \in Orders, p # o, Blame(p) PROVE Blame(p)'
  <2>1. order'[p] = order[p] /\ handler'[p] = handler[p] /\ claws' = claws
    BY <1>7 DEF Local
  <2>2. Listed(p)' <=> Listed(p)
    BY RowKeptDoes DEF Local
  <2> QED
    BY <1>2, <1>7, <2>1, <2>2 DEF Blame
<1>8. CASE Blame(o)
  <2>1. o \in skipped' /\ order[o].home = Base
    BY <1>1, <1>2, <1>3, <1>8 DEF Shown
  <2>2. order[o].state # "None"
    BY <1>8 DEF Blame
  <2> QED
    BY <1>2, <2>1, <2>2 DEF Local
<1> QED
  BY <1>4, <1>6, <1>7, <1>8

LEMMA LocalKeeps ==
    ASSUME Inv, Shapes', NEW o \in Orders, Local(o), Shown(o)
    PROVE  Inv'
BY LocalOrder, LocalRow, LocalListed, LocalPosted, LocalReads, LocalOver DEF Inv, Shown

LEMMA Here ==
    ASSUME Inv, NEW o \in Orders
    PROVE  /\ Shapes /\ RowInv /\ OrderInv(o) /\ OthersInv(o) /\ ListedInv(o) /\ PostedInv(o)
           /\ ClawInv(o) /\ ReadInv(o) /\ order[o] \in OrderRow /\ handler[o] \in HandlerRow
           /\ handler[o].others \subseteq Orders
BY DEF Inv, Shapes, HandlerRow

LEMMA SameRow ==
    ASSUME member' = member
    PROVE  /\ RowKept /\ (Active' <=> Active) /\ Target' = Target /\ Base' = Base
           /\ \A p : (Listed(p)' <=> Listed(p)) /\ (Incumbent(p)' <=> Incumbent(p))
BY DEF RowKept, Active, Target, Base, Listed, Incumbent

\* An order whose handler is idle has no reading
LEMMA IdleReadsNothing ==
    ASSUME Inv, NEW o \in Orders, handler[o].pc \notin {"commit"}
    PROVE  /\ <<o, "claw">> \notin current
           /\ handler[o].pc \notin {"downgrade", "claw"} \cup Passed => <<o, "row">> \notin current
BY Here DEF ClawInv, ReadInv, Current

\* Nobody holds an order that was not applied, and no row has it
LEMMA NotApplied ==
    ASSUME Inv, NEW o \in Orders, order[o].state \in {"None", "Pending", "Expired", "Voided"}
    PROVE  /\ handler[o].pc = "idle" /\ ~handler[o].releasing /\ ~Listed(o) /\ o \notin marked
           /\ claws[o] = None /\ o \notin skipped /\ o \notin released
<1>1. OrderInv(o) /\ ListedInv(o) /\ handler[o] \in HandlerRow
  BY Here
<1>2. handler[o].pc \notin Buying /\ handler[o].pc \notin Reversing /\ handler[o].pc \in HandlerPcs
  BY <1>1 DEF OrderInv, Applied, HandlerRow
<1> QED
  BY <1>1, <1>2 DEF OrderInv, ListedInv, Applied, HandlerPcs

\* No row and no reading: nothing to show of them
LEMMA NothingShown ==
    ASSUME Inv, NEW o \in Orders, Local(o), OrderInv(o)', ~Listed(o), member' = member,
           <<o, "row">> \notin current', <<o, "claw">> \notin current',
           handler'[o].pc \notin Passed, ~Blame(o)
    PROVE  Shown(o)
<1>1. ~Listed(o)' /\ (Active' <=> Active)
  BY SameRow
<1>2. ListedInv(o)'
  BY <1>1 DEF ListedInv
<1>3. ClawInv(o)' /\ ReadInv(o)'
  BY DEF ClawInv, ReadInv, Current
<1> QED
  BY <1>1, <1>2, <1>3 DEF Shown

LEMMA CheckoutKeeps ==
    ASSUME Inv, NEW o \in Orders, Checkout(o)
    PROVE  Inv'
<1>1. /\ Shapes /\ OrderInv(o) /\ order[o].state = "None" /\ member' = member
      /\ handler' = handler /\ marked' = marked /\ granted' = granted /\ claws' = claws /\ balance' = balance
      /\ sync' = sync /\ current' = current /\ replaced' = replaced /\ released' = released
      /\ cut' = cut /\ skipped' = skipped
  BY Here DEF Checkout, rows, history
<1>2. PICK from : /\ from = (IF Active THEN member.tier ELSE 0)
                  /\ order' = [order EXCEPT ![o] = [NoOrder EXCEPT !.state = "Pending", !.from = from, !.to = from + 1]]
  BY DEF Checkout
<1>3. from \in Nat /\ from + 1 \in Tiers
  BY <1>1, <1>2, FoundingProt DEF Checkout, Shapes, Active, MemberRow, Tiers
<1>4. PICK x : x = [NoOrder EXCEPT !.state = "Pending", !.from = from, !.to = from + 1]
  OBVIOUS
<1>5. x \in OrderRow /\ x.state = "Pending" /\ x.from = from /\ x.to = from + 1 /\ x.pending = FALSE /\ x.home = 0
  BY <1>3, <1>4 DEF NoOrder, OrderRow
<1>6. order' \in [Orders -> OrderRow] /\ order'[o] = x /\ \A p \in Orders \ {o} : order'[p] = order[p]
  BY <1>1, <1>2, <1>4, <1>5 DEF Shapes
<1>7. Shapes'
  BY <1>1, <1>6 DEF Shapes
<1>8. Local(o)
  BY <1>1, <1>6, SameRow DEF Local
<1>9. /\ handler[o].pc = "idle" /\ ~handler[o].releasing /\ ~Listed(o) /\ o \notin marked
      /\ claws[o] = None /\ o \notin skipped /\ o \notin released
  BY <1>1, NotApplied
<1>10. OrderInv(o)'
  BY <1>1, <1>3, <1>5, <1>6, <1>9 DEF OrderInv, Buying, Reversing, Undoing, Releasing, Passed
<1>11. Shown(o)
  BY <1>1, <1>8, <1>9, <1>10, NothingShown, IdleReadsNothing DEF Passed, Blame
<1> QED
  BY <1>7, <1>8, <1>11, LocalKeeps

LEMMA ExpireKeeps ==
    ASSUME Inv, NEW o \in Orders, Expire(o)
    PROVE  Inv'
<1>1. /\ Shapes /\ OrderInv(o) /\ order[o].state = "Pending" /\ member' = member
      /\ handler' = handler /\ marked' = marked /\ granted' = granted /\ claws' = claws /\ balance' = balance
      /\ sync' = sync /\ current' = current /\ replaced' = replaced /\ released' = released
      /\ cut' = cut /\ skipped' = skipped
  BY Here DEF Expire, rows, history
<1>2. /\ order' \in [Orders -> OrderRow] /\ order'[o].state = "Expired"
      /\ order'[o].from = order[o].from /\ order'[o].to = order[o].to /\ order'[o].home = order[o].home
      /\ order'[o].pending = order[o].pending /\ order'[o].reversed = order[o].reversed
      /\ \A p \in Orders \ {o} : order'[p] = order[p]
  BY <1>1, OrderIsDoes DEF Expire
<1>3. Shapes'
  BY <1>1, <1>2 DEF Shapes
<1>4. Local(o)
  BY <1>1, <1>2, SameRow DEF Local
<1>5. /\ handler[o].pc = "idle" /\ ~handler[o].releasing /\ ~Listed(o) /\ o \notin marked
      /\ claws[o] = None /\ o \notin skipped /\ o \notin released
  BY <1>1, NotApplied
<1>6. OrderInv(o)'
  BY <1>1, <1>2, <1>5 DEF OrderInv, Buying, Reversing, Undoing, Releasing, Passed
<1>7. Shown(o)
  BY <1>1, <1>4, <1>5, <1>6, NothingShown, IdleReadsNothing DEF Passed, Blame
<1> QED
  BY <1>3, <1>4, <1>7, LocalKeeps

LEMMA PayKeeps ==
    ASSUME Inv, NEW o \in Orders, Pay(o)
    PROVE  Inv'
<1>1. /\ Shapes /\ OrderInv(o) /\ order[o].state \in {"Pending", "Expired"} /\ member' = member
      /\ marked' = marked /\ granted' = granted /\ claws' = claws /\ balance' = balance
      /\ sync' = sync /\ current' = current /\ replaced' = replaced /\ released' = released
      /\ cut' = cut /\ skipped' = skipped
  BY Here DEF Pay, rows, history
<1>2. /\ order' \in [Orders -> OrderRow] /\ order'[o].state = "Paid"
      /\ order'[o].from = order[o].from /\ order'[o].to = order[o].to /\ order'[o].home = order[o].home
      /\ order'[o].pending = order[o].pending /\ order'[o].reversed = order[o].reversed
      /\ \A p \in Orders \ {o} : order'[p] = order[p]
  BY <1>1, OrderIsDoes DEF Pay
<1>3. /\ handler' \in [Orders -> HandlerRow] /\ handler'[o].pc = "judge"
      /\ handler'[o].releasing = FALSE /\ handler'[o].others = {}
      /\ \A p \in Orders \ {o} : handler'[p] = handler[p]
  BY <1>1, BeginDoes, "judge" \in HandlerPcs DEF Pay, HandlerPcs, Buying
<1>4. Shapes'
  BY <1>1, <1>2, <1>3 DEF Shapes
<1>5. Local(o)
  BY <1>1, <1>2, <1>3, SameRow DEF Local
<1>6. /\ handler[o].pc = "idle" /\ ~handler[o].releasing /\ ~Listed(o) /\ o \notin marked
      /\ claws[o] = None /\ o \notin skipped /\ o \notin released
  BY <1>1, NotApplied
<1>7. OrderInv(o)'
  BY <1>1, <1>2, <1>3, <1>6 DEF OrderInv, Buying, Reversing, Undoing, Releasing, Passed
<1>8. Shown(o)
  BY <1>1, <1>3, <1>5, <1>6, <1>7, NothingShown, IdleReadsNothing DEF Passed, Blame
<1> QED
  BY <1>4, <1>5, <1>8, LocalKeeps

\* The row stays as it is: what is left to show
LEMMA SameRowShown ==
    ASSUME Inv, NEW o \in Orders, Local(o), OrderInv(o)', member' = member, ClawInv(o)', ReadInv(o)',
           Listed(o) => order'[o].state \in Applied \cup {"Paid"},
           Listed(o) /\ Active /\ order[o].from = 0 => order'[o].state # "Refunded",
           handler'[o].pc = "apply" => ~Listed(o),
           /\ Listed(o)
           /\ \/ handler'[o].pc \in {"claw", "commit"}
              \/ handler'[o].pc \in Passed \cup {"refunded"} /\ order[o].from = 0
           => ~Active,
           handler'[o].pc \in Passed /\ Incumbent(o) => Posted(o) = 0,
           member # None /\ Posted(Base) > Target /\ Blame(o) =>
               \/ /\ order'[o].state = "Fulfilled" /\ order'[o].reversed
                  /\ handler'[o].pc \notin Passed \cup {"refunded"}
               \/ o \in skipped' /\ order[o].home = Base
    PROVE  Shown(o)
<1>1. /\ (Active' <=> Active) /\ Base' = Base
      /\ (Listed(o)' <=> Listed(o)) /\ (Incumbent(o)' <=> Incumbent(o))
  BY SameRow
<1>2. claws'[o] = claws[o]
  BY DEF Local
<1>3. ListedInv(o)
  BY Here
<1>4. Listed(o) => order'[o].home = order[o].home /\ order'[o].from = order[o].from
  BY <1>3 DEF Local, ListedInv, Applied
<1>5. ListedInv(o)'
  BY <1>1, <1>2, <1>3, <1>4 DEF ListedInv
<1>6. member # None /\ Posted(Base) > Target /\ Blame(o) =>
          Blame(o)' \/ (o \in skipped' /\ order[o].home = Base)
  <2>1. Blame(o) => order'[o].home = order[o].home
    BY DEF Blame, Local
  <2> QED
    BY <1>1, <1>2, <2>1 DEF Blame
<1> QED
  BY <1>1, <1>5, <1>6 DEF Shown

LEMMA NoReading ==
    ASSUME NEW o, <<o, "row">> \notin current', <<o, "claw">> \notin current'
    PROVE  ClawInv(o)' /\ ReadInv(o)'
BY DEF ClawInv, ReadInv, Current

\* Of the row and the ledger nothing moves
Quiet ==
    /\ member' = member /\ granted' = granted /\ claws' = claws /\ balance' = balance /\ sync' = sync
    /\ replaced' = replaced /\ released' = released /\ cut' = cut /\ skipped' = skipped

LEMMA ResumeKeeps ==
    ASSUME Inv, NEW o \in Orders, Resume(o)
    PROVE  Inv'
<1>1. /\ Shapes /\ OrderInv(o) /\ ListedInv(o) /\ OthersInv(o)
      /\ Quiet /\ order' = order /\ marked' = marked /\ current' = current
  BY Here DEF Resume, rows, history, Quiet
<1>2. PICK pc : /\ pc = (IF order[o].state = "Paid" THEN "judge" ELSE "revoke")
                /\ Begin(o, pc, "Refund")
  BY DEF Resume
<1>3. pc \in HandlerPcs /\ pc \in {"judge", "revoke"}
  BY <1>2 DEF HandlerPcs, Buying, Reversing, Undoing
<1>4. /\ handler' \in [Orders -> HandlerRow] /\ handler[o].pc = "idle" /\ handler'[o].pc = pc
      /\ handler'[o].releasing = FALSE /\ handler'[o].others = {}
      /\ \A p \in Orders \ {o} : handler'[p] = handler[p]
  BY <1>1, <1>2, <1>3, BeginDoes
<1>5. Shapes'
  BY <1>1, <1>4 DEF Shapes, Quiet
<1>6. Local(o)
  BY <1>1, <1>4, SameRow DEF Local, Quiet
<1>7. OrderInv(o)'
  BY <1>1, <1>2, <1>4 DEF OrderInv, Resume, Quiet, Buying, Reversing, Undoing, Releasing, Passed, Applied
<1>8. ClawInv(o)' /\ ReadInv(o)'
  BY <1>1, <1>4, NoReading, IdleReadsNothing DEF Passed
<1>9. member' = member /\ skipped' = skipped
  BY <1>1 DEF Quiet
<1>10. Shown(o)
  BY <1>1, <1>3, <1>4, <1>6, <1>7, <1>8, <1>9, SameRowShown DEF ListedInv, Passed, Blame
<1> QED
  BY <1>5, <1>6, <1>10, LocalKeeps

LEMMA RecordPendingKeeps ==
    ASSUME Inv, NEW o \in Orders, RecordPending(o)
    PROVE  Inv'
<1>1. /\ Shapes /\ OrderInv(o) /\ ListedInv(o) /\ OthersInv(o) /\ order[o] \in OrderRow
      /\ Quiet /\ handler' = handler /\ marked' = marked /\ current' = current
      /\ order[o].state = "Paid" /\ handler[o].pc = "idle"
      /\ order' = [order EXCEPT ![o].pending = TRUE, ![o].reversed = TRUE]
  BY Here DEF RecordPending, rows, history, Quiet, At
<1>2. PICK x : x = [order[o] EXCEPT !.pending = TRUE, !.reversed = TRUE]
  OBVIOUS
<1>3. x \in OrderRow /\ x.state = "Paid" /\ x.from = order[o].from /\ x.to = order[o].to /\ x.home = order[o].home
      /\ x.pending = TRUE /\ x.reversed = TRUE
  BY <1>1, <1>2 DEF OrderRow
<1>4. order' = [order EXCEPT ![o] = x]
  BY <1>1, <1>2 DEF Shapes
<1>5. order' \in [Orders -> OrderRow] /\ order'[o] = x /\ \A p \in Orders \ {o} : order'[p] = order[p]
  BY <1>1, <1>3, <1>4 DEF Shapes
<1>6. Shapes'
  BY <1>1, <1>5 DEF Shapes, Quiet
<1>7. Local(o)
  BY <1>1, <1>3, <1>5, SameRow DEF Local, Quiet
<1>8. OrderInv(o)'
  BY <1>1, <1>3, <1>5 DEF OrderInv, Quiet, Buying, Reversing, Undoing, Releasing, Passed, Applied
<1>9. ClawInv(o)' /\ ReadInv(o)'
  BY <1>1, NoReading, IdleReadsNothing DEF Passed
<1>10. member' = member /\ skipped' = skipped
  BY <1>1 DEF Quiet
<1>11. Shown(o)
  BY <1>1, <1>3, <1>5, <1>7, <1>8, <1>9, <1>10, SameRowShown DEF ListedInv, Passed, Blame, Applied
<1> QED
  BY <1>6, <1>7, <1>11, LocalKeeps

LEMMA StartReleaseKeeps ==
    ASSUME Inv, NEW o \in Orders, StartRelease(o)
    PROVE  Inv'
<1>1. /\ Shapes /\ OrderInv(o) /\ ListedInv(o) /\ OthersInv(o)
      /\ Quiet /\ order' = order /\ marked' = marked /\ current' = current /\ o \in marked
  BY Here DEF StartRelease, rows, history, Quiet
<1>2. "release" \in HandlerPcs
  BY DEF HandlerPcs, Reversing, Releasing
<1>3. /\ handler' \in [Orders -> HandlerRow] /\ handler[o].pc = "idle" /\ handler'[o].pc = "release"
      /\ handler'[o].releasing = FALSE /\ handler'[o].others = {}
      /\ \A p \in Orders \ {o} : handler'[p] = handler[p]
  BY <1>1, <1>2, BeginDoes DEF StartRelease
<1>4. Shapes'
  BY <1>1, <1>3 DEF Shapes, Quiet
<1>5. Local(o)
  BY <1>1, <1>3, SameRow DEF Local, Quiet
<1>6. OrderInv(o)'
  BY <1>1, <1>3 DEF OrderInv, Quiet, Buying, Reversing, Undoing, Releasing, Passed, Applied
<1>7. ClawInv(o)' /\ ReadInv(o)'
  BY <1>1, <1>3, NoReading, IdleReadsNothing DEF Passed
<1>8. member' = member /\ skipped' = skipped
  BY <1>1 DEF Quiet
<1>9. Shown(o)
  BY <1>1, <1>3, <1>5, <1>6, <1>7, <1>8, SameRowShown DEF ListedInv, Passed, Blame
<1> QED
  BY <1>4, <1>5, <1>9, LocalKeeps

LEMMA StartReverseKeeps ==
    ASSUME Inv, NEW o \in Orders, NEW why \in {"Refund", "DisputeLost"}, NEW inWindow \in BOOLEAN,
           StartReverse(o, why, inWindow)
    PROVE  Inv'
<1>1. /\ Shapes /\ OrderInv(o) /\ ListedInv(o) /\ OthersInv(o) /\ order[o] \in OrderRow
      /\ Quiet /\ current' = current /\ order[o].state = "Fulfilled"
      /\ marked' \subseteq marked /\ \A p \in Orders \ {o} : p \in marked' <=> p \in marked
      /\ order' = [order EXCEPT ![o].reversed = TRUE]
  BY Here DEF StartReverse, rows, history, Quiet
<1>2. PICK pc : /\ pc = (IF o \in marked' THEN "release" ELSE IF inWindow THEN "plan" ELSE "revoke")
                /\ Begin(o, pc, why)
  BY DEF StartReverse
<1>3. pc \in HandlerPcs /\ pc \in {"release", "plan", "revoke"}
  BY <1>2 DEF HandlerPcs, Reversing, Undoing, Releasing
<1>4. /\ handler' \in [Orders -> HandlerRow] /\ handler[o].pc = "idle" /\ handler'[o].pc = pc
      /\ handler'[o].releasing = FALSE /\ handler'[o].others = {}
      /\ \A p \in Orders \ {o} : handler'[p] = handler[p]
  <2>1. Shapes /\ Begin(o, pc, why)
    BY <1>1, <1>2
  <2> QED
    BY ONLY <1>3, <2>1, why \in {"Refund", "DisputeLost"}, o \in Orders, BeginDoes
<1>5. PICK x : x = [order[o] EXCEPT !.reversed = TRUE]
  OBVIOUS
<1>6. x \in OrderRow /\ x.state = "Fulfilled" /\ x.from = order[o].from /\ x.to = order[o].to /\ x.home = order[o].home
      /\ x.reversed = TRUE
  BY <1>1, <1>5 DEF OrderRow
<1>7. order' \in [Orders -> OrderRow] /\ order'[o] = x /\ \A p \in Orders \ {o} : order'[p] = order[p]
  BY <1>1, <1>5, <1>6 DEF Shapes
<1>8. Shapes'
  BY <1>1, <1>4, <1>7 DEF Shapes, Quiet
<1>9. Local(o)
  BY <1>1, <1>4, <1>6, <1>7, SameRow DEF Local, Quiet
<1>10. OrderInv(o)'
  BY <1>1, <1>2, <1>3, <1>4, <1>6, <1>7
     DEF OrderInv, Quiet, Buying, Reversing, Undoing, Releasing, Passed, Applied
<1>11. ClawInv(o)' /\ ReadInv(o)'
  BY <1>1, <1>4, NoReading, IdleReadsNothing DEF Passed
<1>12. member' = member /\ skipped' = skipped
  BY <1>1 DEF Quiet
<1>13. Shown(o)
  BY <1>1, <1>3, <1>4, <1>6, <1>7, <1>9, <1>10, <1>11, <1>12, SameRowShown DEF ListedInv, Passed, Blame, Applied
<1> QED
  BY <1>8, <1>9, <1>13, LocalKeeps

LEMMA JudgeKeeps ==
    ASSUME Inv, NEW o \in Orders, Judge(o)
    PROVE  Inv'
<1>1. /\ Shapes /\ OrderInv(o) /\ ListedInv(o) /\ OthersInv(o) /\ order[o].state = "Paid"
      /\ Quiet /\ marked' = marked /\ handler[o].pc = "judge" /\ claws[o] = None
      /\ o \notin marked /\ o \notin skipped /\ o \notin released
      /\ <<o, "row">> \notin current /\ <<o, "claw">> \notin current
  <2>1. handler[o].pc = "judge" /\ OrderInv(o)
    BY Here DEF Judge, At
  <2>2. <<o, "row">> \notin current /\ <<o, "claw">> \notin current
    BY <2>1, IdleReadsNothing DEF Passed
  <2> QED
    BY <2>1, <2>2, Here DEF Judge, rows, history, Quiet, OrderInv, Buying, Applied
<1>2. member' = member /\ skipped' = skipped
  BY <1>1 DEF Quiet
<1>3. CASE \E pc \in {"fulfil", "apply"} : /\ Goto(o, pc) /\ (pc = "apply" => ~Listed(o))
                                           /\ order' = order /\ current' = current
  <2>1. PICK pc \in {"fulfil", "apply"} : /\ Goto(o, pc) /\ (pc = "apply" => ~Listed(o))
                                          /\ order' = order /\ current' = current
    BY <1>3
  <2>2. pc \in HandlerPcs
    BY DEF HandlerPcs, Buying
  <2>3. /\ handler' \in [Orders -> HandlerRow] /\ handler'[o].pc = pc
        /\ handler'[o].releasing = handler[o].releasing /\ handler'[o].others = handler[o].others
        /\ \A p \in Orders \ {o} : handler'[p] = handler[p]
    BY <1>1, <2>1, <2>2, GotoDoes
  <2>4. Shapes'
    BY <1>1, <2>1, <2>3 DEF Shapes, Quiet
  <2>5. Local(o)
    BY <1>1, <2>1, <2>3, SameRow DEF Local, Quiet
  <2>6. OrderInv(o)'
    BY <1>1, <2>1, <2>3 DEF OrderInv, Quiet, Buying, Reversing, Undoing, Releasing, Passed, Applied
  <2>7. ClawInv(o)' /\ ReadInv(o)'
    BY <1>1, <2>1, NoReading
  <2>8. Shown(o)
    BY <1>1, <1>2, <2>1, <2>3, <2>5, <2>6, <2>7, SameRowShown DEF Passed, Blame, Applied
  <2> QED
    BY <2>4, <2>5, <2>8, LocalKeeps
<1>4. CASE ~Listed(o) /\ Finish(o) /\ OrderIs(o, "Voided")
  <2>1. /\ handler' \in [Orders -> HandlerRow] /\ handler'[o].pc = "idle"
        /\ handler'[o].releasing = FALSE /\ handler'[o].others = {}
        /\ \A p \in Orders \ {o} : handler'[p] = handler[p]
        /\ current' \subseteq current /\ <<o, "row">> \notin current' /\ <<o, "claw">> \notin current'
    BY <1>1, <1>4, FinishDoes
  <2>2. /\ order' \in [Orders -> OrderRow] /\ order'[o].state = "Voided"
        /\ order'[o].from = order[o].from /\ order'[o].to = order[o].to /\ order'[o].home = order[o].home
        /\ order'[o].pending = order[o].pending /\ order'[o].reversed = order[o].reversed
        /\ \A p \in Orders \ {o} : order'[p] = order[p]
    BY <1>1, <1>4, OrderIsDoes
  <2>3. Shapes'
    BY <1>1, <2>1, <2>2 DEF Shapes, Quiet
  <2>4. Local(o)
    BY <1>1, <2>1, <2>2, SameRow DEF Local, Quiet
  <2>5. OrderInv(o)'
    BY <1>1, <2>1, <2>2 DEF OrderInv, Quiet, Buying, Reversing, Undoing, Releasing, Passed, Applied
  <2>6. Shown(o)
    BY <1>1, <1>2, <1>4, <2>1, <2>4, <2>5, NothingShown DEF Passed, Blame
  <2> QED
    BY <2>3, <2>4, <2>6, LocalKeeps
<1> QED
  BY <1>3, <1>4 DEF Judge

\* The void of apply_membership
LEMMA ApplyVoidKeeps ==
    ASSUME Inv, NEW o \in Orders, Apply(o), ~Applicable(o)
    PROVE  Inv'
<1>1. /\ Shapes /\ OrderInv(o) /\ ListedInv(o) /\ OthersInv(o) /\ order[o].state = "Paid" /\ ~Listed(o)
      /\ Quiet /\ marked' = marked /\ handler[o].pc = "apply" /\ claws[o] = None
      /\ o \notin marked /\ o \notin skipped /\ o \notin released
      /\ Finish(o) /\ OrderIs(o, "Voided")
  <2>1. handler[o].pc = "apply" /\ OrderInv(o) /\ ListedInv(o)
    BY Here DEF Apply, At
  <2> QED
    BY <2>1, Here DEF Apply, rows, Quiet, OrderInv, ListedInv, Buying, Applied
<1>2. member' = member /\ skipped' = skipped
  BY <1>1 DEF Quiet
<1>3. /\ handler' \in [Orders -> HandlerRow] /\ handler'[o].pc = "idle"
      /\ handler'[o].releasing = FALSE /\ handler'[o].others = {}
      /\ \A p \in Orders \ {o} : handler'[p] = handler[p]
      /\ current' \subseteq current /\ <<o, "row">> \notin current' /\ <<o, "claw">> \notin current'
  BY <1>1, FinishDoes
<1>4. /\ order' \in [Orders -> OrderRow] /\ order'[o].state = "Voided"
      /\ order'[o].from = order[o].from /\ order'[o].to = order[o].to /\ order'[o].home = order[o].home
      /\ order'[o].pending = order[o].pending /\ order'[o].reversed = order[o].reversed
      /\ \A p \in Orders \ {o} : order'[p] = order[p]
  BY <1>1, OrderIsDoes
<1>5. Shapes'
  BY <1>1, <1>3, <1>4 DEF Shapes, Quiet
<1>6. Local(o)
  BY <1>1, <1>3, <1>4, SameRow DEF Local, Quiet
<1>7. OrderInv(o)'
  BY <1>1, <1>3, <1>4 DEF OrderInv, Quiet, Buying, Reversing, Undoing, Releasing, Passed, Applied
<1>8. Shown(o)
  BY <1>1, <1>2, <1>3, <1>6, <1>7, NothingShown DEF Passed, Blame
<1> QED
  BY <1>5, <1>6, <1>8, LocalKeeps

LEMMA FulfilKeeps ==
    ASSUME Inv, NEW o \in Orders, Fulfil(o)
    PROVE  Inv'
<1>1. /\ Shapes /\ OrderInv(o) /\ ListedInv(o) /\ OthersInv(o) /\ order[o].state = "Paid"
      /\ Quiet /\ marked' = marked /\ handler[o].pc = "fulfil" /\ OrderIs(o, "Fulfilled")
      /\ o \notin marked
      /\ <<o, "row">> \notin current /\ <<o, "claw">> \notin current
  <2>1. handler[o].pc = "fulfil" /\ OrderInv(o)
    BY Here DEF Fulfil, At
  <2>2. <<o, "row">> \notin current /\ <<o, "claw">> \notin current
    BY <2>1, IdleReadsNothing DEF Passed
  <2> QED
    BY <2>1, <2>2, Here DEF Fulfil, rows, history, Quiet, OrderInv, Buying, Applied
<1>2. member' = member /\ skipped' = skipped
  BY <1>1 DEF Quiet
<1>3. /\ order' \in [Orders -> OrderRow] /\ order'[o].state = "Fulfilled"
      /\ order'[o].from = order[o].from /\ order'[o].to = order[o].to /\ order'[o].home = order[o].home
      /\ order'[o].pending = order[o].pending /\ order'[o].reversed = order[o].reversed
      /\ \A p \in Orders \ {o} : order'[p] = order[p]
  BY <1>1, OrderIsDoes
<1>4. /\ handler' \in [Orders -> HandlerRow] /\ handler'[o].pc \in {"idle", "revoke"}
      /\ (handler'[o].pc = "revoke" => order[o].pending)
      /\ ~handler'[o].releasing /\ handler'[o].others \subseteq handler[o].others
      /\ \A p \in Orders \ {o} : handler'[p] = handler[p]
      /\ current' \subseteq current
  <2>1. CASE order[o].pending
    <3>1. "revoke" \in HandlerPcs /\ Goto(o, "revoke") /\ current' = current
      BY <2>1 DEF Fulfil, HandlerPcs, Reversing, Undoing
    <3>2. ~handler[o].releasing
      BY <1>1 DEF OrderInv, Reversing, Undoing, Releasing, Passed
    <3> QED
      BY <1>1, <2>1, <3>1, <3>2, GotoDoes
  <2>2. CASE ~order[o].pending
    BY <1>1, <2>2, FinishDoes DEF Fulfil
  <2> QED
    BY <2>1, <2>2
<1>5. Shapes'
  BY <1>1, <1>3, <1>4 DEF Shapes, Quiet
<1>6. Local(o)
  BY <1>1, <1>3, <1>4, SameRow DEF Local, Quiet
<1>7. OrderInv(o)'
  BY <1>1, <1>3, <1>4 DEF OrderInv, Quiet, Buying, Reversing, Undoing, Releasing, Passed, Applied
<1>8. ClawInv(o)' /\ ReadInv(o)'
  BY <1>1, <1>4, NoReading
<1>9. Shown(o)
  BY <1>1, <1>2, <1>3, <1>4, <1>6, <1>7, <1>8, SameRowShown DEF Passed, Blame, Applied
<1> QED
  BY <1>5, <1>6, <1>9, LocalKeeps

LEMMA CrashKeeps ==
    ASSUME Inv, NEW o \in Orders, Crash(o)
    PROVE  Inv'
<1>1. /\ Shapes /\ OrderInv(o) /\ ListedInv(o) /\ Quiet /\ marked' = marked /\ order' = order /\ Finish(o)
  BY Here DEF Crash, rows, history, Quiet
<1>2. member' = member /\ skipped' = skipped
  BY <1>1 DEF Quiet
<1>3. /\ handler' \in [Orders -> HandlerRow] /\ handler'[o].pc = "idle"
      /\ handler'[o].releasing = FALSE /\ handler'[o].others = {}
      /\ \A p \in Orders \ {o} : handler'[p] = handler[p]
      /\ current' \subseteq current /\ <<o, "row">> \notin current' /\ <<o, "claw">> \notin current'
  BY <1>1, FinishDoes
<1>4. Shapes'
  BY <1>1, <1>3 DEF Shapes, Quiet
<1>5. Local(o)
  BY <1>1, <1>3, SameRow DEF Local, Quiet
<1>6. OrderInv(o)'
  BY <1>1, <1>3 DEF OrderInv, Quiet, Buying, Reversing, Undoing, Releasing, Passed, Applied
<1>7. ClawInv(o)' /\ ReadInv(o)'
  BY <1>3, NoReading
<1>8. Shown(o)
  BY <1>1, <1>2, <1>3, <1>5, <1>6, <1>7, SameRowShown DEF Passed, Blame, ListedInv
<1> QED
  BY <1>4, <1>5, <1>8, LocalKeeps

\* A write of the row that keeps its orders and its tier: no reading outlives it
LEMMA RowWriteShown ==
    ASSUME Inv, NEW o \in Orders, Local(o), OrderInv(o)', member # None, current' = {},
           order'[o] = order[o],
           handler'[o].pc \notin Passed \cup {"refunded"} \/ handler'[o].pc = handler[o].pc,
           handler'[o].pc = "apply" => handler[o].pc = "apply",
           handler'[o].pc \in {"claw", "commit"} /\ Listed(o) => ~Active' \/ handler[o].pc = handler'[o].pc,
           (Active' <=> Active) \/ Blame(o)'
    PROVE  Shown(o)
<1>1. /\ (Active' => Active) /\ Base' = Base /\ Posted(o)' = Posted(o)
      /\ (Listed(o)' <=> Listed(o)) /\ (Incumbent(o)' <=> Incumbent(o))
  BY RowKeptDoes, SamePosted DEF Local
<1>2. claws'[o] = claws[o]
  BY DEF Local
<1>3. ListedInv(o) /\ PostedInv(o)
  BY Here
<1>4. ListedInv(o)'
  BY <1>1, <1>2, <1>3 DEF ListedInv
<1>5. ClawInv(o)' /\ ReadInv(o)'
  BY NoReading
<1>6. handler'[o].pc \in Passed /\ Incumbent(o) => Posted(o) = 0
  BY <1>3 DEF PostedInv
<1>7. Blame(o) => Blame(o)'
  BY <1>1, <1>2 DEF Blame
<1> QED
  BY <1>4, <1>5, <1>6, <1>7 DEF Shown

LEMMA LostAfterRefundKeeps ==
    ASSUME Inv, NEW o \in Orders, LostAfterRefund(o)
    PROVE  Inv'
<1>1. /\ Shapes /\ RowInv /\ OrderInv(o) /\ ListedInv(o) /\ OthersInv(o) /\ order' = order /\ handler' = handler
      /\ marked' = marked /\ granted' = granted /\ claws' = claws /\ balance' = balance /\ sync' = sync
      /\ replaced' = replaced /\ released' = released /\ cut' = cut /\ skipped' = skipped
      /\ handler[o].pc = "idle" /\ member \in MemberRow /\ member # None /\ member.reason = "Refund"
      /\ current' = {} /\ member' = [member EXCEPT !.reason = "DisputeLost"]
  BY Here DEF LostAfterRefund, rows, history, WriteRow, At, Shapes, Listed
<1>2. /\ member' \in MemberRow /\ member'.orders = member.orders /\ member'.tier = member.tier
      /\ member'.active = member.active /\ member'.reason = "DisputeLost"
  BY <1>1 DEF MemberRow
<1>3. RowKept
  BY <1>1, <1>2, FoundingNames DEF RowKept, RowInv
<1>4. Shapes'
  BY <1>1, <1>2 DEF Shapes
<1>5. Local(o)
  BY <1>1, <1>3 DEF Local
<1>6. OrderInv(o)'
  BY <1>1 DEF OrderInv
<1>7. Active' <=> Active
  BY <1>1, <1>2, FoundingNames DEF Active
<1>8. Shown(o)
  BY <1>1, <1>5, <1>6, <1>7, RowWriteShown
<1> QED
  BY <1>4, <1>5, <1>8, LocalKeeps

LEMMA DisputeKeeps ==
    ASSUME Inv, NEW o \in Orders, Dispute(o)
    PROVE  Inv'
<1>1. /\ Shapes /\ RowInv /\ OrderInv(o) /\ ListedInv(o) /\ OthersInv(o) /\ order' = order /\ handler' = handler
      /\ marked' = marked /\ granted' = granted /\ claws' = claws /\ balance' = balance /\ sync' = sync
      /\ replaced' = replaced /\ released' = released /\ cut' = cut /\ skipped' = skipped
      /\ handler[o].pc = "idle" /\ member \in MemberRow /\ member # None
      /\ current' = {}
      /\ member' = [member EXCEPT !.disputed = IF o \in @ THEN @ \ {o} ELSE @ \cup {o}]
  BY Here DEF Dispute, rows, history, WriteRow, At, Shapes, Listed
<1>2. /\ member' \in MemberRow /\ member'.orders = member.orders /\ member'.tier = member.tier
      /\ member'.active = member.active /\ member'.reason = member.reason
  <2>1. PICK d : d = (IF o \in member.disputed THEN member.disputed \ {o} ELSE member.disputed \cup {o})
    OBVIOUS
  <2>2. d \subseteq Orders
    BY <1>1, <2>1 DEF MemberRow
  <2>3. member' = [member EXCEPT !.disputed = d]
    BY <1>1, <2>1 DEF MemberRow
  <2> QED
    BY <1>1, <2>2, <2>3 DEF MemberRow
<1>3. RowKept
  BY <1>1, <1>2, FoundingNames DEF RowKept, RowInv
<1>4. Shapes'
  BY <1>1, <1>2 DEF Shapes
<1>5. Local(o)
  BY <1>1, <1>3 DEF Local
<1>6. OrderInv(o)'
  BY <1>1 DEF OrderInv
<1>7. Active' <=> Active
  BY <1>1, <1>2, FoundingNames DEF Active
<1>8. Shown(o)
  BY <1>1, <1>5, <1>6, <1>7, RowWriteShown
<1> QED
  BY <1>4, <1>5, <1>8, LocalKeeps

LEMMA RevokeKeeps ==
    ASSUME Inv, NEW o \in Orders, Revoke(o)
    PROVE  Inv'
<1>1. /\ Shapes /\ RowInv /\ OrderInv(o) /\ ListedInv(o) /\ OthersInv(o) /\ order' = order
      /\ marked' = marked /\ granted' = granted /\ claws' = claws /\ balance' = balance /\ sync' = sync
      /\ replaced' = replaced /\ released' = released /\ cut' = cut /\ skipped' = skipped
      /\ handler[o].pc = "revoke" /\ Goto(o, "claw") /\ handler[o] \in HandlerRow
  BY Here DEF Revoke, rows, history, At
<1>2. "claw" \in HandlerPcs
  BY DEF HandlerPcs, Reversing
<1>3. /\ handler' \in [Orders -> HandlerRow] /\ handler'[o].pc = "claw"
      /\ handler'[o].releasing = handler[o].releasing /\ handler'[o].others = handler[o].others
      /\ \A p \in Orders \ {o} : handler'[p] = handler[p]
  BY <1>1, <1>2, GotoDoes
<1>4. order[o].state = "Fulfilled" /\ order[o].reversed
  BY <1>1 DEF OrderInv, Reversing, Undoing
<1>5. OrderInv(o)'
  BY <1>1, <1>3, <1>4 DEF OrderInv, Buying, Reversing, Undoing, Releasing, Passed, Applied
<1>6. PICK reason : reason = (IF Active \/ (handler[o].why = "DisputeLost" /\ member.reason = "Refund")
                              THEN handler[o].why ELSE member.reason)
  OBVIOUS
<1>7. PICK disputed : disputed = (IF handler[o].why = "DisputeLost" THEN member.disputed \ {o} ELSE member.disputed)
  OBVIOUS
<1>8. PICK row : row = [member EXCEPT !.active = FALSE, !.reason = reason, !.disputed = disputed]
  OBVIOUS
<1>9. IF Listed(o) /\ row # member THEN WriteRow(row) ELSE UNCHANGED <<member, current>>
  BY <1>6, <1>7, <1>8 DEF Revoke
<1>10. CASE Listed(o) /\ row # member
  <2>1. member' = row /\ current' = {} /\ member \in MemberRow /\ member # None
    BY <1>1, <1>9, <1>10 DEF WriteRow, Shapes, Listed
  <2>2. reason \in {"Refund", "DisputeLost"}
    BY <1>1, <1>6, <2>1 DEF HandlerRow, RowInv, Active, MemberRow
  <2>3. disputed \in SUBSET Orders
    BY <1>7, <2>1 DEF MemberRow
  <2>4. /\ row \in MemberRow /\ row.orders = member.orders /\ row.tier = member.tier
        /\ row.active = FALSE /\ row.reason # "None"
    BY <1>8, <2>1, <2>2, <2>3 DEF MemberRow
  <2>5. RowKept
    BY <2>1, <2>4, FoundingNames DEF RowKept
  <2>6. Shapes'
    BY <1>1, <1>3, <2>1, <2>4 DEF Shapes
  <2>7. Local(o)
    BY <1>1, <1>3, <2>1, <2>5 DEF Local
  <2>8. ~Active'
    BY <2>1, <2>4 DEF Active
  <2>9. Active => Blame(o)'
    <3>1. order'[o].home = Base' /\ (Active => claws'[o] = None)
      BY <1>1, <1>10, <2>1, <2>5, RowKeptDoes DEF ListedInv
    <3> QED
      BY <1>1, <1>3, <1>4, <2>8, <3>1 DEF Blame, Passed
  <2>10. Shown(o)
    BY <1>1, <1>3, <1>5, <2>1, <2>7, <2>8, <2>9, RowWriteShown DEF Passed
  <2> QED
    BY <2>6, <2>7, <2>10, LocalKeeps
<1>11. CASE ~(Listed(o) /\ row # member)
  <2>1. member' = member /\ current' = current
    BY <1>9, <1>11
  <2>2. Listed(o) => ~Active
    <3>1. SUFFICES ASSUME Listed(o) PROVE ~Active
      OBVIOUS
    <3>2. member \in MemberRow /\ member = row
      BY <1>1, <1>11, <3>1 DEF Shapes, Listed
    <3>3. row.active = FALSE
      BY <1>8, <3>2 DEF MemberRow
    <3> QED
      BY <3>2, <3>3 DEF Active
  <2>3. Shapes'
    BY <1>1, <1>3, <2>1 DEF Shapes
  <2>4. Local(o)
    BY <1>1, <1>3, <2>1, SameRow DEF Local
  <2>5. ClawInv(o)' /\ ReadInv(o)'
    BY <1>1, <2>1, NoReading, IdleReadsNothing DEF Passed
  <2>6. Shown(o)
    BY <1>1, <1>3, <1>4, <1>5, <2>1, <2>2, <2>4, <2>5, SameRowShown DEF Passed, Blame, Applied
  <2> QED
    BY <2>3, <2>4, <2>6, LocalKeeps
<1> QED
  BY <1>10, <1>11

\* A step that only moves the handler
LEMMA MoveKeeps ==
    ASSUME Inv, NEW o \in Orders, Quiet, order' = order, marked' = marked,
           NEW pc \in HandlerPcs, Goto(o, pc), current' \subseteq current \cup ({o} \X {"row", "claw"}),
           pc \notin Buying, handler[o].pc \in Reversing,
           pc \in Undoing => order[o].state = "Fulfilled",
           pc \in Releasing => order[o].from = 0,
           handler[o].releasing => pc \in Reversing,
           pc = "idle" => ~handler[o].releasing,
           ClawInv(o)', ReadInv(o)',
           /\ Listed(o)
           /\ \/ pc \in {"claw", "commit"}
              \/ pc \in Passed \cup {"refunded"} /\ order[o].from = 0
           => ~Active,
           pc \in Passed /\ Incumbent(o) => Posted(o) = 0,
           member # None /\ Posted(Base) > Target /\ Blame(o) => pc \notin Passed \cup {"refunded"}
    PROVE  Inv'
<1>1. Shapes /\ OrderInv(o) /\ ListedInv(o) /\ member' = member /\ skipped' = skipped
  BY Here DEF Quiet
<1>2. /\ handler' \in [Orders -> HandlerRow] /\ handler'[o].pc = pc
      /\ handler'[o].releasing = handler[o].releasing /\ handler'[o].others = handler[o].others
      /\ \A p \in Orders \ {o} : handler'[p] = handler[p]
  BY <1>1, GotoDoes
<1>3. Shapes'
  BY <1>1, <1>2 DEF Shapes, Quiet
<1>4. Local(o)
  BY <1>1, <1>2, SameRow DEF Local, Quiet
<1>5. OrderInv(o)'
  BY <1>1, <1>2 DEF OrderInv, Quiet
<1>6. Shown(o)
  BY <1>1, <1>2, <1>4, <1>5, SameRowShown DEF Blame, ListedInv, Buying
<1> QED
  BY <1>3, <1>4, <1>6, LocalKeeps

LEMMA PlanKeeps ==
    ASSUME Inv, NEW o \in Orders, Plan(o)
    PROVE  Inv'
<1>1. /\ OrderInv(o) /\ ListedInv(o) /\ Quiet /\ order' = order /\ marked' = marked /\ handler[o].pc = "plan"
      /\ Shapes /\ member' = member
      /\ <<o, "row">> \notin current /\ <<o, "claw">> \notin current
  <2>1. handler[o].pc = "plan"
    BY DEF Plan, At
  <2>2. <<o, "row">> \notin current /\ <<o, "claw">> \notin current
    BY <2>1, IdleReadsNothing DEF Passed
  <2> QED
    BY <2>1, <2>2, Here DEF Plan, rows, history, Quiet
<1>2. order[o].state = "Fulfilled" /\ handler[o].pc \in Reversing
  BY <1>1 DEF OrderInv, Reversing, Undoing
<1>3. CASE Undo(o) = "downgrade" /\ Goto(o, "downgrade") /\ Read(<<o, "row">>)
  <2>1. "downgrade" \in HandlerPcs
    BY DEF HandlerPcs, Reversing, Undoing
  <2>2. current' \subseteq current \cup ({o} \X {"row", "claw"}) /\ <<o, "claw">> \notin current'
    BY <1>1, <1>3 DEF Read
  <2>3. handler'[o].pc = "downgrade"
    BY <1>1, <1>3, <2>1, GotoDoes
  <2>4. Undo(o)' = Undo(o) /\ Listed(o)'
    BY <1>1, <1>3, SameRow DEF Undo
  <2>5. ClawInv(o)' /\ ReadInv(o)'
    BY <1>3, <2>2, <2>3, <2>4 DEF ClawInv, ReadInv, Current
  <2> QED
    BY <1>1, <1>2, <1>3, <2>1, <2>2, <2>5, MoveKeeps DEF Buying, Reversing, Undoing, Releasing, Passed
<1>4. CASE \E pc \in {"mark", "refunded", "revoke"} :
              /\ Goto(o, pc) /\ current' = current
              /\ pc = "mark" => Undo(o) = "release"
              /\ pc = "refunded" => Undo(o) = "stacked"
  <2>1. PICK pc \in {"mark", "refunded", "revoke"} :
              /\ Goto(o, pc) /\ current' = current
              /\ pc = "mark" => Undo(o) = "release"
              /\ pc = "refunded" => Undo(o) = "stacked"
    BY <1>4
  <2>2. pc \in HandlerPcs /\ pc \notin Buying /\ pc \notin Passed /\ pc \in Reversing /\ pc # "idle"
    BY DEF HandlerPcs, Reversing, Undoing, Releasing, Passed, Buying
  <2>3. ClawInv(o)' /\ ReadInv(o)'
    BY <1>1, <2>1, NoReading
  <2>4. pc \in Releasing => order[o].from = 0
    BY <2>1 DEF Undo, Releasing, Passed
  <2>5. pc = "refunded" => order[o].from # 0 /\ Listed(o) /\ Active
    BY <2>1 DEF Undo
  <2>6. pc = "refunded" => ~Blame(o)
    BY <2>5 DEF Blame
  <2> QED
    BY <1>1, <1>2, <2>1, <2>2, <2>3, <2>4, <2>5, <2>6, MoveKeeps
<1> QED
  BY <1>3, <1>4 DEF Plan

\* The reading was out of date: back to the plan
LEMMA DowngradeStaleKeeps ==
    ASSUME Inv, NEW o \in Orders, Downgrade(o), ~Current(<<o, "row">>)
    PROVE  Inv'
<1>1. /\ OrderInv(o) /\ ListedInv(o) /\ Quiet /\ order' = order /\ marked' = marked /\ handler[o].pc = "downgrade"
      /\ Goto(o, "plan") /\ current' = current /\ <<o, "row">> \notin current
  BY Here DEF Downgrade, rows, history, Quiet, At, Current
<1>2. <<o, "claw">> \notin current
  BY <1>1, IdleReadsNothing
<1>3. ClawInv(o)' /\ ReadInv(o)'
  BY <1>1, <1>2, NoReading
<1>4. order[o].state = "Fulfilled" /\ handler[o].pc \in Reversing
  BY <1>1 DEF OrderInv, Reversing, Undoing
<1>5. "plan" \in HandlerPcs /\ "plan" \notin Buying /\ "plan" \in Reversing /\ "plan" \notin Releasing /\ "plan" \notin Passed
  BY DEF HandlerPcs, Reversing, Undoing, Releasing, Passed, Buying
<1> QED
  BY <1>1, <1>3, <1>4, <1>5, MoveKeeps

LEMMA CommitStaleKeeps ==
    ASSUME Inv, NEW o \in Orders, Commit(o), ~Current(<<o, "claw">>)
    PROVE  Inv'
<1>1. /\ OrderInv(o) /\ ListedInv(o) /\ ReadInv(o) /\ Quiet /\ order' = order /\ marked' = marked
      /\ handler[o].pc = "commit" /\ Shapes /\ member' = member /\ granted' = granted /\ claws' = claws
      /\ Goto(o, "claw") /\ current' = current /\ <<o, "claw">> \notin current
  BY Here DEF Commit, rows, history, Quiet, At, Current
<1>2. "claw" \in HandlerPcs /\ "claw" \notin Buying /\ "claw" \in Reversing /\ "claw" \notin Releasing
      /\ "claw" \notin Passed /\ "claw" \notin Undoing /\ handler[o].pc \in Reversing
  BY <1>1 DEF HandlerPcs, Reversing, Undoing, Releasing, Passed, Buying
<1>3. handler'[o].pc = "claw" /\ handler'[o].releasing = handler[o].releasing
  BY <1>1, <1>2, GotoDoes
<1>4. ClawInv(o)'
  BY <1>1 DEF ClawInv, Current
<1>5. ReadInv(o)'
  BY <1>1, <1>3, SameRow DEF ReadInv, Current
<1>6. Listed(o) => ~Active
  BY <1>1 DEF ListedInv
<1> QED
  BY <1>1, <1>2, <1>4, <1>5, <1>6, MoveKeeps

LEMMA DeleteStaleKeeps ==
    ASSUME Inv, NEW o \in Orders, Delete(o), ~Current(<<o, "row">>)
    PROVE  Inv'
<1>1. /\ OrderInv(o) /\ ListedInv(o) /\ Quiet /\ order' = order /\ marked' = marked /\ handler[o].pc = "delete"
      /\ Goto(o, "release") /\ current' = current /\ <<o, "row">> \notin current
  BY Here DEF Delete, rows, history, Quiet, At, Current
<1>2. <<o, "claw">> \notin current
  BY <1>1, IdleReadsNothing
<1>3. ClawInv(o)' /\ ReadInv(o)'
  BY <1>1, <1>2, NoReading
<1>4. order[o].from = 0 /\ handler[o].pc \in Reversing
  BY <1>1 DEF OrderInv, Reversing, Releasing, Passed
<1>5. "release" \in HandlerPcs /\ "release" \notin Buying /\ "release" \in Reversing /\ "release" \notin Undoing
      /\ "release" \notin Passed
  BY DEF HandlerPcs, Reversing, Undoing, Releasing, Passed, Buying
<1> QED
  BY <1>1, <1>3, <1>4, <1>5, MoveKeeps

LEMMA CheckKeeps ==
    ASSUME Inv, NEW o \in Orders, Check(o)
    PROVE  Inv'
<1>1. /\ OrderInv(o) /\ ListedInv(o) /\ PostedInv(o) /\ ReadInv(o) /\ Quiet /\ order' = order /\ marked' = marked
      /\ handler[o].pc = "check" /\ Shapes /\ member' = member /\ granted' = granted /\ claws' = claws
      /\ current' = current
  BY Here DEF Check, rows, history, Quiet, At
<1>2. PICK pc : /\ pc = (IF handler[o].stays \/ Shortfall(o) > 0 THEN "record" ELSE "upgrades")
                /\ Goto(o, pc)
  BY DEF Check
<1>3. pc \in HandlerPcs /\ pc \notin Buying /\ pc \in Reversing /\ pc \notin Undoing /\ pc \in Passed
      /\ pc # "idle" /\ handler[o].pc \in Reversing /\ handler[o].pc \in Passed /\ handler[o].pc \in Releasing
  BY <1>1, <1>2 DEF HandlerPcs, Reversing, Undoing, Releasing, Passed, Buying
<1>4. handler'[o].pc = pc
  BY <1>1, <1>2, <1>3, GotoDoes
<1>5. ClawInv(o)'
  BY <1>1, IdleReadsNothing DEF ClawInv, Current
<1>6. Shortfall(o)' = Shortfall(o) /\ Shortfall(o) \in Nat
  BY <1>1, SamePosted, ShortfallNat
<1>7. ReadInv(o)'
  BY <1>1, <1>2, <1>3, <1>4, <1>6, SameRow DEF ReadInv, Current
<1>8. (Listed(o) => ~Active) /\ order[o].from = 0
  BY <1>1, <1>3 DEF ListedInv, OrderInv
<1>9. ~Blame(o) /\ (Incumbent(o) => Posted(o) = 0)
  BY <1>1, <1>3 DEF Blame, PostedInv
<1> QED
  BY <1>1, <1>2, <1>3, <1>5, <1>7, <1>8, <1>9, MoveKeeps

LEMMA RefundedKeeps ==
    ASSUME Inv, NEW o \in Orders, Refunded(o)
    PROVE  Inv'
<1>1. /\ Shapes /\ OrderInv(o) /\ ListedInv(o) /\ Quiet /\ marked' = marked /\ handler[o].pc = "refunded"
      /\ order' = [order EXCEPT ![o].state = "Refunded", ![o].pending = FALSE]
      /\ order[o] \in OrderRow /\ Finish(o)
  BY Here DEF Refunded, rows, history, Quiet, At
<1>2. member' = member /\ skipped' = skipped
  BY <1>1 DEF Quiet
<1>3. /\ handler' \in [Orders -> HandlerRow] /\ handler'[o].pc = "idle"
      /\ handler'[o].releasing = FALSE /\ handler'[o].others = {}
      /\ \A p \in Orders \ {o} : handler'[p] = handler[p]
      /\ current' \subseteq current /\ <<o, "row">> \notin current' /\ <<o, "claw">> \notin current'
  BY <1>1, FinishDoes
<1>4. PICK x : x = [order[o] EXCEPT !.state = "Refunded", !.pending = FALSE]
  OBVIOUS
<1>5. /\ x \in OrderRow /\ x.state = "Refunded" /\ x.from = order[o].from /\ x.to = order[o].to
      /\ x.home = order[o].home /\ x.pending = FALSE /\ x.reversed = order[o].reversed
  BY <1>1, <1>4 DEF OrderRow
<1>6. order' = [order EXCEPT ![o] = x]
  BY <1>1, <1>4 DEF Shapes
<1>7. order' \in [Orders -> OrderRow] /\ order'[o] = x /\ \A p \in Orders \ {o} : order'[p] = order[p]
  BY <1>1, <1>5, <1>6 DEF Shapes
<1>8. Shapes'
  BY <1>1, <1>3, <1>7 DEF Shapes, Quiet
<1>9. Local(o)
  BY <1>1, <1>3, <1>5, <1>7, SameRow DEF Local, Quiet
<1>10. OrderInv(o)'
  BY <1>1, <1>3, <1>5, <1>7 DEF OrderInv, Quiet, Buying, Reversing, Undoing, Releasing, Passed, Applied
<1>11. ClawInv(o)' /\ ReadInv(o)'
  BY <1>3, NoReading
<1>12. Listed(o) /\ order[o].from = 0 => ~Active
  BY <1>1 DEF ListedInv
<1>13. Shown(o)
  BY <1>1, <1>2, <1>3, <1>5, <1>7, <1>9, <1>10, <1>11, <1>12, SameRowShown DEF Passed, Blame, Applied
<1> QED
  BY <1>8, <1>9, <1>13, LocalKeeps

\* Clawed back already, no row, older than the row, or nothing to claw back
LEMMA ClawSettledKeeps ==
    ASSUME Inv, NEW o \in Orders, Claw(o),
           claws[o] # None \/ member = None \/ Older(o) \/ Posted(Base) <= Target
    PROVE  Inv'
<1>1. /\ Shapes /\ RowInv /\ OrderInv(o) /\ ListedInv(o) /\ PostedInv(o) /\ ReadInv(o) /\ OthersInv(o)
      /\ order' = order /\ member' = member /\ marked' = marked /\ granted' = granted /\ claws' = claws
      /\ balance' = balance /\ sync' = sync /\ replaced' = replaced /\ released' = released /\ cut' = cut
      /\ handler[o].pc = "claw" /\ current' = current
      /\ handler[o] \in HandlerRow
      /\ skipped' = IF member # None /\ Older(o) /\ order[o].home = Base THEN skipped \cup {o} ELSE skipped
  BY Here DEF Claw, rows, At
<1>2. PICK pc : pc = AfterClaw(o) /\ Goto(o, pc)
  BY DEF Claw
<1>3. /\ pc \in HandlerPcs /\ pc \in {"check", "refunded"}
      /\ (pc = "check" <=> handler[o].releasing)
  BY <1>1, <1>2 DEF AfterClaw, HandlerPcs, Reversing, Releasing, Passed, HandlerRow
<1>4. /\ handler' \in [Orders -> HandlerRow] /\ handler'[o].pc = pc
      /\ handler'[o].releasing = handler[o].releasing /\ handler'[o].others = handler[o].others
      /\ \A p \in Orders \ {o} : handler'[p] = handler[p]
  BY <1>1, <1>2, <1>3, GotoDoes
<1>5. skipped \subseteq skipped' /\ skipped' \subseteq skipped \cup {o} /\ skipped' \subseteq Orders
  BY <1>1 DEF Shapes
<1>6. Shapes'
  BY <1>1, <1>4, <1>5 DEF Shapes
<1>7. Local(o)
  BY <1>1, <1>4, <1>5, SameRow DEF Local
<1>8. order[o].state \in Applied /\ order[o].reversed
  BY <1>1 DEF OrderInv, Reversing
<1>9. OrderInv(o)'
  BY <1>1, <1>3, <1>4, <1>8 DEF OrderInv, Buying, Reversing, Undoing, Releasing, Passed, Applied
<1>10. ClawInv(o)'
  BY <1>1, IdleReadsNothing DEF ClawInv, Current
<1>11. ReadInv(o)'
  BY <1>1, <1>3, <1>4, SameRow DEF ReadInv, Current, Passed
<1>12. Listed(o) => ~Active
  BY <1>1 DEF ListedInv
<1>13. Incumbent(o) => Posted(o) = 0
  <2>1. SUFFICES ASSUME Incumbent(o) PROVE Posted(o) = 0
    OBVIOUS
  <2>2. member # None /\ Base = o /\ Listed(o)
    BY <1>1, <2>1, BaseListed DEF Incumbent
  <2>3. Target = 0 /\ ~Older(o)
    BY <1>12, <2>2 DEF Target, Older, Orders
  <2>4. claws[o] # None => Posted(o) = 0
    BY <1>1, <2>1 DEF PostedInv
  <2>5. Posted(o) >= 0 /\ Posted(o) \in Int
    BY <1>1, Numbers DEF PostedInv
  <2> QED
    BY <2>2, <2>3, <2>4, <2>5
<1>14. member # None /\ Posted(Base) > Target /\ Blame(o) => o \in skipped' /\ order[o].home = Base
  <2>1. SUFFICES ASSUME member # None, Posted(Base) > Target, Blame(o)
                 PROVE  o \in skipped' /\ order[o].home = Base
    OBVIOUS
  <2>2. claws[o] = None /\ order[o].home = Base
    BY <2>1 DEF Blame
  <2>3. Base \in Orders
    BY <1>1, <2>1, BaseListed
  <2>4. Posted(Base) \in Int /\ Target \in Int
    BY <1>1, <2>3, Numbers
  <2>5. Older(o)
    BY <2>1, <2>2, <2>4
  <2> QED
    BY <1>1, <2>1, <2>2, <2>5
<1>15. Shown(o)
  BY <1>1, <1>3, <1>4, <1>7, <1>8, <1>9, <1>10, <1>11, <1>12, <1>13, <1>14, SameRowShown DEF ListedInv
<1> QED
  BY <1>6, <1>7, <1>15, LocalKeeps

\* More is posted than the row's target: the reading of the clawback
LEMMA ClawReadKeeps ==
    ASSUME Inv, NEW o \in Orders, Claw(o),
           ~(claws[o] # None \/ member = None \/ Older(o) \/ Posted(Base) <= Target)
    PROVE  Inv'
<1>1. /\ Shapes /\ RowInv /\ OrderInv(o) /\ ListedInv(o) /\ ReadInv(o) /\ OthersInv(o)
      /\ order' = order /\ member' = member /\ marked' = marked /\ granted' = granted /\ claws' = claws
      /\ balance' = balance /\ sync' = sync /\ replaced' = replaced /\ released' = released /\ cut' = cut
      /\ handler[o].pc = "claw" /\ current' = current \cup {<<o, "claw">>} /\ skipped' = skipped
      /\ handler[o] \in HandlerRow
      /\ handler' = [handler EXCEPT ![o].pc = "commit", ![o].need = Posted(Base) - Target]
  BY Here DEF Claw, rows, At, Read
<1>2. PICK need : need = Posted(Base) - Target
  OBVIOUS
<1>3. need \in Nat
  <2>1. Base \in Orders
    BY <1>1, BaseListed
  <2>2. Posted(Base) \in Int /\ Target \in Int
    BY <1>1, <2>1, Numbers
  <2> QED
    BY <1>2, <2>2
<1>4. PICK h : h = [handler[o] EXCEPT !.pc = "commit", !.need = need]
  OBVIOUS
<1>5. "commit" \in HandlerPcs
  BY DEF HandlerPcs, Reversing
<1>6. /\ h \in HandlerRow /\ h.pc = "commit" /\ h.need = need /\ h.releasing = handler[o].releasing
      /\ h.others = handler[o].others
  BY <1>1, <1>3, <1>4, <1>5 DEF HandlerRow
<1>7. handler' = [handler EXCEPT ![o] = h]
  BY <1>1, <1>2, <1>4 DEF Shapes
<1>8. handler' \in [Orders -> HandlerRow] /\ handler'[o] = h /\ \A p \in Orders \ {o} : handler'[p] = handler[p]
  BY <1>1, <1>6, <1>7 DEF Shapes
<1>9. Shapes'
  BY <1>1, <1>8 DEF Shapes
<1>10. Local(o)
  BY <1>1, <1>6, <1>8, SameRow DEF Local
<1>11. OrderInv(o)'
  BY <1>1, <1>6, <1>8 DEF OrderInv, Buying, Reversing, Undoing, Releasing, Passed, Applied
<1>12. ClawInv(o)'
  <2>1. Base' = Base /\ Target' = Target /\ Posted(Base)' = Posted(Base)
    BY <1>1, SameRow, PostedIs, PostedIsNext
  <2> QED
    BY <1>1, <1>2, <1>6, <1>8, <2>1 DEF ClawInv
<1>13. ReadInv(o)'
  BY <1>1, <1>6, <1>8, SameRow DEF ReadInv, Current, Passed
<1>14. Listed(o) => ~Active
  BY <1>1 DEF ListedInv
<1>15. Shown(o)
  BY <1>1, <1>6, <1>8, <1>10, <1>11, <1>12, <1>13, <1>14, SameRowShown DEF ListedInv, Passed, Blame
<1> QED
  BY <1>9, <1>10, <1>15, LocalKeeps

LEMMA MarkKeeps ==
    ASSUME Inv, NEW o \in Orders, Mark(o)
    PROVE  Inv'
<1>1. /\ Shapes /\ OrderInv(o) /\ ListedInv(o) /\ Quiet /\ order' = order /\ current' = current
      /\ marked' = marked \cup {o} /\ handler[o].pc = "mark" /\ Goto(o, "release")
  BY Here DEF Mark, rows, history, Quiet, At
<1>2. member' = member /\ skipped' = skipped
  BY <1>1 DEF Quiet
<1>3. "release" \in HandlerPcs
  BY DEF HandlerPcs, Reversing, Releasing
<1>4. /\ handler' \in [Orders -> HandlerRow] /\ handler'[o].pc = "release"
      /\ handler'[o].releasing = handler[o].releasing /\ handler'[o].others = handler[o].others
      /\ \A p \in Orders \ {o} : handler'[p] = handler[p]
  BY <1>1, <1>3, GotoDoes
<1>5. Shapes'
  BY <1>1, <1>4 DEF Shapes, Quiet
<1>6. Local(o)
  BY <1>1, <1>4, SameRow DEF Local, Quiet
<1>7. OrderInv(o)'
  BY <1>1, <1>4 DEF OrderInv, Quiet, Buying, Reversing, Undoing, Releasing, Passed, Applied
<1>8. ClawInv(o)' /\ ReadInv(o)'
  BY <1>1, NoReading, IdleReadsNothing DEF Passed
<1>9. Shown(o)
  BY <1>1, <1>2, <1>4, <1>6, <1>7, <1>8, SameRowShown DEF Passed, Blame, ListedInv
<1> QED
  BY <1>5, <1>6, <1>9, LocalKeeps

\* The row is gone from under the release, or another's
LEMMA ReleaseGoneKeeps ==
    ASSUME Inv, NEW o \in Orders, Release(o), ~Listed(o)
    PROVE  Inv'
<1>1. /\ Shapes /\ RowInv /\ OrderInv(o) /\ Quiet /\ order' = order /\ marked' = marked /\ handler[o].pc = "release"
      /\ Goto(o, "record") /\ current' = current
  BY Here DEF Release, rows, history, Quiet, At
<1>2. ClawInv(o)' /\ ReadInv(o)'
  BY <1>1, NoReading, IdleReadsNothing DEF Passed
<1>3. order[o].from = 0 /\ handler[o].pc \in Reversing
  BY <1>1 DEF OrderInv, Reversing, Releasing
<1>4. "record" \in HandlerPcs /\ "record" \notin Buying /\ "record" \in Reversing /\ "record" \notin Undoing
  BY DEF HandlerPcs, Reversing, Undoing, Releasing, Passed, Buying
<1>5. ~Incumbent(o) /\ (member # None => ~Blame(o))
  <2>1. member # None => Base \in Orders /\ Listed(Base)
    BY <1>1, BaseListed
  <2>2. order[o].home \in {0, o}
    BY <1>1, <1>3 DEF OrderInv
  <2> QED
    BY <2>1, <2>2 DEF Incumbent, Blame, Orders
<1> QED
  BY <1>1, <1>2, <1>3, <1>4, <1>5, MoveKeeps

\* The release revokes the row
LEMMA ReleaseRevokesKeeps ==
    ASSUME Inv, NEW o \in Orders, Release(o), Listed(o), Active
    PROVE  Inv'
<1>1. /\ Shapes /\ RowInv /\ OrderInv(o) /\ ListedInv(o) /\ OthersInv(o) /\ order' = order /\ handler' = handler
      /\ marked' = marked /\ granted' = granted /\ claws' = claws /\ balance' = balance /\ sync' = sync
      /\ replaced' = replaced /\ released' = released /\ cut' = cut /\ skipped' = skipped
      /\ handler[o].pc = "release" /\ member \in MemberRow /\ member # None /\ current' = {}
      /\ member' = [member EXCEPT !.active = FALSE, !.reason = "Refund"]
  BY Here DEF Release, rows, history, At, WriteRow, Shapes, Active
<1>2. /\ member' \in MemberRow /\ member'.orders = member.orders /\ member'.tier = member.tier
      /\ member'.active = FALSE /\ member'.reason = "Refund"
  BY <1>1 DEF MemberRow
<1>3. RowKept
  BY <1>1, <1>2, FoundingNames DEF RowKept
<1>4. Shapes'
  BY <1>1, <1>2 DEF Shapes
<1>5. Local(o)
  BY <1>1, <1>3 DEF Local
<1>6. OrderInv(o)'
  BY <1>1 DEF OrderInv
<1>7. Blame(o)'
  <2>1. ~Active'
    BY <1>2 DEF Active
  <2>2. order[o].from = 0 /\ order[o].state \in Applied /\ order[o].reversed
    BY <1>1 DEF OrderInv, Reversing, Releasing
  <2>3. order[o].state = "Fulfilled" /\ claws[o] = None /\ order[o].home = Base
    BY <1>1, <2>2 DEF ListedInv, Applied
  <2>4. Base' = Base
    BY <1>1, <1>2 DEF Base
  <2> QED
    BY <1>1, <2>1, <2>2, <2>3, <2>4 DEF Blame, Passed
<1>8. Shown(o)
  BY <1>1, <1>5, <1>6, <1>7, RowWriteShown
<1> QED
  BY <1>4, <1>5, <1>8, LocalKeeps

\* The release reads the revoked row, and goes on to the clawback
LEMMA ReleaseReadsKeeps ==
    ASSUME Inv, NEW o \in Orders, Release(o), Listed(o), ~Active
    PROVE  Inv'
<1>0. handler' = [handler EXCEPT ![o].pc = "claw", ![o].releasing = TRUE,
                           ![o].others = ToSet(member.orders) \ {o},
                           ![o].stays = member.reason # "Refund" \/ member.disputed # {}]
  BY DEF Release
<1>1. /\ Shapes /\ RowInv /\ OrderInv(o) /\ ListedInv(o) /\ OthersInv(o) /\ Quiet /\ order' = order
      /\ marked' = marked /\ handler[o].pc = "release" /\ handler[o] \in HandlerRow
      /\ current' = current \cup {<<o, "row">>} /\ member \in MemberRow /\ member # None
  BY Here DEF Release, rows, history, At, Read, Shapes, Listed, Quiet
<1>2. member' = member /\ skipped' = skipped
  BY <1>1 DEF Quiet
<1>3. PICK others : others = ToSet(member.orders) \ {o}
  OBVIOUS
<1>4. PICK stays \in BOOLEAN : stays = (member.reason # "Refund" \/ member.disputed # {})
  OBVIOUS
<1>5. PICK h : h = [handler[o] EXCEPT !.pc = "claw", !.releasing = TRUE, !.others = others, !.stays = stays]
  OBVIOUS
<1>6. order[o].from = 0 /\ order[o].state \in Applied /\ order[o].reversed
  BY <1>1 DEF OrderInv, Reversing, Releasing
<1>7. \A u \in others : u \in Orders /\ order[u].from # 0 /\ order[u].state # "None"
  <2> SUFFICES ASSUME NEW u \in others PROVE u \in Orders /\ order[u].from # 0 /\ order[u].state # "None"
    OBVIOUS
  <2>0. DOMAIN member.orders = 1..Len(member.orders)
    <3>1. member.orders \in Seq(Orders)
      BY <1>1 DEF MemberRow
    <3> QED
      BY <3>1
  <2>1. PICK i \in 1..Len(member.orders) : member.orders[i] = u /\ u # o
    BY <1>3, <2>0 DEF ToSet
  <2>2. PICK j \in 1..Len(member.orders) : member.orders[j] = o
    BY <2>0 DEF Listed, ToSet
  <2>3. /\ \A k \in 1..Len(member.orders) : member.orders[k] \in Orders /\ Listed(member.orders[k])
        /\ Len(member.orders) \in Nat
    BY <1>1, BaseListed
  <2>4. j = 1
    BY <1>1, <1>6, <2>2, <2>3 DEF RowInv
  <2>5. i \in 2..Len(member.orders)
    BY <2>1, <2>2, <2>3, <2>4
  <2>6. order[u].from # 0
    BY <1>1, <2>1, <2>5 DEF RowInv
  <2>7. u \in Orders /\ ListedInv(u) /\ Listed(u)
    BY <2>1, <2>3, Here
  <2> QED
    BY <2>6, <2>7 DEF ListedInv, Applied
<1>8. "claw" \in HandlerPcs /\ others \in SUBSET Orders
  BY <1>7 DEF HandlerPcs, Reversing
<1>9. h \in HandlerRow /\ h.pc = "claw" /\ h.releasing = TRUE /\ h.others = others
  <2>1. PICK g : g = handler[o]
    OBVIOUS
  <2>2. g \in HandlerRow /\ h = [g EXCEPT !.pc = "claw", !.releasing = TRUE, !.others = others, !.stays = stays]
    BY <1>1, <1>5, <2>1
  <2> QED
    BY ONLY <1>8, <2>2, stays \in BOOLEAN DEF HandlerRow
<1>10. handler' = [handler EXCEPT ![o] = h]
  BY <1>0, <1>3, <1>4, <1>5
<1>11. handler' \in [Orders -> HandlerRow] /\ handler'[o] = h /\ \A p \in Orders \ {o} : handler'[p] = handler[p]
  BY <1>1, <1>9, <1>10 DEF Shapes
<1>12. Shapes'
  BY <1>1, <1>11 DEF Shapes, Quiet
<1>13. Local(o)
  BY <1>1, <1>7, <1>9, <1>11, SameRow DEF Local, Quiet
<1>14. OrderInv(o)'
  BY <1>1, <1>6, <1>9, <1>11 DEF OrderInv, Quiet, Buying, Reversing, Undoing, Releasing, Passed, Applied
<1>15. ClawInv(o)'
  BY <1>1, IdleReadsNothing DEF ClawInv, Current
<1>16. ReadInv(o)'
  BY <1>1, <1>2, <1>6, <1>9, <1>11, SameRow DEF ReadInv
<1>17. Shown(o)
  BY <1>1, <1>2, <1>6, <1>9, <1>11, <1>13, <1>14, <1>15, <1>16, SameRowShown DEF Passed, Blame, ListedInv
<1> QED
  BY <1>12, <1>13, <1>17, LocalKeeps

LEMMA RecordKeeps ==
    ASSUME Inv, NEW o \in Orders, Record(o)
    PROVE  Inv'
<1>1. /\ Shapes /\ OrderInv(o) /\ ListedInv(o) /\ PostedInv(o) /\ ReadInv(o) /\ Quiet /\ marked' = marked
      /\ handler[o].pc = "record" /\ current' = current /\ granted' = granted /\ claws' = claws
      /\ order' = [order EXCEPT ![o].state = IF @ = "Fulfilled" THEN "Refunded" ELSE @, ![o].pending = FALSE]
      /\ order[o] \in OrderRow /\ Goto(o, "unmark")
  BY Here DEF Record, rows, history, Quiet, At
<1>2. member' = member /\ skipped' = skipped
  BY <1>1 DEF Quiet
<1>3. "unmark" \in HandlerPcs
  BY DEF HandlerPcs, Reversing, Releasing, Passed
<1>4. /\ handler' \in [Orders -> HandlerRow] /\ handler'[o].pc = "unmark"
      /\ handler'[o].releasing = handler[o].releasing /\ handler'[o].others = handler[o].others
      /\ \A p \in Orders \ {o} : handler'[p] = handler[p]
  BY <1>1, <1>3, GotoDoes
<1>5. order[o].from = 0 /\ order[o].state \in Applied /\ order[o].reversed
  BY <1>1 DEF OrderInv, Reversing, Releasing, Passed
<1>6. PICK x : x = [order[o] EXCEPT !.state = "Refunded", !.pending = FALSE]
  OBVIOUS
<1>7. /\ x \in OrderRow /\ x.state = "Refunded" /\ x.from = order[o].from /\ x.to = order[o].to
      /\ x.home = order[o].home /\ x.pending = FALSE /\ x.reversed = order[o].reversed
  BY <1>1, <1>6 DEF OrderRow
<1>8. order' = [order EXCEPT ![o] = x]
  BY <1>1, <1>5, <1>6 DEF Shapes, Applied, OrderRow
<1>9. order' \in [Orders -> OrderRow] /\ order'[o] = x /\ \A p \in Orders \ {o} : order'[p] = order[p]
  BY <1>1, <1>7, <1>8 DEF Shapes
<1>10. Shapes'
  BY <1>1, <1>4, <1>9 DEF Shapes, Quiet
<1>11. Local(o)
  BY <1>1, <1>4, <1>7, <1>9, SameRow DEF Local, Quiet
<1>12. OrderInv(o)'
  BY <1>1, <1>4, <1>5, <1>7, <1>9 DEF OrderInv, Quiet, Buying, Reversing, Undoing, Releasing, Passed, Applied
<1>13. ClawInv(o)'
  BY <1>1, IdleReadsNothing DEF ClawInv, Current
<1>14. ReadInv(o)'
  BY <1>1, <1>2, <1>4, <1>7, <1>9, SameRow DEF ReadInv, Current, Passed
<1>15. (Listed(o) => ~Active) /\ (Incumbent(o) => Posted(o) = 0) /\ ~Blame(o)
  BY <1>1, <1>5 DEF ListedInv, PostedInv, Blame, Passed
<1>16. Shown(o)
  BY <1>1, <1>2, <1>4, <1>7, <1>9, <1>11, <1>12, <1>13, <1>14, <1>15, SameRowShown DEF Applied
<1> QED
  BY <1>10, <1>11, <1>16, LocalKeeps

LEMMA UnmarkKeeps ==
    ASSUME Inv, NEW o \in Orders, Unmark(o)
    PROVE  Inv'
<1>1. /\ Shapes /\ OrderInv(o) /\ ListedInv(o) /\ Quiet /\ marked' = marked \ {o} /\ order' = order /\ Finish(o)
      /\ handler[o].pc = "unmark"
  BY Here DEF Unmark, rows, history, Quiet, At
<1>2. member' = member /\ skipped' = skipped
  BY <1>1 DEF Quiet
<1>3. /\ handler' \in [Orders -> HandlerRow] /\ handler'[o].pc = "idle"
      /\ handler'[o].releasing = FALSE /\ handler'[o].others = {}
      /\ \A p \in Orders \ {o} : handler'[p] = handler[p]
      /\ current' \subseteq current /\ <<o, "row">> \notin current' /\ <<o, "claw">> \notin current'
  BY <1>1, FinishDoes
<1>4. Shapes'
  BY <1>1, <1>3 DEF Shapes, Quiet
<1>5. Local(o)
  BY <1>1, <1>3, SameRow DEF Local, Quiet
<1>6. OrderInv(o)'
  BY <1>1, <1>3 DEF OrderInv, Quiet, Buying, Reversing, Undoing, Releasing, Passed, Applied
<1>7. ClawInv(o)' /\ ReadInv(o)'
  BY <1>3, NoReading
<1>8. Shown(o)
  BY <1>1, <1>2, <1>3, <1>5, <1>6, <1>7, SameRowShown DEF Passed, Blame, ListedInv
<1> QED
  BY <1>4, <1>5, <1>8, LocalKeeps

\* Every upgrade is settled: on to the row
LEMMA UpgradesDoneKeeps ==
    ASSUME Inv, NEW o \in Orders, Upgrades(o), Goto(o, "delete"), order' = order, current' = current,
           skipped' = skipped
    PROVE  Inv'
<1>1. /\ OrderInv(o) /\ ListedInv(o) /\ PostedInv(o) /\ ReadInv(o) /\ Quiet /\ marked' = marked
      /\ handler[o].pc = "upgrades" /\ Shapes /\ member' = member /\ granted' = granted /\ claws' = claws
  BY Here DEF Upgrades, rows, Quiet, At
<1>2. /\ "delete" \in HandlerPcs /\ "delete" \notin Buying /\ "delete" \in Reversing /\ "delete" \notin Undoing
      /\ "delete" \in Passed /\ "delete" # "idle" /\ "delete" \notin {"claw", "commit"}
      /\ handler[o].pc \in Reversing /\ handler[o].pc \in Passed /\ handler[o].pc \in Releasing
  BY <1>1 DEF HandlerPcs, Reversing, Undoing, Releasing, Passed, Buying
<1>3. handler'[o].pc = "delete"
  BY <1>1, <1>2, GotoDoes
<1>4. ClawInv(o)'
  BY <1>1, IdleReadsNothing DEF ClawInv, Current
<1>5. ReadInv(o)'
  BY <1>1, <1>2, <1>3, SameRow, SamePosted DEF ReadInv, Current
<1>6. (Listed(o) => ~Active) /\ order[o].from = 0
  BY <1>1, <1>2 DEF ListedInv, OrderInv
<1>7. ~Blame(o) /\ (Incumbent(o) => Posted(o) = 0)
  BY <1>1, <1>2 DEF Blame, PostedInv
<1> QED
  BY <1>1, <1>2, <1>4, <1>5, <1>6, <1>7, MoveKeeps

\* The release records an upgrade Refunded.  One of this very row has nothing left to claw
\* back; one of another row is skipped
LEMMA UpgradeRecordedKeeps ==
    ASSUME Inv, NEW o \in Orders, Upgrades(o), NEW u \in handler[o].others,
           order[u].state \notin {"Refunded", "Voided"}, handler[u].pc = "idle",
           OrderIs(u, "Refunded"), handler' = handler, current' = current
    PROVE  Inv'
<1>1. /\ Shapes /\ RowInv /\ OrderInv(o) /\ PostedInv(o) /\ OthersInv(o) /\ handler[o].pc = "upgrades"
      /\ member' = member /\ marked' = marked /\ granted' = granted /\ claws' = claws /\ balance' = balance
      /\ sync' = sync /\ replaced' = replaced /\ released' = released /\ cut' = cut
      /\ handler[o].others \subseteq Orders
  BY Here DEF Upgrades, rows, At
<1>2. u \in Orders /\ order[u].from # 0 /\ order[u].state # "None"
  BY <1>1 DEF OthersInv
<1>3. OrderInv(u) /\ ListedInv(u)
  BY <1>2, Here
<1>4. /\ order' \in [Orders -> OrderRow] /\ order'[u].state = "Refunded"
      /\ order'[u].from = order[u].from /\ order'[u].to = order[u].to /\ order'[u].home = order[u].home
      /\ order'[u].pending = order[u].pending /\ order'[u].reversed = order[u].reversed
      /\ \A p \in Orders \ {u} : order'[p] = order[p]
  BY <1>1, <1>2, OrderIsDoes
<1>5. PICK open : open = {v \in handler[o].others : order[v].state \notin {"Refunded", "Voided"}}
  OBVIOUS
<1>6. skipped' = skipped \cup {v \in open : order'[v].state = "Refunded" /\ order[v].home # o}
  BY <1>5 DEF Upgrades
<1>7. /\ skipped \subseteq skipped' /\ skipped' \subseteq skipped \cup {u} /\ skipped' \subseteq Orders
      /\ order[u].home # o => u \in skipped'
  <2>1. \A v \in open : v # u => order'[v].state # "Refunded"
    BY <1>1, <1>4, <1>5
  <2>2. u \in open
    BY <1>5
  <2> QED
    BY <1>1, <1>2, <1>4, <1>6, <2>1, <2>2 DEF Shapes
<1>8. Shapes'
  BY <1>1, <1>4, <1>7 DEF Shapes
<1>9. Local(u)
  BY <1>1, <1>2, <1>4, <1>7, SameRow DEF Local
<1>10. OrderInv(u)'
  BY <1>1, <1>2, <1>3, <1>4 DEF OrderInv, Buying, Reversing, Undoing, Releasing, Passed, Applied
<1>11. ClawInv(u)' /\ ReadInv(u)'
  BY <1>2, NoReading, IdleReadsNothing DEF Passed
<1>12. member # None /\ Posted(Base) > Target /\ Blame(u) => u \in skipped' /\ order[u].home = Base
  <2>1. SUFFICES ASSUME member # None, Posted(Base) > Target, Blame(u)
                 PROVE  u \in skipped' /\ order[u].home = Base
    OBVIOUS
  <2>2. order[u].home = Base
    BY <2>1 DEF Blame
  <2>3. Base # o
    <3>1. SUFFICES ASSUME Base = o PROVE FALSE
      OBVIOUS
    <3>2. Posted(Base) = 0
      BY <1>1, <2>1, <3>1 DEF PostedInv, Incumbent, Passed
    <3>3. Target \in Nat
      BY <1>1, Numbers
    <3> QED
      BY <2>1, <3>2, <3>3
  <2> QED
    BY <1>7, <2>2, <2>3
<1>13. Shown(u)
  BY <1>1, <1>2, <1>3, <1>4, <1>9, <1>10, <1>11, <1>12, SameRowShown DEF Passed, Applied
<1> QED
  BY <1>2, <1>8, <1>9, <1>13, LocalKeeps

LEMMA UpgradesKeeps ==
    ASSUME Inv, NEW o \in Orders, Upgrades(o)
    PROVE  Inv'
<1>1. /\ Shapes /\ OrderInv(o) /\ ListedInv(o) /\ handler[o].pc = "upgrades" /\ handler[o].others \subseteq Orders
      /\ member' = member /\ marked' = marked /\ granted' = granted /\ claws' = claws /\ balance' = balance
      /\ sync' = sync /\ replaced' = replaced /\ released' = released /\ cut' = cut
  BY Here DEF Upgrades, rows, At
<1>2. PICK open : /\ open = {v \in handler[o].others : order[v].state \notin {"Refunded", "Voided"}}
                  /\ \/ open = {} /\ Goto(o, "delete") /\ UNCHANGED <<order, current>>
                     \/ \E u \in open : At(u, "idle") /\ OrderIs(u, "Refunded") /\ UNCHANGED <<handler, current>>
                     \/ open # {} /\ Finish(o) /\ UNCHANGED order
                  /\ skipped' = skipped \cup {u \in open : order'[u].state = "Refunded" /\ order[u].home # o}
  BY DEF Upgrades
<1>3. order' = order => skipped' = skipped
  BY <1>2
<1>4. CASE Goto(o, "delete") /\ UNCHANGED <<order, current>>
  BY <1>3, <1>4, UpgradesDoneKeeps
<1>5. CASE \E u \in open : At(u, "idle") /\ OrderIs(u, "Refunded") /\ UNCHANGED <<handler, current>>
  BY <1>2, <1>5, UpgradeRecordedKeeps DEF At
<1>6. CASE Finish(o) /\ UNCHANGED order
  <2>1. skipped' = skipped /\ order' = order
    BY <1>3, <1>6
  <2>2. /\ handler' \in [Orders -> HandlerRow] /\ handler'[o].pc = "idle"
        /\ handler'[o].releasing = FALSE /\ handler'[o].others = {}
        /\ \A p \in Orders \ {o} : handler'[p] = handler[p]
        /\ current' \subseteq current /\ <<o, "row">> \notin current' /\ <<o, "claw">> \notin current'
    BY <1>1, <1>6, FinishDoes
  <2>3. Shapes'
    BY <1>1, <2>1, <2>2 DEF Shapes
  <2>4. Local(o)
    BY <1>1, <2>1, <2>2, SameRow DEF Local
  <2>5. OrderInv(o)'
    BY <1>1, <2>1, <2>2 DEF OrderInv, Buying, Reversing, Undoing, Releasing, Passed, Applied
  <2>6. ClawInv(o)' /\ ReadInv(o)'
    BY <2>2, NoReading
  <2>7. Shown(o)
    BY <1>1, <2>1, <2>2, <2>4, <2>5, <2>6, SameRowShown DEF Passed, Blame, ListedInv
  <2> QED
    BY <2>3, <2>4, <2>7, LocalKeeps
<1> QED
  BY <1>2, <1>4, <1>5, <1>6

\* Prot is spent, or nothing happens
LEMMA WalletKeeps ==
    ASSUME Inv, balance' \in Nat, UNCHANGED <<order, handler, member, marked, granted, claws, sync, current, history>>
    PROVE  Inv'
<1>1. /\ order' = order /\ handler' = handler /\ member' = member /\ marked' = marked /\ granted' = granted
      /\ claws' = claws /\ sync' = sync /\ current' = current /\ replaced' = replaced /\ released' = released
      /\ cut' = cut /\ skipped' = skipped
  BY DEF history
<1>2. 1 \in Orders
  BY FoundingBounds DEF Orders
<1>3. Shapes'
  BY <1>1 DEF Inv, Shapes
<1>4. Local(1)
  BY <1>1, <1>2, Here, SameRow DEF Local
<1>5. OrderInv(1) /\ ListedInv(1) /\ PostedInv(1) /\ ClawInv(1) /\ ReadInv(1)
  BY <1>2, Here
<1>6. OrderInv(1)'
  BY <1>1, <1>5 DEF OrderInv
<1>7. Base' = Base /\ Target' = Target /\ Posted(Base)' = Posted(Base) /\ (Listed(1)' <=> Listed(1))
      /\ Shortfall(1)' = Shortfall(1) /\ Undo(1)' = Undo(1)
  <2>1. (Active' <=> Active) /\ Base' = Base /\ (Listed(1)' <=> Listed(1)) /\ Target' = Target
    BY <1>1, SameRow
  <2>2. Posted(Base)' = Posted(Base) /\ Shortfall(1)' = Shortfall(1)
    BY <1>1, <2>1, PostedIs, PostedIsNext
  <2>3. Undo(1)' = Undo(1)
    BY <1>1, <2>1 DEF Undo
  <2> QED
    BY <2>1, <2>2, <2>3
<1>8. ClawInv(1)'
  BY <1>1, <1>5, <1>7 DEF ClawInv, Current
<1>9. ReadInv(1)'
  BY <1>1, <1>5, <1>7 DEF ReadInv, Current
<1>10. Shown(1)
  BY <1>1, <1>2, <1>4, <1>5, <1>6, <1>8, <1>9, SameRowShown DEF ListedInv, PostedInv, Blame
<1> QED
  BY <1>2, <1>3, <1>4, <1>10, LocalKeeps

-----------------------------------------------------------------------------
(* The steps that post, and the ones that change what the row lists        *)

\* After a write of the row or the ledger there is no reading to be wrong
LEMMA NothingRead ==
    ASSUME current' = {}
    PROVE  /\ \A p \in Orders : ClawInv(p)' /\ ReadInv(p)'
           /\ \A s \in Syncers : SyncInv(s)'
BY DEF ClawInv, ReadInv, SyncInv, Current

LEMMA SyncReadKeeps ==
    ASSUME Inv, NEW s \in Syncers, SyncRead(s)
    PROVE  Inv'
<1>1. /\ order' = order /\ handler' = handler /\ member' = member /\ marked' = marked /\ granted' = granted
      /\ claws' = claws /\ balance' = balance /\ replaced' = replaced /\ released' = released
      /\ cut' = cut /\ skipped' = skipped /\ current' = current \cup {s}
      /\ Active /\ Posted(Base) < Target /\ sync' = [sync EXCEPT ![s] = Target - Posted(Base)]
  BY DEF SyncRead, rows, history, Read
<1>2. Shapes /\ RowInv /\ OverInv
  BY DEF Inv
<1>3. Base \in Orders /\ Posted(Base) \in Int /\ Target \in Int
  <2>1. Base \in Orders
    BY <1>1, <1>2, BaseListed DEF Active
  <2> QED
    BY <1>2, <2>1, Numbers
<1>4. (Active' <=> Active) /\ Base' = Base /\ Target' = Target /\ Posted(Base)' = Posted(Base)
      /\ (\A p : (Listed(p)' <=> Listed(p)) /\ (Incumbent(p)' <=> Incumbent(p)))
      /\ (\A p : Posted(p)' = Posted(p) /\ Shortfall(p)' = Shortfall(p))
  BY <1>1, SameRow, SamePosted, PostedIs, PostedIsNext
<1>5. sync' \in [Syncers -> Nat] /\ sync'[s] = Target - Posted(Base) /\ sync'[s] > 0
      /\ \A t \in Syncers \ {s} : sync'[t] = sync[t]
  <2>1. PICK n : n = Target - Posted(Base)
    OBVIOUS
  <2>2. n \in Nat /\ n > 0
    BY <1>1, <1>3, <2>1
  <2> QED
    BY <1>1, <1>2, <2>1, <2>2 DEF Shapes
<1>6. Shapes'
  BY <1>1, <1>2, <1>5 DEF Shapes
<1>7. RowInv'
  BY <1>1, <1>2, <1>4 DEF RowInv
<1>8. ASSUME NEW p \in Orders
      PROVE  OrderInv(p)' /\ OthersInv(p)' /\ ListedInv(p)' /\ PostedInv(p)' /\ ClawInv(p)' /\ ReadInv(p)'
  <2>1. OrderInv(p) /\ OthersInv(p) /\ ListedInv(p) /\ PostedInv(p) /\ ClawInv(p) /\ ReadInv(p)
    BY Here
  <2>2. OrderInv(p)' /\ OthersInv(p)'
    BY <1>1, <2>1 DEF OrderInv, OthersInv
  <2>3. ListedInv(p)'
    BY <1>1, <1>4, <2>1 DEF ListedInv
  <2>4. PostedInv(p)'
    BY <1>1, <1>4, <2>1 DEF PostedInv
  <2>5. s # <<p, "row">> /\ s # <<p, "claw">>
    BY Tokens
  <2>6. Undo(p)' = Undo(p)
    BY <1>1, <1>4 DEF Undo
  <2>7. ClawInv(p)'
    BY <1>1, <1>4, <2>1, <2>5 DEF ClawInv, Current
  <2>8. ReadInv(p)'
    BY <1>1, <1>4, <2>1, <2>5, <2>6 DEF ReadInv, Current
  <2> QED
    BY <2>2, <2>3, <2>4, <2>7, <2>8
<1>9. ASSUME NEW t \in Syncers PROVE SyncInv(t)'
  <2>1. SyncInv(t)
    BY DEF Inv
  <2> QED
    BY <1>1, <1>4, <1>5, <2>1 DEF SyncInv, Current
<1>10. OverInv'
  <2>1. \A p \in Orders : Blame(p) => Blame(p)'
    BY <1>1, <1>4 DEF Blame
  <2> QED
    BY <1>1, <1>2, <1>4, <2>1 DEF OverInv
<1> QED
  BY <1>6, <1>7, <1>8, <1>9, <1>10 DEF Inv

\* The row moved: the sync ends without a trace
LEMMA SyncStaleKeeps ==
    ASSUME Inv, NEW s \in Syncers, SyncCommit(s), ~Current(s)
    PROVE  Inv'
<1>1. /\ order' = order /\ handler' = handler /\ member' = member /\ marked' = marked /\ granted' = granted
      /\ claws' = claws /\ balance' = balance /\ replaced' = replaced /\ released' = released
      /\ cut' = cut /\ skipped' = skipped /\ current' = current /\ s \notin current
      /\ sync' = [sync EXCEPT ![s] = 0]
  BY DEF SyncCommit, history, Current
<1>2. Shapes /\ RowInv /\ OverInv
  BY DEF Inv
<1>3. (Active' <=> Active) /\ Base' = Base /\ Target' = Target /\ Posted(Base)' = Posted(Base)
      /\ (\A p : (Listed(p)' <=> Listed(p)) /\ (Incumbent(p)' <=> Incumbent(p)))
      /\ (\A p : Posted(p)' = Posted(p) /\ Shortfall(p)' = Shortfall(p))
  BY <1>1, SameRow, SamePosted, PostedIs, PostedIsNext
<1>4. sync' \in [Syncers -> Nat] /\ \A t \in Syncers \ {s} : sync'[t] = sync[t]
  BY <1>1, <1>2 DEF Shapes
<1>5. Shapes'
  BY <1>1, <1>2, <1>4 DEF Shapes
<1>6. RowInv'
  BY <1>1, <1>2, <1>3 DEF RowInv
<1>7. ASSUME NEW p \in Orders
      PROVE  OrderInv(p)' /\ OthersInv(p)' /\ ListedInv(p)' /\ PostedInv(p)' /\ ClawInv(p)' /\ ReadInv(p)'
  <2>1. OrderInv(p) /\ OthersInv(p) /\ ListedInv(p) /\ PostedInv(p) /\ ClawInv(p) /\ ReadInv(p)
    BY Here
  <2>2. OrderInv(p)' /\ OthersInv(p)'
    BY <1>1, <2>1 DEF OrderInv, OthersInv
  <2>3. ListedInv(p)'
    BY <1>1, <1>3, <2>1 DEF ListedInv
  <2>4. PostedInv(p)'
    BY <1>1, <1>3, <2>1 DEF PostedInv
  <2>5. Undo(p)' = Undo(p)
    BY <1>1, <1>3 DEF Undo
  <2>6. ClawInv(p)'
    BY <1>1, <1>3, <2>1 DEF ClawInv, Current
  <2>7. ReadInv(p)'
    BY <1>1, <1>3, <2>1, <2>5 DEF ReadInv, Current
  <2> QED
    BY <2>2, <2>3, <2>4, <2>6, <2>7
<1>8. ASSUME NEW t \in Syncers PROVE SyncInv(t)'
  <2>1. SyncInv(t)
    BY DEF Inv
  <2> QED
    BY <1>1, <1>3, <1>4, <2>1 DEF SyncInv, Current
<1>9. OverInv'
  <2>1. \A p \in Orders : Blame(p) => Blame(p)'
    BY <1>1, <1>3 DEF Blame
  <2> QED
    BY <1>1, <1>2, <1>3, <2>1 DEF OverInv
<1> QED
  BY <1>5, <1>6, <1>7, <1>8, <1>9 DEF Inv

\* The row is as it was read: afterwards it has what its tier brings
LEMMA SyncPostsKeeps ==
    ASSUME Inv, NEW s \in Syncers, SyncCommit(s), Current(s)
    PROVE  Inv'
<1>1. /\ order' = order /\ handler' = handler /\ member' = member /\ marked' = marked
      /\ claws' = claws /\ balance' = balance + sync[s] /\ replaced' = replaced /\ released' = released
      /\ cut' = cut /\ skipped' = skipped /\ current' = {}
      /\ granted' = [granted EXCEPT ![Base] = @ + sync[s]] /\ sync' = [sync EXCEPT ![s] = 0]
  BY DEF SyncCommit, history
<1>2. Shapes /\ RowInv /\ SyncInv(s)
  BY DEF Inv
<1>3. Active /\ member # None /\ sync[s] = Target - Posted(Base) /\ sync[s] \in Nat
  BY <1>2 DEF SyncInv, Active, Shapes
<1>4. Base \in Orders /\ Listed(Base) /\ Posted(Base) \in Int /\ Target \in Nat
  <2>1. Base \in Orders /\ Listed(Base)
    BY <1>2, <1>3, BaseListed
  <2> QED
    BY <1>2, <2>1, Numbers
<1>5. granted' \in [Orders -> Nat] /\ granted'[Base] = granted[Base] + sync[s]
      /\ \A b \in Orders \ {Base} : granted'[b] = granted[b]
  BY <1>1, <1>2, <1>3, <1>4 DEF Shapes
<1>6. (Active' <=> Active) /\ Base' = Base /\ Target' = Target
      /\ (\A p : (Listed(p)' <=> Listed(p)) /\ (Incumbent(p)' <=> Incumbent(p)))
  BY <1>1, SameRow
<1>7. /\ \A b \in Orders \ {Base} : Posted(b)' = Posted(b)
      /\ \A b \in Orders : Shortfall(b)' = Shortfall(b)
  BY <1>1, <1>5, PostedIs, PostedIsNext
<1>8. Posted(Base)' = Target
  <2>1. PICK b : b = Base
    OBVIOUS
  <2>2. Posted(b)' = granted'[b] - Asked(claws, OfBase(claws, b)) /\ Posted(b) = granted[b] - Asked(claws, OfBase(claws, b))
    BY <1>1, PostedIs, PostedIsNext
  <2>3. Posted(b)' = Posted(b) + sync[s]
    <3>1. Asked(claws, OfBase(claws, b)) \in Int
      BY <1>2, <1>4, <2>1, AskedInt
    <3>2. granted[b] \in Nat /\ sync[s] \in Nat /\ granted'[b] = granted[b] + sync[s]
      BY <1>2, <1>3, <1>4, <1>5, <2>1 DEF Shapes
    <3> QED
      BY <2>2, <3>1, <3>2
  <2>4. Posted(Base)' = Posted(b)'
    BY <1>6, <2>1, PostedIsNext
  <2> QED
    BY <1>3, <1>4, <2>1, <2>3, <2>4
<1>9. Shapes'
  <2>1. balance' \in Nat
    BY <1>1, <1>2, <1>3 DEF Shapes
  <2>2. sync' \in [Syncers -> Nat]
    BY <1>1, <1>2 DEF Shapes
  <2> QED
    BY <1>1, <1>2, <1>5, <2>1, <2>2 DEF Shapes
<1>10. RowInv'
  BY <1>1, <1>2, <1>6 DEF RowInv
<1>11. ASSUME NEW p \in Orders PROVE OrderInv(p)' /\ OthersInv(p)' /\ ListedInv(p)' /\ PostedInv(p)'
  <2>1. OrderInv(p) /\ OthersInv(p) /\ ListedInv(p) /\ PostedInv(p)
    BY Here
  <2>2. OrderInv(p)' /\ OthersInv(p)'
    BY <1>1, <2>1 DEF OrderInv, OthersInv
  <2>3. ListedInv(p)'
    BY <1>1, <1>6, <2>1 DEF ListedInv
  <2>4. CASE p = Base
    <3>1. claws[p] = None /\ order[p].from = 0 /\ p \notin released
      BY <1>2, <1>3, <1>4, <2>1, <2>4 DEF ListedInv, RowInv
    <3>2. handler[p].pc \notin Passed
      BY <1>3, <1>4, <2>1, <2>4, <3>1 DEF ListedInv
    <3>3. Posted(p)' = Target
      BY <1>6, <1>8, <2>4, PostedIsNext
    <3>4. Incumbent(p)'
      BY <1>3, <1>6, <2>4 DEF Incumbent
    <3> QED
      BY <1>1, <1>4, <2>2, <2>3, <3>1, <3>2, <3>3, <3>4 DEF PostedInv
  <2>5. CASE p # Base
    <3>1. Posted(p)' = Posted(p) /\ Shortfall(p)' = Shortfall(p)
      BY <1>7, <2>5
    <3> QED
      BY <1>1, <1>6, <2>1, <2>2, <2>3, <3>1 DEF PostedInv
  <2> QED
    BY <2>2, <2>3, <2>4, <2>5
<1>12. OverInv'
  BY <1>4, <1>6, <1>8 DEF OverInv
<1> QED
  BY <1>1, <1>9, <1>10, <1>11, <1>12, NothingRead DEF Inv


\* The row is as the clawback read it: afterwards it has what its tier brings
LEMMA CommitPostsKeeps ==
    ASSUME Inv, NEW o \in Orders, Commit(o), Current(<<o, "claw">>)
    PROVE  Inv'
<1>1. PICK need : need = handler[o].need
  OBVIOUS
<1>2. PICK taken : taken = (IF need <= balance THEN need ELSE balance)
  OBVIOUS
<1>3. PICK row : row = [base |-> Base, requested |-> need, amount |-> taken]
  OBVIOUS
<1>4. /\ order' = order /\ member' = member /\ marked' = marked /\ granted' = granted /\ sync' = sync
      /\ balance' = balance - taken /\ replaced' = replaced /\ released' = released
      /\ cut' = cut /\ skipped' = skipped /\ current' = {} /\ handler[o].pc = "commit"
      /\ claws' = [claws EXCEPT ![o] = row]
  BY <1>1, <1>2, <1>3 DEF Commit, history, At
<1>5. handler' = [handler EXCEPT ![o].need = 0, ![o].pc = AfterCommit(o)]
  BY DEF Commit
<1>6. Shapes /\ RowInv /\ OrderInv(o) /\ ListedInv(o) /\ ClawInv(o) /\ handler[o] \in HandlerRow
  BY Here DEF Inv
<1>7. member # None /\ claws[o] = None /\ need = Posted(Base) - Target /\ need \in Nat /\ balance \in Nat
  BY <1>1, <1>6 DEF ClawInv, HandlerRow, Shapes
<1>8. Base \in Orders /\ Listed(Base) /\ Posted(Base) \in Int /\ Target \in Nat
  <2>1. Base \in Orders /\ Listed(Base)
    BY <1>6, <1>7, BaseListed
  <2> QED
    BY <1>6, <2>1, Numbers
<1>9. taken \in Nat /\ taken <= need /\ balance - taken \in Nat
  BY <1>2, <1>7
<1>10. row \in ClawRow /\ row.base = Base /\ row.requested = need /\ row.amount = taken /\ row # None
  <2>1. row \in ClawRow /\ row.base = Base /\ row.requested = need /\ row.amount = taken
    BY <1>3, <1>7, <1>8, <1>9 DEF ClawRow
  <2> QED
    BY <2>1, FoundingNames
<1>11. /\ claws' \in [Orders -> ClawRow \cup {None}] /\ claws'[o] = row
       /\ \A p \in Orders : p # o => claws'[p] = claws[p]
  BY <1>4, <1>6, <1>10 DEF Shapes
<1>12. PICK pc : pc = AfterCommit(o)
  OBVIOUS
<1>13. pc \in HandlerPcs /\ pc \in {"release", "refunded"} /\ (pc = "release" => handler[o].releasing)
       /\ (handler[o].releasing => pc = "release")
  BY <1>6, <1>12 DEF AfterCommit, HandlerPcs, Reversing, Releasing, HandlerRow
<1>14. PICK h : h = [handler[o] EXCEPT !.need = 0, !.pc = pc]
  OBVIOUS
<1>15. h \in HandlerRow /\ h.pc = pc /\ h.releasing = handler[o].releasing /\ h.others = handler[o].others
  BY <1>6, <1>13, <1>14 DEF HandlerRow
<1>16. handler' = [handler EXCEPT ![o] = h]
  BY <1>5, <1>12, <1>14
<1>17. handler' \in [Orders -> HandlerRow] /\ handler'[o] = h /\ \A p \in Orders \ {o} : handler'[p] = handler[p]
  BY <1>6, <1>15, <1>16 DEF Shapes
<1>18. Shapes'
  BY <1>4, <1>6, <1>9, <1>11, <1>17 DEF Shapes
<1>19. (Active' <=> Active) /\ Base' = Base /\ Target' = Target
       /\ (\A p : (Listed(p)' <=> Listed(p)) /\ (Incumbent(p)' <=> Incumbent(p)))
  BY <1>4, SameRow
<1>20. ASSUME NEW b \in Orders
       PROVE  /\ b # Base => Posted(b)' = Posted(b) /\ Shortfall(b)' = Shortfall(b)
              /\ b = Base => Posted(b)' = Target
  <2>1. claws \in [Orders -> ClawRow \cup {None}] /\ granted[b] \in Nat
    BY <1>6 DEF Shapes
  <2>2. /\ row.base = b => Asked(claws', OfBase(claws', b)) = Asked(claws, OfBase(claws, b)) + need
        /\ row.base # b => /\ Asked(claws', OfBase(claws', b)) = Asked(claws, OfBase(claws, b))
                           /\ Missed(claws', OfBase(claws', b)) = Missed(claws, OfBase(claws, b))
        /\ Asked(claws, OfBase(claws, b)) \in Int
    <3>1. claws'[o] # None /\ claws'[o].base = row.base /\ claws'[o].requested = need
      BY <1>10, <1>11
    <3> HIDE DEF OfBase
    <3> QED
      BY <1>7, <1>11, <2>1, <3>1, OneMore
  <2>3. Posted(b) = granted[b] - Asked(claws, OfBase(claws, b)) /\ Shortfall(b) = Missed(claws, OfBase(claws, b))
    BY PostedIs
  <2>4. Posted(b)' = granted'[b] - Asked(claws', OfBase(claws', b)) /\ Shortfall(b)' = Missed(claws', OfBase(claws', b))
    BY PostedIsNext
  <2>5. b # Base => Posted(b)' = Posted(b) /\ Shortfall(b)' = Shortfall(b)
    BY <1>4, <1>10, <2>2, <2>3, <2>4
  <2>6. b = Base => Posted(b)' = Target
    <3>1. SUFFICES ASSUME b = Base PROVE Posted(b)' = Target
      OBVIOUS
    <3>2. Posted(b)' = Posted(b) - need
      BY <1>4, <1>7, <1>10, <2>1, <2>2, <2>3, <2>4, <3>1
    <3> QED
      BY <1>7, <1>8, <3>1, <3>2
  <2> QED
    BY <2>5, <2>6
<1>21. RowInv'
  BY <1>4, <1>6, <1>19 DEF RowInv
<1>22. Listed(o) => ~Active
  BY <1>4, <1>6 DEF ListedInv
<1>23. ASSUME NEW p \in Orders PROVE OrderInv(p)' /\ OthersInv(p)' /\ ListedInv(p)'
  <2>1. OrderInv(p) /\ OthersInv(p) /\ ListedInv(p)
    BY Here
  <2>2. CASE p # o
    <3>1. handler'[p] = handler[p] /\ claws'[p] = claws[p]
      BY <1>11, <1>17, <2>2
    <3>2. OrderInv(p)' /\ OthersInv(p)'
      BY <1>4, <2>1, <3>1 DEF OrderInv, OthersInv
    <3>3. ListedInv(p)'
      BY <1>4, <1>19, <2>1, <3>1 DEF ListedInv
    <3> QED
      BY <3>2, <3>3
  <2>3. CASE p = o
    <3>1. OrderInv(o)'
      BY <1>4, <1>6, <1>9, <1>10, <1>11, <1>13, <1>15, <1>17
         DEF OrderInv, Buying, Reversing, Undoing, Releasing, Passed, Applied
    <3>2. OthersInv(o)'
      BY <1>4, <1>15, <1>17, <2>1, <2>3 DEF OthersInv
    <3>3. ListedInv(o)'
      BY <1>4, <1>6, <1>13, <1>15, <1>17, <1>19, <1>22 DEF ListedInv
    <3> QED
      BY <2>3, <3>1, <3>2, <3>3
  <2> QED
    BY <2>2, <2>3
<1>24. ASSUME NEW p \in Orders PROVE PostedInv(p)'
  <2>1. PostedInv(p) /\ ListedInv(p)
    BY Here
  <2>2. CASE p # Base
    <3>1. Posted(p)' = Posted(p) /\ Shortfall(p)' = Shortfall(p) /\ ~Incumbent(p)' /\ ~Incumbent(p)
      BY <1>19, <1>20, <2>2 DEF Incumbent
    <3> QED
      BY <1>4, <2>1, <3>1 DEF PostedInv
  <2>3. CASE p = Base
    <3>1. Posted(p)' = Target /\ Incumbent(p)' /\ Listed(p) /\ p \notin released /\ order[p].from = 0
      BY <1>6, <1>7, <1>8, <1>19, <1>20, <2>3 DEF Incumbent, RowInv
    <3>2. claws'[p] # None \/ handler'[p].pc \in Passed => ~Active
      <4>1. CASE p = o
        BY <1>22, <3>1, <4>1
      <4>2. CASE p # o
        BY <1>11, <1>17, <2>1, <3>1, <4>2 DEF ListedInv
      <4> QED
        BY <4>1, <4>2
    <3>3. ~Active => Target = 0
      BY DEF Target
    <3> QED
      BY <1>4, <1>8, <3>1, <3>2, <3>3 DEF PostedInv
  <2> QED
    BY <2>2, <2>3
<1>25. OverInv'
  <2>1. Posted(Base)' = Target'
    <3>1. PICK b : b = Base
      OBVIOUS
    <3>2. Posted(b)' = Target /\ Base' = b
      BY <1>8, <1>19, <1>20, <3>1
    <3> QED
      BY <1>19, <3>2, PostedIsNext
  <2> QED
    BY <1>8, <1>19, <2>1 DEF OverInv
<1> QED
  BY <1>4, <1>18, <1>21, <1>23, <1>24, <1>25, NothingRead DEF Inv

\* The row goes: the release had it taken back in full
LEMMA DeleteRowKeeps ==
    ASSUME Inv, NEW o \in Orders, Delete(o), Current(<<o, "row">>)
    PROVE  Inv'
<1>1. /\ order' = order /\ member' = None /\ marked' = marked /\ granted' = granted /\ claws' = claws
      /\ balance' = balance /\ sync' = sync /\ replaced' = replaced /\ cut' = cut /\ skipped' = skipped
      /\ current' = {} /\ handler[o].pc = "delete" /\ released' = released \cup {Base} /\ Goto(o, "record")
  BY DEF Delete, rows, At, WriteRow
<1>2. Shapes /\ RowInv /\ OrderInv(o) /\ PostedInv(o) /\ ReadInv(o)
  BY Here
<1>3. /\ Listed(o) /\ member # None /\ order[o].from = 0 /\ Shortfall(o) = 0
  BY <1>1, <1>2 DEF ReadInv, Listed
<1>4. Base = o
  <2>1. member.orders \in Seq(Orders)
    BY <1>2, <1>3, BaseListed
  <2>2. DOMAIN member.orders = 1..Len(member.orders) /\ Len(member.orders) \in Nat
    BY <2>1
  <2>3. PICK j \in 1..Len(member.orders) : member.orders[j] = o
    BY <1>3, <2>2 DEF Listed, ToSet
  <2>4. j \notin 2..Len(member.orders)
    BY <1>2, <1>3, <2>3 DEF RowInv
  <2>5. j = 1
    BY <2>2, <2>3, <2>4
  <2> QED
    BY <2>3, <2>5 DEF Base
<1>5. Posted(o) = 0
  BY <1>1, <1>2, <1>3, <1>4 DEF PostedInv, Incumbent, Passed
<1>6. "record" \in HandlerPcs
  BY DEF HandlerPcs, Reversing, Releasing, Passed
<1>7. /\ handler' \in [Orders -> HandlerRow] /\ handler'[o].pc = "record"
      /\ handler'[o].releasing = handler[o].releasing /\ handler'[o].others = handler[o].others
      /\ \A p \in Orders \ {o} : handler'[p] = handler[p]
  BY <1>1, <1>2, <1>6, GotoDoes
<1>8. Shapes'
  BY <1>1, <1>2, <1>4, <1>7 DEF Shapes
<1>9. RowInv' /\ OverInv'
  BY <1>1 DEF RowInv, OverInv
<1>10. ASSUME NEW p \in Orders PROVE OrderInv(p)' /\ OthersInv(p)' /\ ListedInv(p)' /\ PostedInv(p)'
  <2>1. OrderInv(p) /\ OthersInv(p) /\ PostedInv(p)
    BY Here
  <2>2. OthersInv(p)'
    BY <1>1, <1>7, <2>1 DEF OthersInv
  <2>3. OrderInv(p)'
    <3>1. CASE p = o
      BY <1>1, <1>2, <1>7, <3>1 DEF OrderInv, Buying, Reversing, Undoing, Releasing, Passed, Applied
    <3>2. CASE p # o
      BY <1>1, <1>4, <1>7, <2>1, <3>2 DEF OrderInv
    <3> QED
      BY <3>1, <3>2
  <2>4. ~Listed(p)' /\ ~Incumbent(p)'
    BY <1>1 DEF Listed, Incumbent
  <2>5. Posted(p)' = Posted(p) /\ Shortfall(p)' = Shortfall(p)
    BY <1>1, SamePosted
  <2>6. PostedInv(p)'
    <3>1. p = o => Posted(p) = 0 /\ Shortfall(p) = 0
      BY <1>3, <1>5
    <3>2. p # o => ~Incumbent(p)
      BY <1>4 DEF Incumbent
    <3> QED
      BY <1>1, <1>4, <2>1, <2>4, <2>5, <3>1, <3>2 DEF PostedInv
  <2>7. ListedInv(p)'
    BY <2>4 DEF ListedInv
  <2> QED
    BY <2>2, <2>3, <2>6, <2>7
<1> QED
  BY <1>1, <1>8, <1>9, <1>10, NothingRead DEF Inv


\* The last upgrade goes from the row
LEMMA DowngradeRowKeeps ==
    ASSUME Inv, NEW o \in Orders, Downgrade(o), Current(<<o, "row">>)
    PROVE  Inv'
<1>1. /\ order' = order /\ marked' = marked /\ granted' = granted /\ claws' = claws
      /\ balance' = balance /\ sync' = sync /\ replaced' = replaced /\ released' = released /\ cut' = cut
      /\ skipped' = skipped /\ current' = {} /\ handler[o].pc = "downgrade" /\ Goto(o, "claw")
      /\ member' = [member EXCEPT !.tier = order[o].from, !.disputed = @ \ {o},
                                  !.orders = SubSeq(@, 1, Len(@) - 1)]
  BY DEF Downgrade, rows, history, At, WriteRow
<1>2. Shapes /\ RowInv /\ OrderInv(o) /\ ListedInv(o) /\ ReadInv(o) /\ order[o] \in OrderRow
  BY Here
<1>3. Undo(o) = "downgrade"
  BY <1>1, <1>2 DEF ReadInv
<1>4. /\ Listed(o) /\ order[o].from # 0 /\ Active /\ member.tier = order[o].to
      /\ member.orders[Len(member.orders)] = o /\ member # None
  BY <1>3 DEF Undo, Active
<1>5. PICK s : s = member.orders
  OBVIOUS
<1>6. /\ member \in MemberRow /\ s \in Seq(Orders) /\ Len(s) \in Nat /\ DOMAIN s = 1..Len(s) /\ 1 \in 1..Len(s)
      /\ Base = s[1] /\ Base \in Orders /\ Listed(Base)
      /\ \A i \in 1..Len(s) : s[i] \in Orders
  <2>1. /\ member \in MemberRow /\ s \in Seq(Orders) /\ 1 \in 1..Len(s) /\ Base \in Orders /\ Listed(Base)
        /\ \A i \in 1..Len(s) : s[i] \in Orders
    BY <1>2, <1>4, <1>5, BaseListed
  <2> QED
    BY <1>5, <2>1 DEF Base
<1>7. Len(s) > 1 /\ Base # o
  <2>1. Base # o
    BY <1>2, <1>4 DEF RowInv
  <2> QED
    BY <1>4, <1>5, <1>6, <2>1
<1>8. PICK r : r = SubSeq(s, 1, Len(s) - 1)
  OBVIOUS
<1>9. r \in Seq(Orders) /\ Len(r) = Len(s) - 1 /\ DOMAIN r = 1..(Len(s) - 1) /\ \A i \in 1..(Len(s) - 1) : r[i] = s[i]
  BY ONLY <1>6, <1>7, <1>8
<1>10. PICK d : d = member.disputed \ {o}
  OBVIOUS
<1>11. PICK f : f = order[o].from
  OBVIOUS
<1>12. f \in Tiers /\ d \in SUBSET Orders
  <2>1. order[o].from = order[o].to - 1 /\ order[o].to \in Tiers /\ order[o].from \in Nat
    BY <1>2 DEF OrderInv, OrderRow
  <2>2. f \in Tiers
    BY <1>4, <1>11, <2>1, FoundingProt DEF Tiers
  <2>3. d \in SUBSET Orders
    BY <1>6, <1>10 DEF MemberRow
  <2> QED
    BY <2>2, <2>3
<1>13. member' = [member EXCEPT !.tier = f, !.disputed = d, !.orders = r]
  BY <1>1, <1>5, <1>6, <1>8, <1>10, <1>11 DEF MemberRow
<1>14. /\ member' \in MemberRow /\ member'.orders = r /\ member'.active = member.active
       /\ member'.reason = member.reason /\ member' # None
  <2>1. /\ member' \in MemberRow /\ member'.orders = r /\ member'.active = member.active
        /\ member'.reason = member.reason
    BY <1>6, <1>9, <1>12, <1>13 DEF MemberRow
  <2> QED
    BY <2>1, FoundingNames
<1>15. "claw" \in HandlerPcs
  BY DEF HandlerPcs, Reversing
<1>16. /\ handler' \in [Orders -> HandlerRow] /\ handler'[o].pc = "claw"
       /\ handler'[o].releasing = handler[o].releasing /\ handler'[o].others = handler[o].others
       /\ \A p \in Orders \ {o} : handler'[p] = handler[p]
  BY <1>1, <1>2, <1>15, GotoDoes
<1>17. Shapes'
  BY <1>1, <1>2, <1>14, <1>16 DEF Shapes
<1>18. Base' = Base /\ (Active' <=> Active)
  <2>1. r[1] = s[1]
    BY <1>6, <1>7, <1>9
  <2> QED
    BY <1>4, <1>6, <1>14, <2>1 DEF Base, Active
<1>19. ASSUME NEW p PROVE Listed(p)' <=> Listed(p) /\ p # o
  <2>1. Listed(p)' <=> \E i \in 1..(Len(s) - 1) : s[i] = p
    BY <1>9, <1>14 DEF Listed, ToSet
  <2>2. Listed(p) <=> \E i \in 1..Len(s) : s[i] = p
    BY <1>4, <1>5, <1>6 DEF Listed, ToSet
  <2>3. s[Len(s)] = o /\ \A i, j \in 1..Len(s) : s[i] = s[j] => i = j
    BY <1>2, <1>4, <1>5 DEF RowInv
  <2> QED
    BY <1>6, <1>7, <2>1, <2>2, <2>3
<1>20. \A p : Incumbent(p)' <=> Incumbent(p)
  BY <1>4, <1>14, <1>18 DEF Incumbent
<1>21. RowInv'
  <2>1. /\ \A i \in 2..Len(s) : order[s[i]].from # 0
        /\ \A i, j \in 1..Len(s) : s[i] = s[j] => i = j
        /\ (member.active <=> member.reason = "None") /\ order[Base].from = 0 /\ Base \notin replaced \cup released
    BY <1>2, <1>4, <1>5 DEF RowInv
  <2>2. /\ r # <<>>
        /\ \A i \in 2..Len(r) : order[r[i]].from # 0
        /\ \A i, j \in 1..Len(r) : r[i] = r[j] => i = j
    BY <1>6, <1>7, <1>9, <2>1
  <2>3. order' = order /\ replaced' = replaced /\ released' = released
    BY <1>1
  <2>4. member'.orders = r /\ Len(member'.orders) = Len(r)
    BY <1>14
  <2> QED
    BY <1>14, <1>18, <2>1, <2>2, <2>3, <2>4 DEF RowInv
<1>22. order[o].state = "Fulfilled" /\ order[o].reversed /\ claws[o] = None /\ order[o].home = Base
  BY <1>1, <1>2, <1>4 DEF OrderInv, ListedInv, Reversing, Undoing
<1>23. ASSUME NEW p \in Orders PROVE OrderInv(p)' /\ OthersInv(p)' /\ ListedInv(p)' /\ PostedInv(p)'
  <2>1. OrderInv(p) /\ OthersInv(p) /\ ListedInv(p) /\ PostedInv(p)
    BY Here
  <2>2. OthersInv(p)'
    BY <1>1, <1>16, <2>1 DEF OthersInv
  <2>3. OrderInv(p)'
    <3>1. CASE p = o
      BY <1>1, <1>2, <1>16, <3>1 DEF OrderInv, Buying, Reversing, Undoing, Releasing, Passed, Applied
    <3>2. CASE p # o
      BY <1>1, <1>16, <2>1, <3>2 DEF OrderInv
    <3> QED
      BY <3>1, <3>2
  <2>4. ListedInv(p)'
    <3>1. CASE p = o
      BY <1>16, <1>19, <3>1 DEF ListedInv
    <3>2. CASE p # o
      BY <1>1, <1>16, <1>18, <1>19, <2>1, <3>2 DEF ListedInv
    <3> QED
      BY <3>1, <3>2
  <2>5. PostedInv(p)'
    <3>1. Posted(p)' = Posted(p) /\ Shortfall(p)' = Shortfall(p)
      BY <1>1, SamePosted
    <3>2. handler'[p].pc \in Passed => handler[p].pc \in Passed
      BY <1>16 DEF Passed
    <3> QED
      BY <1>1, <1>20, <2>1, <3>1, <3>2 DEF PostedInv
  <2> QED
    BY <2>2, <2>3, <2>4, <2>5
<1>24. Blame(o)'
  BY <1>1, <1>16, <1>18, <1>19, <1>22 DEF Blame, Passed
<1>25. OverInv'
  BY <1>24 DEF OverInv
<1> QED
  BY <1>1, <1>17, <1>21, <1>23, <1>25, NothingRead DEF Inv


\* What both forms of apply_membership have in common
LEMMA ApplyDoes ==
    ASSUME Inv, NEW o \in Orders, Apply(o), Applicable(o)
    PROVE  /\ marked' = marked /\ granted' = granted /\ claws' = claws /\ balance' = balance /\ sync' = sync
           /\ released' = released /\ skipped' = skipped /\ current' = {} /\ Shapes /\ RowInv
           /\ order[o].state = "Paid" /\ ~Listed(o) /\ claws[o] = None
           /\ o \notin skipped /\ o \notin released /\ o \notin marked
           /\ handler' \in [Orders -> HandlerRow] /\ handler'[o].pc = "fulfil"
           /\ handler'[o].releasing = handler[o].releasing /\ handler'[o].others = handler[o].others
           /\ \A p \in Orders \ {o} : handler'[p] = handler[p]
           /\ order'[o].state = "Paid" /\ order'[o].from = order[o].from /\ order'[o].to = order[o].to
           /\ order'[o].pending = order[o].pending /\ order'[o].reversed = order[o].reversed
           /\ order'[o].home = (IF order[o].from = 0 THEN o ELSE Base)
           /\ \A p \in Orders \ {o} : order'[p] = order[p]
           /\ order'[o].home \in Orders => order' \in [Orders -> OrderRow]
<1>1. /\ Shapes /\ RowInv /\ OrderInv(o) /\ ListedInv(o) /\ handler[o].pc = "apply" /\ order[o] \in OrderRow
      /\ marked' = marked /\ granted' = granted /\ claws' = claws /\ balance' = balance /\ sync' = sync
      /\ released' = released /\ skipped' = skipped /\ current' = {} /\ Goto(o, "fulfil")
  BY Here DEF Apply, At, rows, WriteRow
<1>2. /\ order[o].state = "Paid" /\ ~Listed(o) /\ claws[o] = None
      /\ o \notin skipped /\ o \notin released /\ o \notin marked
  BY <1>1 DEF OrderInv, ListedInv, Buying, Applied
<1>3. "fulfil" \in HandlerPcs
  BY DEF HandlerPcs, Buying
<1>4. /\ handler' \in [Orders -> HandlerRow] /\ handler'[o].pc = "fulfil"
      /\ handler'[o].releasing = handler[o].releasing /\ handler'[o].others = handler[o].others
      /\ \A p \in Orders \ {o} : handler'[p] = handler[p]
  BY <1>1, <1>3, GotoDoes
<1>5. PICK home : home = (IF order[o].from = 0 THEN o ELSE Base) /\ order' = [order EXCEPT ![o].home = home]
  BY DEF Apply
<1>6. PICK x : x = [order[o] EXCEPT !.home = home]
  OBVIOUS
<1>7. /\ x.state = order[o].state /\ x.from = order[o].from /\ x.to = order[o].to /\ x.home = home
      /\ x.pending = order[o].pending /\ x.reversed = order[o].reversed /\ (home \in Orders => x \in OrderRow)
  BY <1>1, <1>6 DEF OrderRow
<1>8. order' = [order EXCEPT ![o] = x]
  BY <1>5, <1>6
<1>9. order'[o] = x /\ (\A p \in Orders \ {o} : order'[p] = order[p]) /\ (home \in Orders => order' \in [Orders -> OrderRow])
  BY <1>1, <1>7, <1>8 DEF Shapes
<1> QED
  BY <1>1, <1>2, <1>4, <1>5, <1>7, <1>9

\* The orders keep their invariants when one is applied
LEMMA ApplyOrders ==
    ASSUME Inv, NEW o \in Orders, Apply(o), Applicable(o), NEW p \in Orders
    PROVE  OrderInv(p)' /\ OthersInv(p)'
<1>1. OrderInv(p) /\ OthersInv(p) /\ handler[p].others \subseteq Orders
  BY Here
<1>2. /\ marked' = marked /\ claws' = claws /\ released' = released /\ skipped' = skipped
      /\ order[o].state = "Paid" /\ claws[o] = None
      /\ o \notin skipped /\ o \notin released /\ o \notin marked
      /\ handler'[o].pc = "fulfil"
      /\ handler'[o].releasing = handler[o].releasing /\ handler'[o].others = handler[o].others
      /\ (\A q \in Orders \ {o} : handler'[q] = handler[q])
      /\ order'[o].state = "Paid" /\ order'[o].from = order[o].from /\ order'[o].to = order[o].to
      /\ order'[o].pending = order[o].pending /\ order'[o].reversed = order[o].reversed
      /\ order'[o].home = (IF order[o].from = 0 THEN o ELSE Base)
      /\ (\A q \in Orders \ {o} : order'[q] = order[q])
  BY ApplyDoes
<1>3. OthersInv(p)'
  BY <1>1, <1>2 DEF OthersInv
<1>4. OrderInv(o)'
  <2>1. OrderInv(o)
    BY Here
  <2> QED
    BY <1>2, <2>1 DEF OrderInv, Buying, Reversing, Undoing, Releasing, Passed, Applied
<1>5. p # o => OrderInv(p)'
  BY <1>1, <1>2 DEF OrderInv
<1> QED
  BY <1>3, <1>4, <1>5

\* A purchase: the revoked row, if there is one, is replaced
LEMMA ApplyFreshKeeps ==
    ASSUME Inv, NEW o \in Orders, Apply(o), Applicable(o), order[o].from = 0
    PROVE  Inv'
<1>1. /\ marked' = marked /\ granted' = granted /\ claws' = claws /\ balance' = balance /\ sync' = sync
      /\ released' = released /\ skipped' = skipped /\ current' = {} /\ Shapes /\ RowInv
      /\ order[o].state = "Paid" /\ ~Listed(o) /\ claws[o] = None /\ o \notin released
      /\ handler' \in [Orders -> HandlerRow] /\ handler'[o].pc = "fulfil"
      /\ (\A p \in Orders \ {o} : handler'[p] = handler[p])
      /\ order'[o].state = "Paid" /\ order'[o].from = 0 /\ order'[o].home = o
      /\ (\A p \in Orders \ {o} : order'[p] = order[p])
      /\ order' \in [Orders -> OrderRow]
  BY ApplyDoes
<1>2. PICK old : old = (IF member # None THEN {Base} ELSE {})
  OBVIOUS
<1>3. PICK fresh : fresh = [orders |-> <<o>>, tier |-> order[o].to, active |-> TRUE, reason |-> "None", disputed |-> {}]
  OBVIOUS
<1>4. /\ member' = fresh /\ replaced' = (replaced \cup old) \ {o} /\ cut' = cut \cup {b \in old : Posted(b) > 0}
  BY <1>2, <1>3 DEF Apply, WriteRow
<1>5. old \subseteq Orders /\ o \notin old
  <2>1. member # None => Base \in Orders /\ Listed(Base)
    BY <1>1, BaseListed
  <2> QED
    BY <1>1, <1>2, <2>1
<1>6. /\ fresh \in MemberRow /\ fresh.orders = <<o>> /\ fresh.tier = order[o].to /\ fresh.active = TRUE
      /\ fresh.reason = "None" /\ fresh # None
  <2>1. order[o].to \in Tiers
    BY <1>1 DEF Shapes, OrderRow
  <2>2. <<o>> \in Seq(Orders) /\ {} \in SUBSET Orders
    OBVIOUS
  <2>3. /\ fresh.orders = <<o>> /\ fresh.tier = order[o].to /\ fresh.active = TRUE
        /\ fresh.reason = "None"
    BY <1>3
  <2>4. fresh \in MemberRow
    BY <1>3, <2>1, <2>2 DEF MemberRow
  <2> QED
    BY <2>3, <2>4, FoundingNames
<1>7. Shapes'
  BY <1>1, <1>4, <1>5, <1>6 DEF Shapes
<1>8. Base' = o /\ (\A p : Listed(p)' <=> p = o) /\ (\A p : Incumbent(p)' <=> p = o) /\ Target' = TierProt[order[o].to]
  BY <1>4, <1>6 DEF Base, Listed, ToSet, Incumbent, Target, Active
<1>9. RowInv'
  <2>1. Len(<<o>>) = 1 /\ <<o>> # <<>>
    OBVIOUS
  <2>2. \A i \in 2..1 : FALSE
    OBVIOUS
  <2> QED
    BY <1>1, <1>4, <1>6, <1>8, <2>1, <2>2 DEF RowInv
<1>10. ASSUME NEW p \in Orders PROVE ListedInv(p)' /\ PostedInv(p)'
  <2>1. PostedInv(p) /\ Posted(p) \in Int
    BY <1>1, Here, Numbers
  <2>2. ListedInv(p)'
    <3>1. CASE p = o
      BY <1>1, <1>8, <3>1 DEF ListedInv, Passed
    <3>2. CASE p # o
      BY <1>8, <3>2 DEF ListedInv
    <3> QED
      BY <3>1, <3>2
  <2>3. Posted(p)' = Posted(p) /\ Shortfall(p)' = Shortfall(p)
    BY <1>1, SamePosted
  <2>4. CASE p = o
    BY <1>1, <1>8, <2>1, <2>2, <2>3, <2>4 DEF PostedInv, Passed
  <2>5. CASE p # o
    <3>1. p \notin cut' => Posted(p) = 0
      BY <1>2, <1>4, <2>1 DEF PostedInv, Incumbent
    <3> QED
      BY <1>1, <1>4, <1>8, <2>1, <2>2, <2>3, <2>5, <3>1 DEF PostedInv
  <2> QED
    BY <2>2, <2>4, <2>5
<1>11. OverInv'
  <2>1. ~Incumbent(o)
    BY <1>1, BaseListed DEF Incumbent
  <2>2. o \notin cut => Posted(o) = 0
    BY <2>1, Here DEF PostedInv
  <2>3. Target' \in Nat
    <3>1. order[o].to \in Tiers
      BY <1>1 DEF Shapes, OrderRow
    <3> QED
      BY <1>8, <3>1, FoundingProt DEF Tiers
  <2>4. Posted(Base)' = Posted(o)
    BY <1>1, <1>8, PostedIs, PostedIsNext
  <2> QED
    BY <1>4, <1>8, <2>2, <2>3, <2>4 DEF OverInv
<1> QED
  BY <1>1, <1>7, <1>9, <1>10, <1>11, ApplyOrders, NothingRead DEF Inv

\* An upgrade: the row has one order more and a tier that brings no less
LEMMA ApplyUpgradeKeeps ==
    ASSUME Inv, NEW o \in Orders, Apply(o), Applicable(o), order[o].from # 0
    PROVE  Inv'
<1>1. /\ marked' = marked /\ granted' = granted /\ claws' = claws /\ balance' = balance /\ sync' = sync
      /\ released' = released /\ skipped' = skipped /\ current' = {} /\ Shapes /\ RowInv
      /\ order[o].state = "Paid" /\ ~Listed(o) /\ claws[o] = None /\ o \notin released /\ o \notin skipped
      /\ handler' \in [Orders -> HandlerRow] /\ handler'[o].pc = "fulfil"
      /\ (\A p \in Orders \ {o} : handler'[p] = handler[p])
      /\ order'[o].state = "Paid" /\ order'[o].from = order[o].from /\ order'[o].home = Base
      /\ (\A p \in Orders \ {o} : order'[p] = order[p])
      /\ (Base \in Orders => order' \in [Orders -> OrderRow])
  BY ApplyDoes
<1>2. Active /\ member # None /\ member.tier = order[o].from
  BY DEF Applicable, Active
<1>3. PICK s : s = member.orders
  OBVIOUS
<1>4. /\ member \in MemberRow /\ s \in Seq(Orders) /\ Len(s) \in Nat /\ DOMAIN s = 1..Len(s) /\ 1 \in 1..Len(s)
      /\ Base = s[1] /\ Base \in Orders /\ Listed(Base)
      /\ \A i \in 1..Len(s) : s[i] \in Orders
  <2>1. /\ member \in MemberRow /\ s \in Seq(Orders) /\ 1 \in 1..Len(s) /\ Base \in Orders /\ Listed(Base)
        /\ \A i \in 1..Len(s) : s[i] \in Orders
    BY <1>1, <1>2, <1>3, BaseListed
  <2> QED
    BY <1>3, <2>1 DEF Base
<1>5. PICK r : r = Append(s, o)
  OBVIOUS
<1>6. /\ r \in Seq(Orders) /\ Len(r) = Len(s) + 1 /\ DOMAIN r = 1..(Len(s) + 1)
      /\ r[Len(s) + 1] = o /\ \A i \in 1..Len(s) : r[i] = s[i]
  BY ONLY <1>4, <1>5, o \in Orders
<1>7. PICK t : t = order[o].to
  OBVIOUS
<1>8. t \in Tiers /\ member.tier \in Tiers /\ member.tier = t - 1
  <2>1. OrderInv(o) /\ order[o] \in OrderRow
    BY Here
  <2> QED
    BY <1>2, <1>4, <1>7, <2>1 DEF OrderInv, OrderRow, MemberRow
<1>9. member' = [member EXCEPT !.orders = r, !.tier = t] /\ replaced' = replaced \ {o} /\ cut' = cut
  <2>1. member' = [member EXCEPT !.orders = r, !.tier = t]
    BY <1>3, <1>4, <1>5, <1>7 DEF Apply, WriteRow, MemberRow
  <2> QED
    BY <2>1 DEF Apply
<1>10. /\ member' \in MemberRow /\ member'.orders = r /\ member'.tier = t /\ member'.active = member.active
       /\ member'.reason = member.reason /\ member' # None
  <2>1. /\ member' \in MemberRow /\ member'.orders = r /\ member'.tier = t /\ member'.active = member.active
        /\ member'.reason = member.reason
    BY <1>4, <1>6, <1>8, <1>9 DEF MemberRow
  <2> QED
    BY <2>1, FoundingNames
<1>11. Shapes'
  BY <1>1, <1>4, <1>9, <1>10 DEF Shapes
<1>12. Base' = Base /\ Active' /\ Target' = TierProt[t] /\ Target = TierProt[member.tier]
  <2>1. r[1] = s[1]
    BY <1>4, <1>6
  <2>2. Base' = Base /\ Active'
    BY <1>2, <1>4, <1>10, <2>1 DEF Base, Active
  <2> QED
    BY <1>2, <1>10, <2>2 DEF Target
<1>13. Target \in Nat /\ Target' \in Nat /\ Target <= Target'
  BY <1>8, <1>12, FoundingProt DEF Tiers
<1>14. ASSUME NEW p PROVE Listed(p)' <=> Listed(p) \/ p = o
  <2>1. Listed(p)' <=> \E i \in 1..(Len(s) + 1) : r[i] = p
    BY <1>6, <1>10 DEF Listed, ToSet
  <2>2. Listed(p) <=> \E i \in 1..Len(s) : s[i] = p
    BY <1>2, <1>3, <1>4 DEF Listed, ToSet
  <2> QED
    BY <1>4, <1>6, <2>1, <2>2
<1>15. \A p : Incumbent(p)' <=> Incumbent(p)
  BY <1>2, <1>10, <1>12 DEF Incumbent
<1>16. Base # o
  BY <1>1, <1>4
<1>17. RowInv'
  <2>1. /\ \A i \in 2..Len(s) : order[s[i]].from # 0
        /\ \A i, j \in 1..Len(s) : s[i] = s[j] => i = j
        /\ (member.active <=> member.reason = "None") /\ order[Base].from = 0 /\ Base \notin replaced \cup released
    BY <1>1, <1>2, <1>3 DEF RowInv
  <2>2. \A i \in 1..Len(s) : s[i] # o
    BY <1>1, <1>2, <1>3, <1>4 DEF Listed, ToSet
  <2>3. r # <<>>
    BY <1>4, <1>6
  <2>4. \A i \in 2..Len(r) : order'[r[i]].from # 0
    <3> SUFFICES ASSUME NEW i \in 2..Len(r) PROVE order'[r[i]].from # 0
      OBVIOUS
    <3>1. CASE i = Len(s) + 1
      BY <1>1, <1>6, <3>1
    <3>2. CASE i # Len(s) + 1
      <4>1. i \in 2..Len(s) /\ i \in 1..Len(s)
        BY <1>4, <1>6, <3>2
      <4> QED
        BY <1>1, <1>4, <1>6, <2>1, <2>2, <4>1
    <3> QED
      BY <3>1, <3>2
  <2>5. \A i, j \in 1..Len(r) : r[i] = r[j] => i = j
    BY <1>4, <1>6, <2>1, <2>2
  <2>6. order'[Base].from = 0
    BY <1>1, <1>4, <1>16, <2>1
  <2> QED
    BY <1>1, <1>9, <1>10, <1>12, <2>1, <2>3, <2>4, <2>5, <2>6 DEF RowInv
<1>18. ASSUME NEW p \in Orders PROVE ListedInv(p)' /\ PostedInv(p)'
  <2>1. PostedInv(p) /\ ListedInv(p)
    BY Here
  <2>2. ListedInv(p)'
    <3>1. CASE p = o
      BY <1>1, <1>12, <3>1 DEF ListedInv, Passed
    <3>2. CASE p # o
      BY <1>1, <1>2, <1>12, <1>14, <2>1, <3>2 DEF ListedInv
    <3> QED
      BY <3>1, <3>2
  <2>3. Posted(p)' = Posted(p) /\ Shortfall(p)' = Shortfall(p)
    BY <1>1, SamePosted
  <2>4. handler'[p].pc \in Passed => handler[p].pc \in Passed
    BY <1>1 DEF Passed
  <2>5. PostedInv(p)'
    BY <1>1, <1>9, <1>15, <2>1, <2>3, <2>4 DEF PostedInv
  <2> QED
    BY <2>2, <2>5
<1>19. OverInv'
  <2>1. SUFFICES ASSUME Posted(Base)' > Target', Base' \notin cut'
                 PROVE  (\E p \in Orders : Blame(p)') \/ (\E p \in skipped' : order'[p].home = Base')
    BY DEF OverInv
  <2>2. Posted(Base)' = Posted(Base) /\ Posted(Base) \in Int
    BY <1>1, <1>4, <1>12, Numbers, PostedIs, PostedIsNext
  <2>3. Posted(Base) > Target /\ Base \notin cut
    BY <1>9, <1>12, <1>13, <2>1, <2>2
  <2>4. (\E p \in Orders : Blame(p)) \/ (\E p \in skipped : order[p].home = Base)
    BY <1>2, <2>3 DEF Inv, OverInv
  <2>5. \A p \in skipped : p \in Orders /\ p # o
    BY <1>1 DEF Shapes
  <2>6. ASSUME NEW p \in Orders, Blame(p) PROVE Blame(p)'
    <3>1. p # o
      BY <1>1, <2>6 DEF Blame
    <3> QED
      BY <1>1, <1>2, <1>12, <1>14, <2>6, <3>1 DEF Blame
  <2> QED
    BY <1>1, <1>12, <2>4, <2>5, <2>6
<1> QED
  BY <1>1, <1>11, <1>17, <1>18, <1>19, ApplyOrders, NothingRead DEF Inv

-----------------------------------------------------------------------------
(* The theorems                                                            *)

LEMMA InitInv ==
    ASSUME Init
    PROVE  Inv
<1>1. /\ order = [o \in Orders |-> NoOrder] /\ handler = [o \in Orders |-> NoHandler]
      /\ member = None /\ marked = {} /\ granted = [o \in Orders |-> 0] /\ claws = [o \in Orders |-> None]
      /\ balance = 0 /\ sync = [s \in Syncers |-> 0] /\ current = {}
      /\ replaced = {} /\ released = {} /\ cut = {} /\ skipped = {}
  BY DEF Init
<1>2. PICK x : x = [state |-> "None", from |-> 0, to |-> 1, pending |-> FALSE, reversed |-> FALSE, home |-> 0]
  OBVIOUS
<1>3. /\ NoOrder = x /\ x.state = "None" /\ x.from = 0 /\ x.to = 1 /\ x.pending = FALSE /\ x.home = 0
      /\ x \in OrderRow
  <2>1. 1 \in Tiers
    BY FoundingProt DEF Tiers
  <2> QED
    BY <1>2, <2>1 DEF NoOrder, OrderRow
<1>4. Shapes
  BY <1>1, <1>3, NoHandlerIs DEF Shapes
<1>5. RowInv /\ OverInv
  BY <1>1 DEF RowInv, OverInv
<1>6. ASSUME NEW b \in Orders PROVE Posted(b) = 0 /\ Shortfall(b) = 0
  <2>1. OfBase(claws, b) = {}
    BY <1>1 DEF OfBase
  <2>2. Asked(claws, {}) = 0 /\ Missed(claws, {}) = 0
    <3>1. PICK a : a = [p \in {} |-> 0]
      OBVIOUS
    <3>2. Asked(claws, {}) = Total(a, {}) /\ Missed(claws, {}) = Total(a, {})
      BY FS_EmptySet, AskedIsTotal, MissedIsTotal
    <3> QED
      BY <3>2, TotalEmpty
  <2>3. granted[b] = 0
    BY <1>1
  <2> QED
    BY <2>1, <2>2, <2>3, PostedIs
<1>7. ASSUME NEW o \in Orders
      PROVE  OrderInv(o) /\ OthersInv(o) /\ ListedInv(o) /\ PostedInv(o) /\ ClawInv(o) /\ ReadInv(o)
  <2>1. order[o] = x /\ handler[o] = NoHandler /\ claws[o] = None
    BY <1>1, <1>3
  <2>2. OrderInv(o) /\ OthersInv(o)
    BY <1>1, <1>3, <2>1, NoHandlerIs DEF OrderInv, OthersInv, Buying, Reversing, Undoing, Releasing, Passed
  <2>3. ListedInv(o) /\ PostedInv(o)
    BY <1>1, <1>6 DEF ListedInv, PostedInv, Listed, Incumbent
  <2>4. ClawInv(o) /\ ReadInv(o)
    BY <1>1 DEF ClawInv, ReadInv, Current
  <2> QED
    BY <2>2, <2>3, <2>4
<1>8. \A s \in Syncers : SyncInv(s)
  BY <1>1 DEF SyncInv, Current
<1> QED
  BY <1>4, <1>5, <1>7, <1>8 DEF Inv

LEMMA OrderStepKeeps ==
    ASSUME Inv, NEW o \in Orders, OrderStep(o)
    PROVE  Inv'
<1>1. CASE Judge(o) \/ Fulfil(o) \/ Plan(o) \/ Revoke(o) \/ Refunded(o)
  BY <1>1, JudgeKeeps, FulfilKeeps, PlanKeeps, RevokeKeeps, RefundedKeeps
<1>2. CASE Mark(o) \/ Check(o) \/ Upgrades(o) \/ Record(o) \/ Unmark(o)
  BY <1>2, MarkKeeps, CheckKeeps, UpgradesKeeps, RecordKeeps, UnmarkKeeps
<1>3. CASE Apply(o)
  BY <1>3, ApplyVoidKeeps, ApplyFreshKeeps, ApplyUpgradeKeeps
<1>4. CASE Downgrade(o)
  BY <1>4, DowngradeStaleKeeps, DowngradeRowKeeps
<1>5. CASE Claw(o)
  BY <1>5, ClawSettledKeeps, ClawReadKeeps
<1>6. CASE Commit(o)
  BY <1>6, CommitStaleKeeps, CommitPostsKeeps
<1>7. CASE Release(o)
  BY <1>7, ReleaseGoneKeeps, ReleaseRevokesKeeps, ReleaseReadsKeeps
<1>8. CASE Delete(o)
  BY <1>8, DeleteStaleKeeps, DeleteRowKeeps
<1> QED
  BY <1>1, <1>2, <1>3, <1>4, <1>5, <1>6, <1>7, <1>8 DEF OrderStep

LEMMA StepKeeps ==
    ASSUME Inv, [Next]_vars
    PROVE  Inv'
<1>1. ASSUME NEW o \in Orders,
             \/ Checkout(o) \/ Expire(o) \/ Pay(o) \/ Resume(o) \/ RecordPending(o) \/ LostAfterRefund(o)
             \/ StartRelease(o) \/ OrderStep(o) \/ Dispute(o) \/ Crash(o)
      PROVE  Inv'
  <2>1. CASE Checkout(o) \/ Expire(o) \/ Pay(o) \/ Resume(o) \/ RecordPending(o)
    BY <2>1, CheckoutKeeps, ExpireKeeps, PayKeeps, ResumeKeeps, RecordPendingKeeps
  <2>2. CASE LostAfterRefund(o) \/ StartRelease(o) \/ OrderStep(o) \/ Dispute(o) \/ Crash(o)
    BY <2>2, LostAfterRefundKeeps, StartReleaseKeeps, OrderStepKeeps, DisputeKeeps, CrashKeeps
  <2> QED
    BY <1>1, <2>1, <2>2
<1>2. ASSUME NEW o \in Orders, NEW inWindow \in BOOLEAN, NEW why \in {"Refund", "DisputeLost"},
             StartReverse(o, why, inWindow)
      PROVE  Inv'
  BY <1>2, StartReverseKeeps
<1>3. ASSUME NEW s \in Syncers, SyncRead(s) \/ SyncCommit(s) PROVE Inv'
  BY <1>3, SyncReadKeeps, SyncStaleKeeps, SyncPostsKeeps
<1>4. CASE Spend
  <2>1. balance' \in Nat
    BY <1>4 DEF Spend, Inv, Shapes
  <2> QED
    BY <1>4, <2>1, WalletKeeps DEF Spend
<1>5. CASE UNCHANGED vars
  <2>1. balance' \in Nat
    BY <1>5 DEF vars, Inv, Shapes
  <2>2. UNCHANGED <<order, handler, member, marked, granted, claws, sync, current, history>>
    BY <1>5 DEF vars, history
  <2> QED
    BY <2>1, <2>2, WalletKeeps
<1> QED
  BY <1>1, <1>2, <1>3, <1>4, <1>5 DEF Next

\* Every reachable state satisfies the inductive invariant
THEOREM FoundingInvariant == Spec => []Inv
<1>1. Init => Inv
  BY InitInv
<1>2. Inv /\ [Next]_vars => Inv'
  BY StepKeeps
<1> QED
  BY <1>1, <1>2, PTL DEF Spec

\* Rows keep their shapes, a revoked row has a reason, and no clawback overdraws the wallet
THEOREM FoundingTypes == Spec => []TypeOK
<1>1. Inv => TypeOK
  <2> SUFFICES ASSUME Inv PROVE TypeOK
    OBVIOUS
  <2>1. Shapes /\ RowInv
    BY DEF Inv
  <2>2. ASSUME NEW o \in Orders
        PROVE  /\ order[o].state \in {"None", "Pending", "Expired", "Paid", "Fulfilled", "Refunded", "Voided"}
               /\ order[o].to \in Tiers /\ order[o].from = order[o].to - 1
    BY Here DEF OrderRow, OrderInv
  <2>3. ASSUME NEW o \in Orders, claws[o] # None
        PROVE  claws[o].requested >= claws[o].amount /\ claws[o].amount >= 0
    <3>1. claws[o] \in ClawRow /\ OrderInv(o)
      BY <2>1, <2>3, Here DEF Shapes
    <3> QED
      BY <2>3, <3>1 DEF ClawRow, OrderInv
  <2>4. member # None => /\ member.orders \in Seq(Orders) \ {<<>>} /\ member.tier \in Tiers
                         /\ (member.active <=> member.reason = "None")
    BY <2>1 DEF Shapes, MemberRow, RowInv
  <2> QED
    BY <2>1, <2>2, <2>3, <2>4 DEF TypeOK, Shapes
<1> QED
  BY <1>1, FoundingInvariant, PTL

\* PROT_CIPHER_OVERPOSTED (clawback_cipher_prot): a membership has more Prot than its tier
\* brings only while a reversal that will take it back is open, or for the named exceptions
THEOREM FoundingOverPosted == Spec => []OverPosted
<1>1. Inv => OverPosted
  BY DEF Inv, OverInv, OverPosted, Blame, Unfinished
<1> QED
  BY <1>1, FoundingInvariant, PTL

\* However the clawbacks of a membership's orders race (the version bump of the commit),
\* none takes back what another already has
THEOREM FoundingNeverClawedTwice == Spec => []NeverClawedTwice
<1>1. Inv => NeverClawedTwice
  BY DEF Inv, PostedInv, NeverClawedTwice
<1> QED
  BY <1>1, FoundingInvariant, PTL

\* A row that was released, or replaced after its clawback, has nothing posted
\* (finish_number_release_locked, apply_membership)
THEOREM FoundingPastSettled == Spec => []PastSettled
<1>1. Inv => PastSettled
  <2> SUFFICES ASSUME Inv, NEW b \in (replaced \ cut) \cup released PROVE Posted(b) = 0
    BY DEF PastSettled
  <2>1. b \in Orders
    BY DEF Inv, Shapes
  <2>2. PostedInv(b) /\ RowInv
    BY <2>1, Here
  <2> QED
    BY <2>2 DEF PostedInv, RowInv, Incumbent
<1> QED
  BY <1>1, FoundingInvariant, PTL

\* A number goes back to the pool only when every Prot of its membership was taken back
\* (the shortfall check of finish_number_release_locked)
THEOREM FoundingReleasedUnspent == Spec => []ReleasedUnspent
<1>1. Inv => ReleasedUnspent
  BY DEF Inv, Shapes, PostedInv, ReleasedUnspent
<1> QED
  BY <1>1, FoundingInvariant, PTL
=============================================================================
