-------------------------- MODULE ProtWalletProofs --------------------------
(***************************************************************************)
(* Proofs about ProtWallet for any orders, workers, adjustments and        *)
(* amounts, wherever a worker may outlive its lease.                       *)
(***************************************************************************)
EXTENDS ProtWallet, FiniteSetTheorems, TLAPS

-----------------------------------------------------------------------------
(* Sums over a finite set: a sum does not depend on the order in which the elements are taken. *)
(* Induction over the set is the choice of a smallest counterexample                           *)

Some(s) == CHOOSE x \in s : TRUE

\* g adds the weights of every subset of S, one element after the other: the function that
\* MapThenSumSet computes with
Adds(a, S, g) ==
    g = [s \in SUBSET S |-> IF s = {} THEN 0 ELSE a[Some(s)] + g[s \ {Some(s)}]]

Total(a, S) == (CHOOSE g : Adds(a, S, g))[S]

\* Among the subsets of a finite set that have a property, one is smallest
LEMMA SmallestSubset ==
    ASSUME NEW S, IsFiniteSet(S), NEW T, T \subseteq SUBSET S, T # {}
    PROVE  \E s \in T : \A t \in T : t \subseteq s => t = s
<1>1. T \subseteq FiniteSubsetsOf(S)
  BY FS_Subset DEF FiniteSubsetsOf
<1>2. \E s \in T : \A t \in T : <<t, s>> \notin StrictSubsetOrdering(S)
  BY <1>1, FS_StrictSubsetOrderingWellFounded, WFMin
<1> QED
  BY <1>2 DEF StrictSubsetOrdering

LEMMA SomeElement ==
    ASSUME NEW s, s # {}
    PROVE  Some(s) \in s
BY DEF Some

LEMMA AddsAt ==
    ASSUME NEW a, NEW S, NEW g, Adds(a, S, g), NEW s \in SUBSET S
    PROVE  /\ s = {} => g[s] = 0
           /\ s # {} => g[s] = a[Some(s)] + g[s \ {Some(s)}]
BY DEF Adds

\* Two such functions agree wherever both are defined and their weights agree
LEMMA AddsAgree ==
    ASSUME NEW a, NEW b, NEW S, NEW V \in SUBSET S, IsFiniteSet(V), NEW g, NEW k,
           Adds(a, S, g), Adds(b, V, k), \A x \in V : a[x] = b[x]
    PROVE  g[V] = k[V]
<1>0. PICK bad : bad = {t \in SUBSET V : g[t] # k[t]}
  OBVIOUS
<1>1. SUFFICES ASSUME bad # {} PROVE FALSE
  BY <1>0, V \in SUBSET V
<1>2. PICK t \in bad : \A u \in bad : u \subseteq t => u = t
  <2>1. bad \subseteq SUBSET V
    BY <1>0
  <2> QED
    BY ONLY <1>1, <2>1, IsFiniteSet(V), SmallestSubset
<1>3. t \in SUBSET V /\ t \in SUBSET S /\ g[t] # k[t]
  BY <1>0
<1>4. t # {}
  <2>1. t = {} => g[t] = 0
    BY ONLY <1>3, Adds(a, S, g), AddsAt
  <2>2. t = {} => k[t] = 0
    BY ONLY <1>3, Adds(b, V, k), AddsAt
  <2> QED
    BY <1>3, <2>1, <2>2
<1>5. Some(t) \in t
  BY <1>4, SomeElement
<1>6. t \ {Some(t)} \in SUBSET V /\ t \ {Some(t)} \subseteq t /\ t \ {Some(t)} # t
  BY <1>3, <1>5
<1>7. g[t \ {Some(t)}] = k[t \ {Some(t)}]
  BY <1>0, <1>2, <1>6
<1>8. a[Some(t)] = b[Some(t)]
  BY <1>3, <1>5
<1>9. g[t] = a[Some(t)] + g[t \ {Some(t)}]
  BY <1>3, <1>4, AddsAt
<1>10. k[t] = b[Some(t)] + k[t \ {Some(t)}]
  BY ONLY <1>3, <1>4, Adds(b, V, k), AddsAt
<1> QED
  BY <1>3, <1>7, <1>8, <1>9, <1>10

\* There is one for every finite set
LEMMA AddsExists ==
    ASSUME NEW a, NEW S, IsFiniteSet(S)
    PROVE  \E g : Adds(a, S, g)
<1>0. PICK bad : bad = {t \in SUBSET S : ~\E g : Adds(a, t, g)}
  OBVIOUS
<1>1. SUFFICES ASSUME bad # {} PROVE FALSE
  BY <1>0
<1>2. PICK t \in bad : \A u \in bad : u \subseteq t => u = t
  <2>1. bad \subseteq SUBSET S
    BY <1>0
  <2> QED
    BY ONLY <1>1, <2>1, IsFiniteSet(S), SmallestSubset
<1>3. t \in SUBSET S /\ IsFiniteSet(t) /\ ~\E g : Adds(a, t, g)
  BY <1>0, FS_Subset
<1>4. \A u \in SUBSET t : u # t => Adds(a, u, CHOOSE g : Adds(a, u, g)) /\ IsFiniteSet(u)
  <2> SUFFICES ASSUME NEW u \in SUBSET t, u # t
               PROVE  Adds(a, u, CHOOSE g : Adds(a, u, g)) /\ IsFiniteSet(u)
    OBVIOUS
  <2>1. \E g : Adds(a, u, g)
    BY <1>0, <1>2, <1>3
  <2>2. IsFiniteSet(u)
    BY <1>3, FS_Subset
  <2> QED
    BY <2>1, <2>2
<1> DEFINE G(u) == CHOOSE g : Adds(a, u, g)
           h == [s \in SUBSET t |-> IF s = {} THEN 0
                                    ELSE a[Some(s)] + G(s \ {Some(s)})[s \ {Some(s)}]]
<1>5. ASSUME NEW u \in SUBSET t, u # t
      PROVE  h[u] = G(u)[u]
  <2>1. Adds(a, u, G(u)) /\ IsFiniteSet(u)
    BY <1>4, <1>5
  <2>2. CASE u = {}
    BY <2>1, <2>2, AddsAt
  <2>3. CASE u # {}
    <3> DEFINE v == u \ {Some(u)}
    <3>1. Some(u) \in u
      BY <2>3, SomeElement
    <3>2. v \in SUBSET t /\ v # t /\ v \in SUBSET u
      BY <3>1
    <3>3. Adds(a, v, G(v)) /\ IsFiniteSet(v)
      BY <1>4, <3>2
    <3>4. PICK g, k : g = G(u) /\ k = G(v)
      OBVIOUS
    <3>5. Adds(a, u, g) /\ Adds(a, v, k)
      BY <2>1, <3>3, <3>4
    <3>6. g[v] = k[v]
      BY ONLY <3>2, <3>3, <3>5, AddsAgree
    <3>7. G(u)[u] = a[Some(u)] + G(u)[v]
      BY <2>1, <2>3, AddsAt
    <3>8. h[u] = a[Some(u)] + G(v)[v]
      BY <2>3
    <3> QED
      BY <3>4, <3>6, <3>7, <3>8
  <2> QED
    BY <2>2, <2>3
<1>6. ASSUME NEW s \in SUBSET t
      PROVE  h[s] = IF s = {} THEN 0 ELSE a[Some(s)] + h[s \ {Some(s)}]
  <2>1. CASE s = {}
    BY <2>1
  <2>2. CASE s # {}
    <3>1. Some(s) \in s
      BY <2>2, SomeElement
    <3>2. s \ {Some(s)} \in SUBSET t /\ s \ {Some(s)} # t
      BY <3>1
    <3>3. h[s \ {Some(s)}] = G(s \ {Some(s)})[s \ {Some(s)}]
      BY <1>5, <3>2
    <3>4. h[s] = a[Some(s)] + G(s \ {Some(s)})[s \ {Some(s)}]
      BY <2>2
    <3> QED
      BY <2>2, <3>3, <3>4
  <2> QED
    BY <2>1, <2>2
<1>7. h = [s \in SUBSET t |-> h[s]]
  OBVIOUS
<1> HIDE DEF h
<1>8. h = [s \in SUBSET t |-> IF s = {} THEN 0 ELSE a[Some(s)] + h[s \ {Some(s)}]]
  BY <1>6, <1>7
<1> QED
  BY <1>3, <1>8 DEF Adds

LEMMA TotalAdds ==
    ASSUME NEW a, NEW S, IsFiniteSet(S), NEW g, Adds(a, S, g)
    PROVE  Total(a, S) = g[S]
<1>1. Adds(a, S, CHOOSE k : Adds(a, S, k))
  OBVIOUS
<1> QED
  BY <1>1, AddsAgree DEF Total

LEMMA TotalEmpty ==
    ASSUME NEW a
    PROVE  Total(a, {}) = 0
<1>1. PICK g : Adds(a, {}, g)
  BY AddsExists, FS_EmptySet
<1>2. g[{}] = 0
  BY <1>1, AddsAt
<1> QED
  BY <1>1, <1>2, TotalAdds, FS_EmptySet

\* A total of integers is an integer, and any element may be the one taken out first
LEMMA TotalTakes ==
    ASSUME NEW a, NEW S, IsFiniteSet(S), \A x \in S : a[x] \in Int
    PROVE  /\ Total(a, S) \in Int
           /\ \A x \in S : Total(a, S) = a[x] + Total(a, S \ {x})
<1>1. PICK g : Adds(a, S, g)
  BY AddsExists
<1>2. \A s \in SUBSET S : s # {} => Some(s) \in s /\ s \ {Some(s)} \in SUBSET S /\ s \ {Some(s)} # s
  BY SomeElement
<1>3. \A s \in SUBSET S : g[s] = Total(a, s)
  <2> SUFFICES ASSUME NEW s \in SUBSET S PROVE g[s] = Total(a, s)
    OBVIOUS
  <2>1. IsFiniteSet(s)
    BY FS_Subset
  <2>2. PICK k : Adds(a, s, k)
    BY <2>1, AddsExists
  <2>3. g[s] = k[s]
    BY ONLY <1>1, <2>1, <2>2, s \in SUBSET S, AddsAgree
  <2> QED
    BY <2>1, <2>2, <2>3, TotalAdds
<1>4. \A s \in SUBSET S : g[s] \in Int
  <2>0. PICK bad : bad = {s \in SUBSET S : g[s] \notin Int}
    OBVIOUS
  <2>1. SUFFICES ASSUME bad # {} PROVE FALSE
    BY <2>0
  <2>2. PICK t \in bad : \A u \in bad : u \subseteq t => u = t
    <3>1. bad \subseteq SUBSET S
      BY <2>0
    <3> QED
      BY ONLY <2>1, <3>1, IsFiniteSet(S), SmallestSubset
  <2>3. t \in SUBSET S /\ g[t] \notin Int
    BY <2>0
  <2>4. t # {}
    BY ONLY <1>1, <2>3, AddsAt, 0 \in Int
  <2>5. g[t] = a[Some(t)] + g[t \ {Some(t)}]
    BY <1>1, <2>3, <2>4, AddsAt
  <2>6. g[t \ {Some(t)}] \in Int
    BY <1>2, <2>0, <2>2, <2>3, <2>4
  <2>7. a[Some(t)] \in Int
    BY <1>2, <2>3, <2>4
  <2> QED
    BY <2>3, <2>5, <2>6, <2>7
<1>5. \A s \in SUBSET S : \A x \in s : g[s] = a[x] + g[s \ {x}]
  <2>0. PICK bad : bad = {s \in SUBSET S : ~\A x \in s : g[s] = a[x] + g[s \ {x}]}
    OBVIOUS
  <2>1. SUFFICES ASSUME bad # {} PROVE FALSE
    BY <2>0
  <2>2. PICK t \in bad : \A u \in bad : u \subseteq t => u = t
    <3>1. bad \subseteq SUBSET S
      BY <2>0
    <3> QED
      BY ONLY <2>1, <3>1, IsFiniteSet(S), SmallestSubset
  <2>a. t \in SUBSET S
    BY <2>0
  <2>3. PICK x \in t : g[t] # a[x] + g[t \ {x}]
    BY <2>0
  <2>4. PICK p : p = Some(t)
    OBVIOUS
  <2>5. p \in t /\ g[t] = a[p] + g[t \ {p}]
    BY <1>1, <1>2, <2>a, <2>3, <2>4, AddsAt
  <2>6. p # x
    BY <2>3, <2>5
  <2>7. \A u \in SUBSET S : u \subseteq t /\ u # t => \A y \in u : g[u] = a[y] + g[u \ {y}]
    BY <2>0, <2>2
  <2>8. /\ t \ {p} \in SUBSET S /\ t \ {p} # t /\ x \in t \ {p}
        /\ t \ {x} \in SUBSET S /\ t \ {x} # t /\ p \in t \ {x}
        /\ (t \ {p}) \ {x} = (t \ {x}) \ {p} /\ (t \ {p}) \ {x} \in SUBSET S
    BY <2>a, <2>5, <2>6
  <2>9. g[t \ {p}] = a[x] + g[(t \ {p}) \ {x}]
    BY <2>7, <2>8
  <2>10. g[t \ {x}] = a[p] + g[(t \ {x}) \ {p}]
    BY <2>7, <2>8
  <2>11. a[x] \in Int /\ a[p] \in Int /\ g[(t \ {p}) \ {x}] \in Int
    BY <1>4, <2>a, <2>5, <2>8
  <2>12. PICK ax, ap, r : ax = a[x] /\ ap = a[p] /\ r = g[(t \ {p}) \ {x}]
    OBVIOUS
  <2>13. g[t] = ap + (ax + r) /\ g[t \ {x}] = ap + r
    BY <2>5, <2>8, <2>9, <2>10, <2>12
  <2>14. ax \in Int /\ ap \in Int /\ r \in Int /\ g[t] # ax + g[t \ {x}]
    BY <2>3, <2>11, <2>12
  <2> QED
    BY <2>13, <2>14
<1> QED
  BY <1>3, <1>4, <1>5

\* One element more adds its own weight
LEMMA TotalAdd ==
    ASSUME NEW a, NEW S, IsFiniteSet(S), NEW x, x \notin S, \A y \in S \cup {x} : a[y] \in Int
    PROVE  Total(a, S \cup {x}) = Total(a, S) + a[x] /\ Total(a, S) \in Int
<1>1. IsFiniteSet(S \cup {x}) /\ x \in S \cup {x} /\ (S \cup {x}) \ {x} = S
  BY FS_AddElement
<1>2. Total(a, S \cup {x}) = a[x] + Total(a, S)
  BY <1>1, TotalTakes
<1>3. Total(a, S) \in Int
  BY TotalTakes
<1> QED
  BY <1>2, <1>3

\* With weights that are natural numbers a larger set has a larger total
LEMMA TotalGrows ==
    ASSUME NEW a, NEW S, IsFiniteSet(S), NEW V \in SUBSET S, \A x \in S : a[x] \in Nat
    PROVE  Total(a, V) \in Nat /\ Total(a, S) \in Nat /\ Total(a, V) <= Total(a, S)
<1>1. \A t \in SUBSET S : Total(a, t) \in Int /\ \A x \in t : Total(a, t) = a[x] + Total(a, t \ {x})
  <2> SUFFICES ASSUME NEW t \in SUBSET S
               PROVE  Total(a, t) \in Int /\ \A x \in t : Total(a, t) = a[x] + Total(a, t \ {x})
    OBVIOUS
  <2>1. IsFiniteSet(t) /\ \A x \in t : a[x] \in Int
    BY FS_Subset
  <2> QED
    BY ONLY <2>1, TotalTakes
<1>2. ASSUME NEW U \in SUBSET S, NEW T \in SUBSET S, U \subseteq T
      PROVE  Total(a, U) <= Total(a, T)
  <2>0. PICK bad : bad = {t \in SUBSET S : U \subseteq t /\ ~(Total(a, U) <= Total(a, t))}
    OBVIOUS
  <2>1. SUFFICES ASSUME bad # {} PROVE FALSE
    BY <1>2, <2>0
  <2>2. PICK t \in bad : \A u \in bad : u \subseteq t => u = t
    <3>1. bad \subseteq SUBSET S
      BY <2>0
    <3> QED
      BY ONLY <2>1, <3>1, IsFiniteSet(S), SmallestSubset
  <2>3. t \in SUBSET S /\ U \subseteq t /\ ~(Total(a, U) <= Total(a, t))
    BY <2>0
  <2>4. t # U
    BY <1>1, <2>3
  <2>5. PICK x \in t : x \notin U
    BY <2>3, <2>4
  <2>6. t \ {x} \in SUBSET S /\ U \subseteq t \ {x} /\ t \ {x} \subseteq t /\ t \ {x} # t
    BY <2>3, <2>5
  <2>7. Total(a, U) <= Total(a, t \ {x})
    BY <2>0, <2>2, <2>6
  <2>8. /\ Total(a, t) = a[x] + Total(a, t \ {x}) /\ a[x] \in Nat
        /\ Total(a, t \ {x}) \in Int /\ Total(a, U) \in Int
    BY <1>1, <2>3, <2>5, <2>6
  <2> QED
    BY <2>3, <2>7, <2>8
<1>3. Total(a, {}) <= Total(a, V) /\ Total(a, V) <= Total(a, S) /\ Total(a, {}) <= Total(a, S)
  BY <1>2
<1>4. Total(a, V) \in Int /\ Total(a, S) \in Int
  BY <1>1
<1> QED
  BY <1>3, <1>4, TotalEmpty

-----------------------------------------------------------------------------

\* An order that still owes its Prot: credited under a lease and not clawed back
Owes(o) == Purchased(o) /\ ~Clawed(o) /\ o \notin late

\* The handler of an order that owes its Prot: before every step that ends the order without
\* the Prot lies one that claws it back.  Once unlinked, a fulfilled order is let go with it
Covered == {"judge", "applied", "second", "forfeit", "fulfil", "unwind", "record"}
Settleable(row, pc) ==
    \/ row.state = "Paid" /\ row.terms /\ ~row.reason /\ pc \in Covered \cup {"done"}
    \/ row.state = "Fulfilled" /\ (row.buyer => pc \in {"record", "claw", "done"})
    \/ row.state = "Refunded" /\ ~row.buyer
HolderPc(o) == IF holder[o] = None THEN "done" ELSE worker[holder[o]].pc
OwesInv(o) == Owes(o) => Settleable(order[o], HolderPc(o))

\* A lease holder's copy is the row, but that the row may have been unlinked since
LeaseInv(o) ==
    holder[o] # None =>
        LET q == worker[holder[o]] IN
        /\ q.o = o /\ q.pc # "idle"
        /\ order[o].state = q.copy.state /\ order[o].terms = q.copy.terms
        /\ order[o].reason = q.copy.reason /\ (order[o].buyer => q.copy.buyer)

\* The state of the copy at each step; what is credited is on its terms and not to be voided
Crediting == {"applied", "credit", "second", "forfeit", "fulfil"}
Voiding == {"unwind", "void", "refund", "refundnew", "voided"}
Fits(copy, pc) ==
    /\ pc \in {"pay", "voidunpaid"} => copy.state = "Pending"
    /\ pc = "latepay" => copy.state = "Voided"
    /\ pc \in {"judge"} \cup Crediting \cup Voiding => copy.state = "Paid"
    /\ pc \in Crediting => copy.terms /\ ~copy.reason
    /\ pc \in {"claw", "refunded"} => copy.state = "Fulfilled"
    /\ pc = "record" => copy.state \in {"Pending", "Paid", "Fulfilled"}
WorkInv(w) ==
    LET q == worker[w] IN q.pc # "idle" => q.o \in Orders /\ Fits(q.copy, q.pc)

OneRow == \A r, s \in ledger : r.kind = s.kind /\ r.id = s.id => r = s

Shapes ==
    /\ order \in [Orders -> OrderRow]
    /\ holder \in [Orders -> Workers \cup {None}]
    /\ worker \in [Workers -> [pc : Pcs, o : Orders \cup {None}, copy : OrderRow,
                               kind : Kinds \cup {"None"}, deleting : BOOLEAN]]
Sum(rows) == MapThenSumSet(LAMBDA row : row.amount, rows)
Book ==
    /\ ledger \subseteq LedgerRow /\ IsFiniteSet(ledger) /\ balance \in Nat
    /\ balance = Sum(ledger) /\ OneRow
Others ==
    /\ deleted \in BOOLEAN
    /\ task \in {"due", "void", "user", "wallet", "forfeit", "mark", "done"}
    /\ staff \in [Nonces -> {"new", "post", "second", "forfeit", "done", "died"}]
    /\ late \subseteq Orders /\ lost \subseteq Orders
Works == \A w \in Workers : WorkInv(w)
Leases == \A o \in Orders : LeaseInv(o)
Debts == \A o \in Orders : OwesInv(o)

Inv == Shapes /\ Book /\ Others /\ Works /\ Leases /\ Debts
-----------------------------------------------------------------------------
(* The ledger                                                              *)

\* The sum of the rows is their total, for any function that gives a row its amount
LEMMA SumIsTotal ==
    ASSUME NEW rows, IsFiniteSet(rows), NEW a, \A row \in rows : a[row] = row.amount
    PROVE  Sum(rows) = Total(a, rows)
<1> DEFINE Taken(g) == [s \in SUBSET rows |->
                          IF s = {} THEN 0
                          ELSE (CHOOSE x \in s : TRUE).amount + g[s \ {CHOOSE x \in s : TRUE}]]
<1>1. PICK g : Adds(a, rows, g)
  BY AddsExists
<1>2. ASSUME NEW k, k = Taken(k) PROVE Adds(a, rows, k)
  <2>1. \A s \in SUBSET rows : s # {} => (CHOOSE x \in s : TRUE) \in rows
    OBVIOUS
  <2> QED
    BY <1>2, <2>1 DEF Adds, Some
<1>3. g = Taken(g)
  <2>1. \A s \in SUBSET rows : s # {} => (CHOOSE x \in s : TRUE) \in rows
    OBVIOUS
  <2> QED
    BY <1>1, <2>1 DEF Adds, Some
<1>4. PICK k : k = CHOOSE f : f = Taken(f)
  OBVIOUS
<1>5. k = Taken(k)
  <2> HIDE DEF Taken
  <2> QED
    BY <1>3, <1>4
<1>6. Sum(rows) = k[rows]
  BY <1>4 DEF Sum, MapThenSumSet, MapThenFoldSet
<1> QED
  BY <1>2, <1>5, <1>6, TotalAdds

\* One row more adds its amount
LEMMA SumAdds ==
    ASSUME NEW rows, IsFiniteSet(rows), NEW row, row \notin rows,
           \A r \in rows \cup {row} : r.amount \in Int
    PROVE  Sum(rows \cup {row}) = Sum(rows) + row.amount
<1>1. PICK a : a = [r \in rows \cup {row} |-> r.amount]
  OBVIOUS
<1>2. \A r \in rows \cup {row} : a[r] = r.amount /\ a[r] \in Int
  BY <1>1
<1>3. IsFiniteSet(rows \cup {row})
  BY FS_AddElement
<1>4. Sum(rows) = Total(a, rows) /\ Sum(rows \cup {row}) = Total(a, rows \cup {row})
  BY <1>2, <1>3, SumIsTotal
<1>5. Total(a, rows \cup {row}) = Total(a, rows) + a[row]
  BY <1>2, TotalAdd
<1> QED
  BY <1>2, <1>4, <1>5

\* A posting keeps the book: one row per key, and a balance that is the sum of the rows and
\* never below zero
LEMMA PostBook ==
    ASSUME NEW kind \in {"purchase", "clawback", "forfeit", "admin"}, NEW id \in Orders \cup Nonces \cup Nat,
           NEW amount \in Int, Book, Post(kind, id, amount),
           Rows(kind, id) = {} => balance + amount \in Nat
    PROVE  Book'
<1>1. CASE Rows(kind, id) # {}
  BY <1>1 DEF Post, Book, OneRow
<1>2. CASE Rows(kind, id) = {}
  <2> DEFINE row == [kind |-> kind, id |-> id, amount |-> amount]
  <2>1. ledger' = ledger \cup {row} /\ balance' = balance + amount
    BY <1>2 DEF Post
  <2>2. row \in LedgerRow /\ row.kind = kind /\ row.id = id
    BY DEF LedgerRow
  <2>3. \A r \in ledger : ~(r.kind = kind /\ r.id = id)
    BY <1>2 DEF Rows
  <2>4. IsFiniteSet(ledger')
    BY <2>1, FS_AddElement DEF Book
  <2>a. row.amount = amount
    OBVIOUS
  <2> HIDE DEF row
  <2>6. balance' = Sum(ledger')
    <3>1. row \notin ledger
      BY <2>2, <2>3
    <3>2. \A r \in ledger \cup {row} : r.amount \in Int
      BY <2>2 DEF Book, LedgerRow
    <3>3. Sum(ledger \cup {row}) = Sum(ledger) + row.amount
      BY <3>1, <3>2, SumAdds DEF Book
    <3> QED
      BY <2>1, <2>a, <3>3 DEF Book
  <2>5. OneRow'
    BY <2>1, <2>2, <2>3 DEF OneRow, Book
  <2> QED
    BY <1>2, <2>1, <2>2, <2>4, <2>5, <2>6 DEF Book
<1> QED
  BY <1>1, <1>2

\* What a posting changes of what is purchased and clawed
LEMMA PostRows ==
    ASSUME NEW kind, NEW id, NEW amount, Post(kind, id, amount)
    PROVE  /\ \A o : Purchased(o) => Purchased(o)'
           /\ \A o : Clawed(o) => Clawed(o)'
           /\ kind # "purchase" => \A o : Purchased(o)' => Purchased(o)
           /\ \A o : o # id /\ Purchased(o)' => Purchased(o)
           /\ kind = "clawback" => Clawed(id)'
<1>1. CASE Rows(kind, id) # {}
  BY <1>1 DEF Post, Rows, Purchased, Clawed
<1>2. CASE Rows(kind, id) = {}
  <2> DEFINE row == [kind |-> kind, id |-> id, amount |-> amount]
  <2>1. ledger' = ledger \cup {row}
    BY <1>2 DEF Post
  <2>2. row.kind = kind /\ row.id = id
    OBVIOUS
  <2> HIDE DEF row
  <2> QED
    BY <2>1, <2>2 DEF Rows, Purchased, Clawed
<1> QED
  BY <1>1, <1>2

\* A clawback takes no more than the wallet holds, and leaves its row
LEMMA ClawbackBook ==
    ASSUME NEW o \in Orders, Book, ClawbackPurchase(o)
    PROVE  /\ Book'
           /\ \A p : Purchased(p)' <=> Purchased(p)
           /\ \A p : Clawed(p) => Clawed(p)'
           /\ Purchased(o) => Clawed(o)'
<1>1. CASE Purchased(o)
  <2>1. Post("clawback", o, -Lesser(Prot[o], balance))
    BY <1>1 DEF ClawbackPurchase
  <2>2. Prot[o] \in Nat /\ balance \in Nat
    BY WalletAmounts DEF Book
  <2>3. -Lesser(Prot[o], balance) \in Int /\ balance + (-Lesser(Prot[o], balance)) \in Nat
    BY <2>2 DEF Lesser
  <2>4. Book'
    BY <2>1, <2>3, PostBook
  <2>5. "clawback" # "purchase"
    OBVIOUS
  <2> QED
    BY <2>1, <2>4, <2>5, PostRows
<1>2. CASE ~Purchased(o)
  BY <1>2 DEF ClawbackPurchase, Book, OneRow, Purchased, Clawed, Rows
<1> QED
  BY <1>1, <1>2

\* A forfeit empties the wallet, or finds its number taken; it is neither a purchase nor a
\* clawback
LEMMA ForfeitBook ==
    ASSUME Book, ForfeitPass
    PROVE  /\ Book'
           /\ \A p : Purchased(p)' <=> Purchased(p)
           /\ \A p : Clawed(p) => Clawed(p)'
<1> DEFINE n == Cardinality({row \in ledger : row.kind = "forfeit"})
<1>1. n \in Nat
  <2>1. IsFiniteSet({row \in ledger : row.kind = "forfeit"})
    BY FS_Subset DEF Book
  <2> QED
    BY <2>1, FS_CardinalityType
<1>2. Post("forfeit", n + 1, -balance)
  BY DEF ForfeitPass
<1> HIDE DEF n
<1>3. n + 1 \in Nat /\ -balance \in Int /\ balance + (-balance) \in Nat
  BY <1>1 DEF Book
<1>4. Book'
  BY <1>2, <1>3, PostBook
<1>5. "forfeit" # "purchase"
  OBVIOUS
<1> QED
  BY <1>2, <1>4, <1>5, PostRows
-----------------------------------------------------------------------------
(* Workers                                                                 *)

WorkerRow == [pc : Pcs, o : Orders \cup {None}, copy : OrderRow, kind : Kinds \cup {"None"},
              deleting : BOOLEAN]

\* A worker at work has an order and its copy of it
LEMMA AtWork ==
    ASSUME Inv, NEW w \in Workers, worker[w].pc # "idle"
    PROVE  /\ worker[w] \in WorkerRow /\ worker[w].o \in Orders /\ worker[w].copy \in OrderRow
           /\ order[worker[w].o] \in OrderRow
BY DEF Inv, Shapes, Works, WorkInv, WorkerRow

\* What a worker owes before its step, it owes after it
LEMMA SameDebts ==
    ASSUME UNCHANGED <<order, ledger, late>>
    PROVE  \A p : Owes(p)' <=> Owes(p)
BY DEF Owes, Purchased, Clawed, Rows

\* A worker that stops gives up its lease, and nothing else depended on it
LEMMA StopKeeps ==
    ASSUME Inv, NEW w \in Workers, worker[w].pc # "idle", Stop(w), UNCHANGED <<order, ledger, late>>
    PROVE  Shapes' /\ Works' /\ Leases' /\ Debts'
<1> PICK o : o = worker[w].o
  OBVIOUS
<1>1. o \in Orders
  BY AtWork
<1>2. Idle \in WorkerRow /\ Idle.pc = "idle"
  BY DEF Idle, WorkerRow, NewOrder, OrderRow, Pcs
<1>3. /\ worker' = [worker EXCEPT ![w] = Idle]
      /\ holder' = [holder EXCEPT ![o] = IF @ = w THEN None ELSE @]
  BY DEF Stop
<1>4. Shapes'
  BY <1>1, <1>2, <1>3 DEF Inv, Shapes, WorkerRow
<1>5. \A v \in Workers : worker'[v] = IF v = w THEN Idle ELSE worker[v]
  BY <1>3 DEF Inv, Shapes
<1>6. \A p \in Orders : holder'[p] = IF p = o /\ holder[p] = w THEN None ELSE holder[p]
  BY <1>1, <1>3 DEF Inv, Shapes
<1>7. Works'
  BY <1>2, <1>5 DEF Inv, Works, WorkInv
<1>8. \A p \in Orders : holder'[p] # None =>
         holder'[p] = holder[p] /\ holder[p] \in Workers /\ holder[p] # w
  BY <1>5, <1>6, WalletNone DEF Inv, Shapes, Leases, LeaseInv
<1>9. \A p \in Orders : holder'[p] # None => worker'[holder'[p]] = worker[holder[p]]
  BY <1>5, <1>8
<1>10. Leases'
  BY <1>8, <1>9 DEF Inv, Leases, LeaseInv
<1>11. Debts'
  <2> SUFFICES ASSUME NEW p \in Orders, Owes(p)' PROVE OwesInv(p)'
    BY DEF Debts, OwesInv
  <2>1. Settleable(order[p], HolderPc(p))
    BY SameDebts DEF Inv, Debts, OwesInv
  <2>2. HolderPc(p)' \in {"done", HolderPc(p)}
    BY <1>8, <1>9 DEF HolderPc
  <2>3. Settleable(order[p], HolderPc(p)')
    BY <2>1, <2>2 DEF Settleable
  <2> QED
    BY <2>3 DEF OwesInv
<1> QED
  BY <1>4, <1>7, <1>10, <1>11

\* The row that a fenced write replaces is the writer's, under its lease; what is written
\* keeps the buyer, and an order that owes its Prot stays one that can be clawed back
LEMMA SaveKeeps ==
    ASSUME Inv, NEW w \in Workers, worker[w].pc # "idle",
           NEW copy \in OrderRow, NEW pc \in (Pcs \ {"idle"}) \cup {"done"}, Save(w, copy, pc),
           UNCHANGED <<ledger, late>>,
           copy.buyer = worker[w].copy.buyer, pc # "done" => Fits(copy, pc),
           Settleable(worker[w].copy, worker[w].pc) => Settleable(copy, pc)
    PROVE  Shapes' /\ Works' /\ Leases' /\ Debts'
<1>1. CASE ~Fenced(w)
  <2>1. Stop(w) /\ UNCHANGED order
    BY <1>1 DEF Save
  <2> QED
    BY <2>1, StopKeeps
<1>2. CASE Fenced(w)
  <2> PICK o : o = worker[w].o
    OBVIOUS
  <2>1. /\ o \in Orders /\ worker[w] \in WorkerRow /\ worker[w].copy \in OrderRow
        /\ holder[o] = w /\ order[o] = worker[w].copy
    BY <1>2, AtWork DEF Fenced
  <2>2. order' = [order EXCEPT ![o] = copy]
    BY <1>2 DEF Save
  <2>3. worker[w].o = o
    OBVIOUS
  <2>4. \A p \in Orders : order'[p] = IF p = o THEN copy ELSE order[p]
    BY <2>1, <2>2 DEF Inv, Shapes
  <2>5. \A p \in Orders : p # o => holder[p] # w
    BY <2>3, WalletNone DEF Inv, Leases, LeaseInv
  <2>6. \A p \in Orders : p # o => (Owes(p)' <=> Owes(p))
    BY <2>4 DEF Owes, Purchased, Clawed, Rows
  <2>7. Owes(o)' => Owes(o)
    BY <2>1, <2>4 DEF Owes, Purchased, Clawed, Rows
  <2>8. Owes(o)' => Settleable(copy, pc)
    <3>1. Owes(o) => Settleable(worker[w].copy, worker[w].pc)
      BY <2>1, WalletNone DEF Inv, Debts, OwesInv, HolderPc
    <3> QED
      BY <3>1, <2>7
  <2>9. CASE pc = "done"
    <3>1. Stop(w)
      BY <1>2, <2>9 DEF Save
    <3>2. /\ worker' = [worker EXCEPT ![w] = Idle]
          /\ holder' = [holder EXCEPT ![o] = IF @ = w THEN None ELSE @]
      BY <2>3, <3>1 DEF Stop
    <3>3. Idle \in WorkerRow /\ Idle.pc = "idle"
      BY DEF Idle, WorkerRow, NewOrder, OrderRow, Pcs
    <3>4. Shapes'
      BY <2>1, <2>2, <3>2, <3>3 DEF Inv, Shapes, WorkerRow
    <3>5. \A v \in Workers : worker'[v] = IF v = w THEN Idle ELSE worker[v]
      BY <3>2 DEF Inv, Shapes
    <3>6. \A p \in Orders : holder'[p] = IF p = o THEN None ELSE holder[p]
      BY <2>1, <3>2 DEF Inv, Shapes
    <3>7. Works'
      BY <3>3, <3>5 DEF Inv, Works, WorkInv
    <3>8. \A p \in Orders : holder'[p] # None =>
             p # o /\ holder'[p] = holder[p] /\ worker'[holder'[p]] = worker[holder[p]] /\ order'[p] = order[p]
      BY <2>4, <2>5, <3>5, <3>6 DEF Inv, Shapes
    <3>9. Leases'
      BY <3>8 DEF Inv, Leases, LeaseInv
    <3>10. \A p \in Orders : p # o => OwesInv(p)'
      <4>1. \A p \in Orders : p # o => HolderPc(p)' = HolderPc(p)
        BY <3>6, <3>8 DEF HolderPc
      <4> QED
        BY <2>4, <2>6, <4>1 DEF Inv, Debts, OwesInv
    <3>11. OwesInv(o)'
      <4>1. HolderPc(o)' = "done"
        BY <2>1, <3>6 DEF HolderPc
      <4> QED
        BY <2>1, <2>4, <2>8, <2>9, <4>1 DEF OwesInv
    <3> QED
      BY <3>4, <3>7, <3>9, <3>10, <3>11 DEF Debts
  <2>10. CASE pc # "done"
    <3>1. worker' = [worker EXCEPT ![w].copy = copy, ![w].pc = pc, ![w].kind = "None"] /\ UNCHANGED holder
      BY <1>2, <2>10 DEF Save
    <3>2. \A v \in Workers : v # w => worker'[v] = worker[v]
      BY <3>1 DEF Inv, Shapes
    <3>3. /\ worker'[w] \in WorkerRow /\ worker'[w].copy = copy /\ worker'[w].pc = pc /\ worker'[w].o = o
      BY <2>1, <2>3, <2>10, <3>1 DEF Inv, Shapes, WorkerRow
    <3>4. Shapes'
      BY <2>1, <2>2, <2>10, <3>1 DEF Inv, Shapes, WorkerRow
    <3>5. Works'
      <4>1. WorkInv(w)'
        BY <2>1, <2>10, <3>3 DEF WorkInv
      <4>2. \A v \in Workers : v # w => WorkInv(v)'
        BY <3>2 DEF Inv, Works, WorkInv
      <4> QED
        BY <4>1, <4>2 DEF Works
    <3>6. \A p \in Orders : p # o /\ holder[p] # None => worker'[holder'[p]] = worker[holder[p]]
      BY <2>5, <3>1, <3>2 DEF Inv, Shapes
    <3>7. \A p \in Orders : p # o => LeaseInv(p)'
      <4> SUFFICES ASSUME NEW p \in Orders, p # o, holder[p] # None PROVE LeaseInv(p)'
        BY <3>1 DEF LeaseInv
      <4>1. order'[p] = order[p] /\ holder' = holder /\ worker'[holder'[p]] = worker[holder[p]]
        BY <2>4, <3>1, <3>6
      <4>2. LeaseInv(p)
        BY DEF Inv, Leases
      <4> QED
        BY <4>1, <4>2 DEF LeaseInv
    <3>8. LeaseInv(o)'
      BY <2>1, <2>4, <3>1, <3>3, <2>10 DEF LeaseInv
    <3>9. \A p \in Orders : p # o => OwesInv(p)'
      <4>1. \A p \in Orders : p # o => HolderPc(p)' = HolderPc(p)
        <5> SUFFICES ASSUME NEW p \in Orders, p # o PROVE HolderPc(p)' = HolderPc(p)
          OBVIOUS
        <5>1. CASE holder[p] = None
          BY <3>1, <5>1 DEF HolderPc
        <5>2. CASE holder[p] # None
          <6>1. worker'[holder'[p]] = worker[holder[p]] /\ holder' = holder
            BY <3>1, <3>6, <5>2
          <6> QED
            BY <5>2, <6>1 DEF HolderPc
        <5> QED
          BY <5>1, <5>2
      <4> QED
        BY <2>4, <2>6, <4>1 DEF Inv, Debts, OwesInv
    <3>10. OwesInv(o)'
      <4>1. HolderPc(o)' = pc
        BY <2>1, <3>1, <3>3, WalletNone DEF HolderPc
      <4> QED
        BY <2>1, <2>4, <2>8, <4>1 DEF OwesInv
    <3> QED
      BY <3>4, <3>5, <3>7, <3>8, <3>9, <3>10 DEF Debts, Leases
  <2> QED
    BY <2>9, <2>10
<1> QED
  BY <1>1, <1>2

\* The worker is somewhere else in the handler, with the same order and copy
Moved(w, pc) ==
    /\ worker' \in [Workers -> WorkerRow]
    /\ worker'[w].copy = worker[w].copy /\ worker'[w].pc = pc /\ worker'[w].o = worker[w].o
    /\ \A v \in Workers : v # w => worker'[v] = worker[v]

LEMMA GotoMoves ==
    ASSUME Inv, NEW w \in Workers, NEW pc \in Pcs, Goto(w, pc)
    PROVE  Moved(w, pc)
BY DEF Goto, Moved, Inv, Shapes, WorkerRow

LEMMA DoneMoves ==
    ASSUME Inv, NEW w \in Workers, NEW pc \in Pcs, pc # "done", Done(w, pc)
    PROVE  Moved(w, pc) /\ UNCHANGED holder
BY DEF Done, Moved, Inv, Shapes, WorkerRow

\* A worker goes on; the rows of its order that changed meanwhile leave no new debt but one
\* its step covers
LEMMA MoveKeeps ==
    ASSUME Inv, NEW w \in Workers, worker[w].pc # "idle", NEW pc \in Pcs \ {"idle"}, Moved(w, pc),
           UNCHANGED <<order, holder>>,
           Fits(worker[w].copy, pc),
           \A p \in Orders : Owes(p)' => IF holder[p] = w THEN Settleable(order[p], pc) ELSE Owes(p)
    PROVE  Shapes' /\ Works' /\ Leases' /\ Debts'
<1>1. worker' \in [Workers -> WorkerRow] /\ worker[w] \in WorkerRow
  BY AtWork DEF Moved
<1>2. \A v \in Workers : v # w => worker'[v] = worker[v]
  BY DEF Moved
<1>3. worker'[w] \in WorkerRow /\ worker'[w].copy = worker[w].copy /\ worker'[w].pc = pc
      /\ worker'[w].o = worker[w].o
  BY <1>1 DEF Moved
<1>4. Shapes'
  BY <1>1 DEF Inv, Shapes, WorkerRow
<1>5. Works'
  <2>1. WorkInv(w)'
    BY <1>3, AtWork DEF WorkInv
  <2>2. \A v \in Workers : v # w => WorkInv(v)'
    BY <1>2 DEF Inv, Works, WorkInv
  <2> QED
    BY <2>1, <2>2 DEF Works
<1>6. \A v \in Workers : /\ worker'[v].copy = worker[v].copy /\ worker'[v].o = worker[v].o
                         /\ (worker'[v].pc = "idle" <=> worker[v].pc = "idle")
                         /\ v # w => worker'[v].pc = worker[v].pc
  BY <1>2, <1>3
<1>7. Leases'
  <2> SUFFICES ASSUME NEW p \in Orders, holder[p] # None PROVE LeaseInv(p)'
    BY DEF Leases, LeaseInv
  <2>1. holder[p] \in Workers
    BY DEF Inv, Shapes
  <2> QED
    BY <1>6, <2>1 DEF Inv, Leases, LeaseInv
<1>8. Debts'
  <2> SUFFICES ASSUME NEW p \in Orders, Owes(p)' PROVE OwesInv(p)'
    BY DEF Debts, OwesInv
  <2>1. CASE holder[p] = w
    <3>1. HolderPc(p)' = pc
      BY <1>3, <2>1, WalletNone DEF HolderPc
    <3> QED
      BY <2>1, <3>1 DEF OwesInv
  <2>2. CASE holder[p] # w
    <3>1. HolderPc(p)' = HolderPc(p)
      BY <1>6, <2>2 DEF HolderPc, Inv, Shapes
    <3> QED
      BY <2>2, <3>1 DEF OwesInv, Inv, Debts
  <2> QED
    BY <2>1, <2>2
<1> QED
  BY <1>4, <1>5, <1>7, <1>8
\* A worker that takes an order nobody holds starts where the order's state allows it
LEMMA AcquireKeeps ==
    ASSUME Inv, NEW w \in Workers, NEW o \in Orders, NEW pc \in Pcs \ {"idle"},
           NEW kind \in Kinds \cup {"None"}, NEW deleting \in BOOLEAN, Acquire(w, o, pc, kind, deleting),
           Fits(order[o], pc), Owes(o) => Settleable(order[o], pc)
    PROVE  Inv'
<1> DEFINE row == [pc |-> pc, o |-> o, copy |-> order[o], kind |-> kind, deleting |-> deleting]
<1>1. /\ worker[w].pc = "idle" /\ holder[o] = None
      /\ holder' = [holder EXCEPT ![o] = w] /\ worker' = [worker EXCEPT ![w] = row]
      /\ UNCHANGED <<order, ledger, balance, deleted, task, staff, late, lost>>
  BY DEF Acquire, At
<1>2. row \in WorkerRow /\ row.pc = pc /\ row.o = o /\ row.copy = order[o]
  BY DEF WorkerRow, Inv, Shapes
<1> HIDE DEF row
<1>3. \A v \in Workers : worker'[v] = IF v = w THEN row ELSE worker[v]
  BY <1>1 DEF Inv, Shapes
<1>4. \A p \in Orders : holder'[p] = IF p = o THEN w ELSE holder[p]
  BY <1>1 DEF Inv, Shapes
<1>5. Shapes'
  BY <1>1, <1>2 DEF Inv, Shapes, WorkerRow
<1>6. Works'
  <2>1. WorkInv(w)'
    BY <1>2, <1>3 DEF WorkInv
  <2>2. \A v \in Workers : v # w => WorkInv(v)'
    BY <1>3 DEF Inv, Works, WorkInv
  <2> QED
    BY <2>1, <2>2 DEF Works
<1>7. \A p \in Orders : p # o /\ holder[p] # None => holder'[p] = holder[p] /\ worker'[holder[p]] = worker[holder[p]]
  BY <1>1, <1>3, <1>4 DEF Inv, Shapes, Leases, LeaseInv
<1>8. \A p \in Orders : LeaseInv(p)'
  <2>1. LeaseInv(o)'
    BY <1>1, <1>2, <1>3, <1>4 DEF LeaseInv
  <2>2. ASSUME NEW p \in Orders, p # o PROVE LeaseInv(p)'
    <3>1. CASE holder[p] = None
      BY <1>4, <2>2, <3>1 DEF LeaseInv
    <3>2. CASE holder[p] # None
      <4>1. LeaseInv(p)
        BY DEF Inv, Leases
      <4> QED
        BY <1>1, <1>7, <2>2, <3>2, <4>1 DEF LeaseInv
    <3> QED
      BY <3>1, <3>2
  <2> QED
    BY <2>1, <2>2
<1>9. \A p \in Orders : OwesInv(p)'
  <2>0. \A p : Owes(p)' <=> Owes(p)
    BY <1>1 DEF Owes, Purchased, Clawed, Rows
  <2>1. OwesInv(o)'
    <3>1. HolderPc(o)' = pc
      BY <1>2, <1>3, <1>4, WalletNone DEF HolderPc
    <3> QED
      BY <1>1, <2>0, <3>1 DEF OwesInv
  <2>2. ASSUME NEW p \in Orders, p # o PROVE OwesInv(p)'
    <3>1. HolderPc(p)' = HolderPc(p)
      <4>1. CASE holder[p] = None
        BY <1>4, <2>2, <4>1 DEF HolderPc
      <4>2. CASE holder[p] # None
        BY <1>7, <2>2, <4>2 DEF HolderPc
      <4> QED
        BY <4>1, <4>2
    <3> QED
      BY <1>1, <2>0, <3>1 DEF OwesInv, Inv, Debts
  <2> QED
    BY <2>1, <2>2
<1>10. Book' /\ Others'
  BY <1>1 DEF Inv, Book, OneRow, Others
<1> QED
  BY <1>5, <1>6, <1>8, <1>9, <1>10 DEF Inv, Leases, Debts
-----------------------------------------------------------------------------
(* The handlers' steps                                                     *)

LEMMA NobodyHolds ==
    ASSUME Inv, NEW o \in Orders, Owes(o), holder[o] = None
    PROVE  Settleable(order[o], "done")
BY DEF Inv, Debts, OwesInv, HolderPc

LEMMA StartFulfilInv ==
    ASSUME Inv, NEW w \in Workers, NEW o \in Orders, StartFulfil(w, o)
    PROVE  Inv'
<1> DEFINE at(state) == CASE state = "Pending" -> "pay" [] state = "Paid" -> "judge"
                          [] state = "Voided" -> "latepay" [] state = "Fulfilled" -> "claw"
<1>1. /\ order[o].state \in {"Pending", "Paid", "Voided", "Fulfilled"}
      /\ Acquire(w, o, at(order[o].state), "None", FALSE)
  BY DEF StartFulfil
<1>2. Owes(o) => Settleable(order[o], "done")
  BY <1>1, NobodyHolds DEF Acquire
<1>3. PICK pc : pc = at(order[o].state)
  OBVIOUS
<1>4. \/ pc = "pay" /\ order[o].state = "Pending"
      \/ pc = "judge" /\ order[o].state = "Paid"
      \/ pc = "latepay" /\ order[o].state = "Voided"
      \/ pc = "claw" /\ order[o].state = "Fulfilled"
  BY <1>1, <1>3
<1>5. /\ Fits(order[o], pc) /\ pc \in Pcs \ {"idle"}
      /\ Owes(o) => Settleable(order[o], pc)
  BY <1>2, <1>4 DEF Fits, Settleable, Crediting, Voiding, Covered, Pcs
<1> QED
  BY <1>1, <1>3, <1>5, AcquireKeeps

LEMMA StartReverseInv ==
    ASSUME Inv, NEW w \in Workers, NEW o \in Orders, NEW kind \in Kinds, StartReverse(w, o, kind)
    PROVE  Inv'
<1>1. order[o].state \in {"Pending", "Paid", "Fulfilled"} /\ Acquire(w, o, "record", kind, FALSE)
  BY DEF StartReverse
<1>2. Owes(o) => Settleable(order[o], "done")
  BY <1>1, NobodyHolds DEF Acquire
<1>3. /\ Fits(order[o], "record") /\ "record" \in Pcs \ {"idle"}
      /\ Owes(o) => Settleable(order[o], "record")
  BY <1>1, <1>2 DEF Fits, Settleable, Crediting, Voiding, Covered, Pcs
<1> QED
  BY <1>1, <1>3, AcquireKeeps

LEMMA StartDeletionVoidInv ==
    ASSUME Inv, NEW w \in Workers, NEW o \in Orders, StartDeletionVoid(w, o)
    PROVE  Inv'
<1>1. PICK pc : pc = IF order[o].state = "Paid" THEN "unwind" ELSE "voidunpaid"
  OBVIOUS
<1>2. order[o].state \in {"Pending", "Paid"} /\ Acquire(w, o, pc, "None", TRUE)
  BY <1>1 DEF StartDeletionVoid
<1>3. Owes(o) => Settleable(order[o], "done")
  BY <1>2, NobodyHolds DEF Acquire
<1>4. /\ Fits(order[o], pc) /\ pc \in Pcs \ {"idle"}
      /\ Owes(o) => Settleable(order[o], pc)
  BY <1>1, <1>2, <1>3 DEF Fits, Settleable, Crediting, Voiding, Covered, Pcs
<1> QED
  BY <1>2, <1>4, AcquireKeeps

\* A step that only writes its order keeps the rest
LEMMA Frame ==
    ASSUME Inv, UNCHANGED <<ledger, balance, deleted, task, staff, late, lost>>,
           Shapes' /\ Works' /\ Leases' /\ Debts'
    PROVE  Inv'
BY DEF Inv, Book, OneRow, Others

\* The holder of an order that owes its Prot is at a step that leads to a clawback
LEMMA HolderSettles ==
    ASSUME Inv, NEW w \in Workers, NEW p \in Orders, Owes(p), holder[p] = w
    PROVE  /\ worker[w].o = p /\ Settleable(order[p], worker[w].pc)
           /\ worker[w].copy.state = order[p].state /\ worker[w].copy.terms = order[p].terms
           /\ worker[w].copy.reason = order[p].reason
           /\ (order[p].buyer => worker[w].copy.buyer)
BY WalletNone DEF Inv, Debts, OwesInv, HolderPc, Leases, LeaseInv

\* The copy is in the state its worker's step expects
LEMMA CopyFits ==
    ASSUME Inv, NEW w \in Workers, worker[w].pc # "idle"
    PROVE  Fits(worker[w].copy, worker[w].pc)
BY DEF Inv, Works, WorkInv

LEMMA MarkPaidInv ==
    ASSUME Inv, NEW w \in Workers, MarkPaid(w)
    PROVE  Inv'
<1>1. worker[w].pc = "pay" /\ worker[w].copy \in OrderRow /\ Fits(worker[w].copy, "pay")
  BY AtWork, CopyFits DEF MarkPaid, At
<1>2. PICK copy : copy = [worker[w].copy EXCEPT !.state = "Paid", !.intent = TRUE]
  OBVIOUS
<1>3. copy \in OrderRow /\ copy.state = "Paid" /\ copy.buyer = worker[w].copy.buyer
  BY <1>1, <1>2 DEF OrderRow
<1>4. Save(w, copy, "judge") /\ UNCHANGED <<ledger, balance, deleted, task, staff, late, lost>>
  BY <1>2 DEF MarkPaid
<1>5. Fits(copy, "judge") /\ ~Settleable(worker[w].copy, "pay") /\ "judge" \in Pcs \ {"idle"}
  BY <1>1, <1>3 DEF Fits, Settleable, Crediting, Voiding, Covered, Pcs
<1>6. Shapes' /\ Works' /\ Leases' /\ Debts'
  BY <1>1, <1>3, <1>4, <1>5, SaveKeeps
<1> QED
  BY <1>4, <1>6, Frame

LEMMA PayVoidedInv ==
    ASSUME Inv, NEW w \in Workers, PayVoided(w)
    PROVE  Inv'
<1>1. worker[w].pc = "latepay" /\ worker[w].copy \in OrderRow /\ Fits(worker[w].copy, "latepay")
  BY AtWork, CopyFits DEF PayVoided, At
<1>2. UNCHANGED <<ledger, balance, deleted, task, staff, late, lost>>
  BY DEF PayVoided
<1>3. PICK copy, pc : /\ pc \in {"void", "done"} /\ Save(w, copy, pc)
                      /\ \/ copy = [worker[w].copy EXCEPT !.intent = TRUE, !.state = "Paid"]
                         \/ copy = [worker[w].copy EXCEPT !.intent = TRUE] /\ pc = "done"
  BY DEF PayVoided
<1>4. copy \in OrderRow /\ copy.buyer = worker[w].copy.buyer /\ (pc # "done" => copy.state = "Paid")
  BY <1>1, <1>3 DEF OrderRow
<1>5. /\ pc # "done" => Fits(copy, pc)
      /\ ~Settleable(worker[w].copy, "latepay") /\ pc \in (Pcs \ {"idle"}) \cup {"done"}
  BY <1>1, <1>3, <1>4 DEF Fits, Settleable, Crediting, Voiding, Covered, Pcs
<1>6. Shapes' /\ Works' /\ Leases' /\ Debts'
  BY <1>1, <1>2, <1>3, <1>4, <1>5, SaveKeeps
<1> QED
  BY <1>2, <1>6, Frame

LEMMA JudgeInv ==
    ASSUME Inv, NEW w \in Workers, Judge(w)
    PROVE  Inv'
<1>1. worker[w].pc = "judge" /\ worker[w].copy \in OrderRow /\ worker[w].copy.state = "Paid"
  BY AtWork, CopyFits DEF Judge, At, Fits
<1>2. UNCHANGED <<order, holder, ledger, balance, deleted, task, staff, late, lost>>
  BY DEF Judge
<1>3. PICK pc : /\ pc \in {"void", "unwind", "applied"} /\ Goto(w, pc)
                /\ pc = "void" => ~worker[w].copy.terms \/ worker[w].copy.reason
                /\ pc = "applied" => worker[w].copy.terms /\ ~worker[w].copy.reason
  <2>1. PICK pc : pc = IF ~worker[w].copy.terms \/ worker[w].copy.reason THEN "void"
                       ELSE IF ~worker[w].copy.buyer \/ deleted THEN "unwind" ELSE "applied"
    OBVIOUS
  <2>2. Goto(w, pc)
    BY <2>1 DEF Judge
  <2>3. CASE ~worker[w].copy.terms \/ worker[w].copy.reason
    <3>1. pc = "void"
      BY <2>1, <2>3
    <3> QED
      BY <3>1, <2>2, <2>3
  <2>4. CASE worker[w].copy.terms /\ ~worker[w].copy.reason
    <3>1. pc \in {"unwind", "applied"}
      BY <2>1, <2>4
    <3> QED
      BY <3>1, <2>2, <2>4
  <2> QED
    BY <2>3, <2>4
<1>4. Moved(w, pc)
  BY <1>3, GotoMoves DEF Pcs
<1>5. \A p \in Orders : Owes(p)' => Owes(p)
  BY <1>2, SameDebts
<1>6. ASSUME NEW p \in Orders, Owes(p), holder[p] = w
      PROVE  Settleable(order[p], pc)
  <2>1. /\ Settleable(order[p], "judge") /\ order[p].state = "Paid"
        /\ order[p].terms = worker[w].copy.terms /\ order[p].reason = worker[w].copy.reason
    BY <1>1, <1>6, HolderSettles
  <2>2. order[p].terms /\ ~order[p].reason
    BY <2>1 DEF Settleable
  <2>3. pc # "void"
    BY <1>3, <2>1, <2>2
  <2> QED
    BY <1>3, <2>1, <2>2, <2>3 DEF Settleable, Covered
<1>7. Fits(worker[w].copy, pc) /\ pc \in Pcs \ {"idle"}
  BY <1>1, <1>3 DEF Fits, Settleable, Crediting, Voiding, Covered, Pcs
<1>8. Shapes' /\ Works' /\ Leases' /\ Debts'
  BY <1>1, <1>2, <1>4, <1>5, <1>6, <1>7, MoveKeeps
<1> QED
  BY <1>2, <1>8, Frame

LEMMA ReadAppliedInv ==
    ASSUME Inv, NEW w \in Workers, ReadApplied(w)
    PROVE  Inv'
<1>1. /\ worker[w].pc = "applied" /\ worker[w].copy \in OrderRow /\ worker[w].copy.state = "Paid"
      /\ worker[w].copy.terms /\ ~worker[w].copy.reason
  BY AtWork, CopyFits DEF ReadApplied, At, Fits, Crediting
<1>2. UNCHANGED <<order, holder, ledger, balance, deleted, task, staff, late, lost>>
  BY DEF ReadApplied
<1>3. PICK pc : /\ pc \in {"fulfil", "void", "credit"} /\ Goto(w, pc)
                /\ pc # "fulfil" => ~Purchased(worker[w].o)
  <2>1. PICK refused \in BOOLEAN :
           Goto(w, IF Purchased(worker[w].o) THEN "fulfil"
                   ELSE IF refused \/ worker[w].copy.open \/ worker[w].copy.pending # "None" THEN "void"
                   ELSE "credit")
    BY DEF ReadApplied
  <2>2. PICK pc : pc = IF Purchased(worker[w].o) THEN "fulfil"
                   ELSE IF refused \/ worker[w].copy.open \/ worker[w].copy.pending # "None" THEN "void"
                   ELSE "credit"
    OBVIOUS
  <2>3. Goto(w, pc)
    BY <2>1, <2>2
  <2>4. CASE Purchased(worker[w].o)
    <3>1. pc = "fulfil"
      BY <2>2, <2>4
    <3> QED
      BY <3>1, <2>3, <2>4
  <2>5. CASE ~Purchased(worker[w].o)
    <3>1. pc \in {"void", "credit"}
      BY <2>2, <2>5
    <3> QED
      BY <3>1, <2>3, <2>5
  <2> QED
    BY <2>4, <2>5
<1>4. Moved(w, pc)
  BY <1>3, GotoMoves DEF Pcs
<1>5. \A p \in Orders : Owes(p)' => Owes(p)
  BY <1>2, SameDebts
<1>6. ASSUME NEW p \in Orders, Owes(p), holder[p] = w
      PROVE  Settleable(order[p], pc)
  <2>1. Settleable(order[p], "applied") /\ order[p].state = "Paid" /\ worker[w].o = p
    BY <1>1, <1>6, HolderSettles
  <2>2. pc = "fulfil"
    BY <1>3, <1>6, <2>1 DEF Owes
  <2> QED
    BY <2>1, <2>2 DEF Settleable, Covered
<1>7. Fits(worker[w].copy, pc) /\ pc \in Pcs \ {"idle"}
  BY <1>1, <1>3 DEF Fits, Settleable, Crediting, Voiding, Covered, Pcs
<1>8. Shapes' /\ Works' /\ Leases' /\ Debts'
  BY <1>1, <1>2, <1>4, <1>5, <1>6, <1>7, MoveKeeps
<1> QED
  BY <1>2, <1>8, Frame
\* A credit under a lease finds its order Paid, on its terms and not to be voided; a late
\* one is on record as late
LEMMA CreditInv ==
    ASSUME Inv, NEW w \in Workers, Credit(w)
    PROVE  Inv'
<1> PICK o : o = worker[w].o
  OBVIOUS
<1>1. /\ worker[w].pc = "credit" /\ o \in Orders /\ worker[w].copy.state = "Paid"
      /\ worker[w].copy.terms /\ ~worker[w].copy.reason
  BY AtWork, CopyFits DEF Credit, At, Fits, Crediting
<1>2. /\ UNCHANGED <<order, holder, deleted, task, staff, lost>>
      /\ Post("purchase", o, Prot[o]) /\ Goto(w, "second")
      /\ late' = IF holder[o] # w /\ ~Purchased(o) THEN late \cup {o} ELSE late
  BY DEF Credit
<1>3. Book'
  <2>1. Prot[o] \in Int /\ balance + Prot[o] \in Nat
    BY <1>1, WalletAmounts DEF Inv, Book
  <2> QED
    BY <1>1, <1>2, <2>1, PostBook DEF Inv
<1>4. Moved(w, "second")
  BY <1>2, GotoMoves DEF Pcs
<1>5. /\ \A p : Clawed(p) => Clawed(p)'
      /\ \A p : p # o /\ Purchased(p)' => Purchased(p)
  BY <1>2, PostRows
<1>6. \A p : Owes(p)' => Owes(p) \/ (p = o /\ holder[p] = w)
  BY <1>2, <1>5 DEF Owes
<1>a. \A p \in Orders : holder[p] = w => Settleable(order[p], "second")
  <2> SUFFICES ASSUME NEW p \in Orders, holder[p] = w PROVE Settleable(order[p], "second")
    OBVIOUS
  <2>1. order[p].state = "Paid" /\ order[p].terms /\ ~order[p].reason
    BY <1>1, WalletNone DEF Inv, Leases, LeaseInv
  <2> QED
    BY <2>1 DEF Settleable, Covered
<1>b. Fits(worker[w].copy, "second") /\ "second" \in Pcs \ {"idle"}
  BY <1>1 DEF Fits, Settleable, Crediting, Voiding, Covered, Pcs
<1>7. Shapes' /\ Works' /\ Leases' /\ Debts'
  BY <1>1, <1>2, <1>4, <1>6, <1>a, <1>b, MoveKeeps
<1>8. Others'
  BY <1>1, <1>2 DEF Inv, Others
<1> QED
  BY <1>3, <1>7, <1>8 DEF Inv

LEMMA SecondPassInv ==
    ASSUME Inv, NEW w \in Workers, SecondPass(w)
    PROVE  Inv'
<1>1. /\ worker[w].pc = "second" /\ worker[w].copy.state = "Paid"
      /\ worker[w].copy.terms /\ ~worker[w].copy.reason
  BY AtWork, CopyFits DEF SecondPass, At, Fits, Crediting
<1>2. UNCHANGED <<order, holder, ledger, balance, deleted, task, staff, late, lost>>
  BY DEF SecondPass
<1>3. PICK pc : pc \in {"forfeit", "fulfil"} /\ Goto(w, pc)
  BY DEF SecondPass
<1>4. Moved(w, pc)
  BY <1>3, GotoMoves DEF Pcs
<1>5. \A p : Owes(p)' => Owes(p)
  BY <1>2, SameDebts
<1>6. ASSUME NEW p \in Orders, Owes(p), holder[p] = w
      PROVE  Settleable(order[p], pc)
  <2>1. Settleable(order[p], "second") /\ order[p].state = "Paid"
    BY <1>1, <1>6, HolderSettles
  <2> QED
    BY <1>3, <2>1 DEF Settleable, Covered
<1>7. Fits(worker[w].copy, pc) /\ pc \in Pcs \ {"idle"}
  BY <1>1, <1>3 DEF Fits, Settleable, Crediting, Voiding, Covered, Pcs
<1>8. Shapes' /\ Works' /\ Leases' /\ Debts'
  BY <1>1, <1>2, <1>4, <1>5, <1>6, <1>7, MoveKeeps
<1> QED
  BY <1>2, <1>8, Frame

LEMMA ForfeitInv ==
    ASSUME Inv, NEW w \in Workers, Forfeit(w)
    PROVE  Inv'
<1>1. /\ worker[w].pc = "forfeit" /\ worker[w].copy.state = "Paid"
      /\ worker[w].copy.terms /\ ~worker[w].copy.reason
  BY AtWork, CopyFits DEF Forfeit, At, Fits, Crediting
<1>2. UNCHANGED <<order, holder, deleted, task, staff, late, lost>> /\ Goto(w, "fulfil") /\ ForfeitPass
  BY DEF Forfeit
<1>3. /\ Book' /\ \A p : Purchased(p)' => Purchased(p)
      /\ \A p : Clawed(p) => Clawed(p)'
  BY <1>2, ForfeitBook DEF Inv
<1>4. Moved(w, "fulfil")
  BY <1>2, GotoMoves DEF Pcs
<1>5. \A p : Owes(p)' => Owes(p)
  BY <1>2, <1>3 DEF Owes
<1>6. ASSUME NEW p \in Orders, Owes(p), holder[p] = w
      PROVE  Settleable(order[p], "fulfil")
  <2>1. Settleable(order[p], "forfeit") /\ order[p].state = "Paid"
    BY <1>1, <1>6, HolderSettles
  <2> QED
    BY <2>1 DEF Settleable, Covered
<1>7. Fits(worker[w].copy, "fulfil") /\ "fulfil" \in Pcs \ {"idle"}
  BY <1>1 DEF Fits, Settleable, Crediting, Voiding, Covered, Pcs
<1>8. Shapes' /\ Works' /\ Leases' /\ Debts'
  BY <1>1, <1>2, <1>4, <1>5, <1>6, <1>7, MoveKeeps
<1> QED
  BY <1>2, <1>3, <1>8 DEF Inv, Others

LEMMA FulfilledInv ==
    ASSUME Inv, NEW w \in Workers, Fulfilled(w)
    PROVE  Inv'
<1>1. worker[w].pc = "fulfil" /\ worker[w].copy \in OrderRow
  BY AtWork DEF Fulfilled, At
<1>2. PICK copy : copy = [worker[w].copy EXCEPT !.state = "Fulfilled"]
  OBVIOUS
<1>3. /\ copy \in OrderRow /\ copy.state = "Fulfilled" /\ copy.buyer = worker[w].copy.buyer
      /\ copy.terms = worker[w].copy.terms /\ copy.reason = worker[w].copy.reason
  BY <1>1, <1>2 DEF OrderRow
<1>4. PICK pc : pc \in {"done", "claw"} /\ Save(w, copy, pc)
  BY <1>2 DEF Fulfilled
<1>5. UNCHANGED <<ledger, balance, deleted, task, staff, late, lost>>
  BY DEF Fulfilled
<1>6. /\ pc # "done" => Fits(copy, pc)
      /\ Settleable(copy, pc) /\ pc \in (Pcs \ {"idle"}) \cup {"done"}
  BY <1>3, <1>4 DEF Fits, Settleable, Crediting, Voiding, Covered, Pcs
<1>7. Shapes' /\ Works' /\ Leases' /\ Debts'
  BY <1>1, <1>3, <1>4, <1>5, <1>6, SaveKeeps
<1> QED
  BY <1>5, <1>7, Frame

\* The clawback of a deleted buyer's order settles what it owed
LEMMA UnwindInv ==
    ASSUME Inv, NEW w \in Workers, Unwind(w)
    PROVE  Inv'
<1> PICK o : o = worker[w].o
  OBVIOUS
<1>1. worker[w].pc = "unwind" /\ o \in Orders /\ Fits(worker[w].copy, "unwind")
  BY AtWork, CopyFits DEF Unwind, At
<1>2. /\ UNCHANGED <<order, holder, deleted, task, staff, late, lost>>
      /\ ClawbackPurchase(o) /\ Goto(w, "void")
  BY DEF Unwind
<1>3. /\ Book' /\ \A p : Purchased(p)' <=> Purchased(p)
      /\ \A p : Clawed(p) => Clawed(p)'
      /\ Purchased(o) => Clawed(o)'
  BY <1>1, <1>2, ClawbackBook DEF Inv
<1>4. Moved(w, "void")
  BY <1>2, GotoMoves DEF Pcs
<1>5. \A p : Owes(p)' => Owes(p) /\ p # o
  BY <1>2, <1>3 DEF Owes
<1>6. \A p \in Orders : p # o => holder[p] # w
  BY WalletNone DEF Inv, Leases, LeaseInv
<1>7. Fits(worker[w].copy, "void") /\ "void" \in Pcs \ {"idle"}
  BY <1>1 DEF Fits, Settleable, Crediting, Voiding, Covered, Pcs
<1>8. Shapes' /\ Works' /\ Leases' /\ Debts'
  BY <1>1, <1>2, <1>4, <1>5, <1>6, <1>7, MoveKeeps
<1> QED
  BY <1>2, <1>3, <1>8 DEF Inv, Others

\* The clawback of a reversal settles what the order owed, unless it was unlinked
LEMMA ClawInv ==
    ASSUME Inv, NEW w \in Workers, Claw(w)
    PROVE  Inv'
<1> PICK o : o = worker[w].o
  OBVIOUS
<1>1. worker[w].pc = "claw" /\ o \in Orders /\ worker[w].copy.state = "Fulfilled"
  BY AtWork, CopyFits DEF Claw, At, Fits
<1>2. /\ UNCHANGED <<order, holder, deleted, task, staff, late, lost>> /\ Goto(w, "refunded")
      /\ IF worker[w].copy.buyer THEN ClawbackPurchase(o) ELSE UNCHANGED <<ledger, balance>>
  BY DEF Claw
<1>3. /\ Book' /\ \A p : Purchased(p)' <=> Purchased(p)
      /\ \A p : Clawed(p) => Clawed(p)'
      /\ worker[w].copy.buyer /\ Purchased(o) => Clawed(o)'
  <2>1. CASE worker[w].copy.buyer
    BY <1>1, <1>2, <2>1, ClawbackBook DEF Inv
  <2>2. CASE ~worker[w].copy.buyer
    BY <1>2, <2>2 DEF Inv, Book, OneRow, Purchased, Clawed, Rows
  <2> QED
    BY <2>1, <2>2
<1>4. Moved(w, "refunded")
  BY <1>2, GotoMoves DEF Pcs
<1>5. \A p : Owes(p)' => Owes(p)
  BY <1>2, <1>3 DEF Owes
<1>6. ASSUME NEW p \in Orders, Owes(p)', holder[p] = w
      PROVE  Settleable(order[p], "refunded")
  <2>1. /\ Owes(p) /\ p = o /\ order[p].state = "Fulfilled"
        /\ (order[p].buyer => worker[w].copy.buyer)
    BY <1>1, <1>5, <1>6, HolderSettles
  <2>2. ~worker[w].copy.buyer
    BY <1>3, <1>6, <2>1 DEF Owes
  <2> QED
    BY <2>1, <2>2 DEF Settleable
<1>7. Fits(worker[w].copy, "refunded") /\ "refunded" \in Pcs \ {"idle"}
  BY <1>1 DEF Fits, Settleable, Crediting, Voiding, Covered, Pcs
<1>8. Shapes' /\ Works' /\ Leases' /\ Debts'
  BY <1>1, <1>2, <1>4, <1>5, <1>6, <1>7, MoveKeeps
<1> QED
  BY <1>2, <1>3, <1>8 DEF Inv, Others

\* A void, or the refund after it, is only reached by an order that owes nothing
LEMMA VoidInv ==
    ASSUME Inv, NEW w \in Workers, Void(w)
    PROVE  Inv'
<1>1. /\ worker[w].pc = "void" /\ worker[w].copy \in OrderRow
      /\ worker[w].copy.state = "Paid" /\ ~Settleable(worker[w].copy, "void")
  BY AtWork, CopyFits DEF Void, At, Fits, Voiding, Settleable, Covered
<1>2. UNCHANGED <<ledger, balance, deleted, task, staff, late, lost>>
  BY DEF Void
<1>3. \/ \E copy \in OrderRow, pc \in {"done", "refundnew"} :
             /\ copy.buyer = worker[w].copy.buyer /\ Save(w, copy, pc)
             /\ pc # "done" => copy.state = "Paid"
      \/ Stop(w) /\ UNCHANGED order
      \/ Goto(w, "refund") /\ UNCHANGED <<order, holder>>
  <2>1. PICK c, d : /\ c = [worker[w].copy EXCEPT !.state = "Voided", !.reason = TRUE, !.pending = "None"]
                    /\ d = [worker[w].copy EXCEPT !.reason = TRUE]
    OBVIOUS
  <2>2. /\ c \in OrderRow /\ c.buyer = worker[w].copy.buyer
        /\ d \in OrderRow /\ d.buyer = worker[w].copy.buyer /\ d.state = "Paid"
    BY <1>1, <2>1 DEF OrderRow
  <2>3. \/ Save(w, c, "done") \/ Save(w, d, "refundnew")
        \/ Stop(w) /\ UNCHANGED order
        \/ Goto(w, "refund") /\ UNCHANGED <<order, holder>>
    BY <2>1 DEF Void
  <2> QED
    BY <2>2, <2>3
<1>4. ASSUME NEW copy \in OrderRow, NEW pc \in {"done", "refundnew"},
             copy.buyer = worker[w].copy.buyer, Save(w, copy, pc), pc # "done" => copy.state = "Paid"
      PROVE  Shapes' /\ Works' /\ Leases' /\ Debts'
  <2>1. (pc # "done" => Fits(copy, pc)) /\ pc \in (Pcs \ {"idle"}) \cup {"done"}
    BY <1>4 DEF Fits, Settleable, Crediting, Voiding, Covered, Pcs
  <2> QED
    BY <1>1, <1>2, <1>4, <2>1, SaveKeeps
<1>5. ASSUME Stop(w), UNCHANGED order
      PROVE  Shapes' /\ Works' /\ Leases' /\ Debts'
  BY <1>1, <1>2, <1>5, StopKeeps
<1>6. ASSUME Goto(w, "refund"), UNCHANGED <<order, holder>>
      PROVE  Shapes' /\ Works' /\ Leases' /\ Debts'
  <2>1. Moved(w, "refund")
    BY <1>6, GotoMoves DEF Pcs
  <2>2. \A p \in Orders : Owes(p)' => Owes(p)
    BY <1>2, <1>6, SameDebts
  <2>3. ASSUME NEW p \in Orders, Owes(p), holder[p] = w PROVE FALSE
    <3>1. order[p].state = "Paid" /\ Settleable(order[p], worker[w].pc)
      BY <1>1, <2>3, HolderSettles
    <3> QED
      BY <1>1, <3>1 DEF Settleable, Covered
  <2>4. Fits(worker[w].copy, "refund") /\ "refund" \in Pcs \ {"idle"}
    BY <1>1 DEF Fits, Settleable, Crediting, Voiding, Covered, Pcs
  <2> QED
    BY <1>1, <1>2, <1>6, <2>1, <2>2, <2>3, <2>4, MoveKeeps
<1>7. Shapes' /\ Works' /\ Leases' /\ Debts'
  BY <1>3, <1>4, <1>5, <1>6
<1> QED
  BY <1>2, <1>7, Frame

LEMMA RefundInv ==
    ASSUME Inv, NEW w \in Workers, Refund(w)
    PROVE  Inv'
<1>1. /\ worker[w].pc \in {"refund", "refundnew"} /\ worker[w].copy \in OrderRow
      /\ worker[w].copy.state = "Paid" /\ ~Settleable(worker[w].copy, worker[w].pc)
  BY AtWork, CopyFits DEF Refund, Fits, Voiding, Settleable, Covered
<1>2. UNCHANGED <<ledger, balance, deleted, task, staff, late, lost>>
  BY DEF Refund
<1>3. PICK copy : copy = [worker[w].copy EXCEPT !.reason = FALSE]
  OBVIOUS
<1>4. copy \in OrderRow /\ copy.buyer = worker[w].copy.buyer
  BY <1>1, <1>3 DEF OrderRow
<1>5. \/ Save(w, copy, "done")
      \/ Stop(w) /\ UNCHANGED order
      \/ Goto(w, "voided") /\ UNCHANGED <<order, holder>>
  BY <1>3 DEF Refund
<1>6. ASSUME Save(w, copy, "done")
      PROVE  Shapes' /\ Works' /\ Leases' /\ Debts'
  BY <1>1, <1>2, <1>4, <1>6, SaveKeeps
<1>7. ASSUME Stop(w), UNCHANGED order
      PROVE  Shapes' /\ Works' /\ Leases' /\ Debts'
  BY <1>1, <1>2, <1>7, StopKeeps
<1>8. ASSUME Goto(w, "voided"), UNCHANGED <<order, holder>>
      PROVE  Shapes' /\ Works' /\ Leases' /\ Debts'
  <2>1. Moved(w, "voided")
    BY <1>8, GotoMoves DEF Pcs
  <2>2. \A p \in Orders : Owes(p)' => Owes(p)
    BY <1>2, <1>8, SameDebts
  <2>3. ASSUME NEW p \in Orders, Owes(p), holder[p] = w PROVE FALSE
    <3>1. order[p].state = "Paid" /\ Settleable(order[p], worker[w].pc)
      BY <1>1, <2>3, HolderSettles
    <3> QED
      BY <1>1, <3>1 DEF Settleable, Covered
  <2>4. Fits(worker[w].copy, "voided") /\ "voided" \in Pcs \ {"idle"}
    BY <1>1 DEF Fits, Settleable, Crediting, Voiding, Covered, Pcs
  <2> QED
    BY <1>1, <1>2, <1>8, <2>1, <2>2, <2>3, <2>4, MoveKeeps
<1>9. Shapes' /\ Works' /\ Leases' /\ Debts'
  BY <1>5, <1>6, <1>7, <1>8
<1> QED
  BY <1>2, <1>9, Frame

\* The last writes: by then the order owes nothing
LEMMA LastWriteInv ==
    ASSUME Inv, NEW w \in Workers, Voided(w) \/ VoidUnpaid(w) \/ Refunded(w)
    PROVE  Inv'
<1>1. /\ worker[w].pc \in {"voided", "voidunpaid", "refunded"} /\ worker[w].copy \in OrderRow
      /\ Fits(worker[w].copy, worker[w].pc)
  BY AtWork, CopyFits DEF Voided, VoidUnpaid, Refunded, At
<1>2. UNCHANGED <<ledger, balance, deleted, task, staff, late, lost>>
  BY DEF Voided, VoidUnpaid, Refunded
<1>3. PICK copy : /\ Save(w, copy, "done")
                  /\ \/ copy = [worker[w].copy EXCEPT !.state = "Voided", !.pending = "None"]
                     \/ copy = [worker[w].copy EXCEPT !.state = "Voided", !.reason = TRUE]
                     \/ /\ copy = [worker[w].copy EXCEPT !.state = "Refunded", !.pending = "None"]
                        /\ worker[w].pc = "refunded"
                  /\ worker[w].pc = "refunded" =>
                        copy = [worker[w].copy EXCEPT !.state = "Refunded", !.pending = "None"]
  BY DEF Voided, VoidUnpaid, Refunded, At
<1>4. /\ copy \in OrderRow /\ copy.buyer = worker[w].copy.buyer
      /\ worker[w].pc = "refunded" => copy.state = "Refunded"
  BY <1>1, <1>3 DEF OrderRow
<1>5. Settleable(worker[w].copy, worker[w].pc) => Settleable(copy, "done")
  BY <1>1, <1>4 DEF Fits, Voiding, Settleable, Covered
<1>6. Shapes' /\ Works' /\ Leases' /\ Debts'
  BY <1>1, <1>2, <1>3, <1>4, <1>5, SaveKeeps
<1> QED
  BY <1>2, <1>6, Frame

\* A recorded reversal touches neither the state nor the terms nor the void of its order
LEMMA RecordInv ==
    ASSUME Inv, NEW w \in Workers, Record(w)
    PROVE  Inv'
<1> DEFINE q == worker[w]
           dispute == [q.copy EXCEPT !.open = DisputeAfter(q.copy, q.kind)]
           Pend == CASE q.kind = "DisputeLost" -> "DisputeLost"
                     [] q.kind = "Refund" /\ q.copy.pending = "None" -> "Refund"
                     [] OTHER -> q.copy.pending
           then == IF q.kind \in {"Refund", "DisputeLost"} THEN "claw" ELSE "done"
<1>1. q.pc = "record" /\ q.copy \in OrderRow /\ q \in WorkerRow
  BY AtWork DEF Record, At
<1>2. UNCHANGED <<ledger, balance, deleted, task, staff, late, lost>>
  BY DEF Record
<1>3. PICK c, d, pc : /\ c = dispute /\ d = [dispute EXCEPT !.pending = Pend] /\ pc = then
  OBVIOUS
<1>4. pc \in {"claw", "done"}
  BY <1>3
<1>5. DisputeAfter(q.copy, q.kind) \in BOOLEAN /\ Pend \in {"None", "Refund", "DisputeLost"}
  BY <1>1 DEF DisputeAfter, OrderRow
<1>6. \/ Save(w, d, "done")
      \/ q.copy.state = "Fulfilled" /\ (Save(w, c, pc) \/ (Done(w, pc) /\ UNCHANGED order))
  BY <1>3 DEF Record
<1>7. /\ c \in OrderRow /\ c.buyer = q.copy.buyer /\ c.state = q.copy.state
      /\ c.terms = q.copy.terms /\ c.reason = q.copy.reason
      /\ d \in OrderRow /\ d.buyer = q.copy.buyer /\ d.state = q.copy.state
      /\ d.terms = q.copy.terms /\ d.reason = q.copy.reason
  <2>1. PICK open, pending : open = DisputeAfter(q.copy, q.kind) /\ pending = Pend
    OBVIOUS
  <2>2. c = [q.copy EXCEPT !.open = open] /\ d = [c EXCEPT !.pending = pending]
    BY <1>3, <2>1
  <2>3. open \in BOOLEAN /\ pending \in {"None", "Refund", "DisputeLost"}
    BY <1>5, <2>1
  <2> HIDE DEF Pend, dispute, then
  <2> QED
    BY <1>1, <2>2, <2>3 DEF OrderRow
<1> HIDE DEF Pend, dispute, then
<1>8. ASSUME NEW e, NEW at \in {"claw", "done"}, e \in {c, d}, Save(w, e, at),
             at = "claw" => q.copy.state = "Fulfilled"
      PROVE  Shapes' /\ Works' /\ Leases' /\ Debts'
  <2>1. /\ e \in OrderRow /\ e.buyer = q.copy.buyer /\ e.state = q.copy.state
        /\ e.terms = q.copy.terms /\ e.reason = q.copy.reason
    BY <1>7, <1>8
  <2> QED
    <3>1. /\ (at # "done" => Fits(e, at)) /\ at \in (Pcs \ {"idle"}) \cup {"done"}
          /\ Settleable(q.copy, "record") => Settleable(e, at)
      BY <1>8, <2>1 DEF Fits, Settleable, Crediting, Voiding, Covered, Pcs
    <3> QED
      BY <1>1, <1>2, <1>8, <2>1, <3>1, SaveKeeps
<1>9. ASSUME Done(w, pc), UNCHANGED order, q.copy.state = "Fulfilled"
      PROVE  Shapes' /\ Works' /\ Leases' /\ Debts'
  <2>1. CASE pc = "done"
    BY <1>1, <1>2, <1>9, <2>1, StopKeeps DEF Done
  <2>2. CASE pc = "claw"
    <3>1. Moved(w, pc) /\ UNCHANGED holder
      BY <1>9, <2>2, DoneMoves DEF Pcs
    <3>2. \A p : Owes(p)' => Owes(p)
      BY <1>2, <1>9, SameDebts
    <3>3. ASSUME NEW p \in Orders, Owes(p), holder[p] = w PROVE Settleable(order[p], pc)
      <4>1. Settleable(order[p], "record") /\ order[p].state = "Fulfilled"
        BY <1>1, <1>9, <3>3, HolderSettles
      <4> QED
        BY <2>2, <4>1 DEF Settleable
    <3>4. Fits(q.copy, pc) /\ pc \in Pcs \ {"idle"}
      BY <1>9, <2>2 DEF Fits, Settleable, Crediting, Voiding, Covered, Pcs
    <3> QED
      BY <1>1, <1>9, <3>1, <3>2, <3>3, <3>4, MoveKeeps
  <2> QED
    BY <1>4, <2>1, <2>2
<1>10. Shapes' /\ Works' /\ Leases' /\ Debts'
  BY <1>4, <1>6, <1>8, <1>9
<1> QED
  BY <1>2, <1>10, Frame

LEMMA CrashInv ==
    ASSUME Inv, NEW w \in Workers, Crash(w)
    PROVE  Inv'
<1>1. worker[w].pc # "idle" /\ Stop(w) /\ UNCHANGED <<order, ledger, balance, deleted, task, staff, late>>
  BY DEF Crash, At
<1>2. lost' \subseteq Orders
  BY <1>1, AtWork DEF Crash, Inv, Others
<1>3. Shapes' /\ Works' /\ Leases' /\ Debts'
  BY <1>1, StopKeeps
<1> QED
  BY <1>1, <1>2, <1>3 DEF Inv, Book, OneRow, Others

LEMMA LeaseRunsOutInv ==
    ASSUME Inv, NEW o \in Orders, LeaseRunsOut(o)
    PROVE  Inv'
<1>1. /\ holder' = [holder EXCEPT ![o] = None]
      /\ UNCHANGED <<order, worker, ledger, balance, deleted, task, staff, late, lost>>
  BY DEF LeaseRunsOut
<1>2. \A p \in Orders : holder'[p] = IF p = o THEN None ELSE holder[p]
  BY <1>1 DEF Inv, Shapes
<1>3. Shapes' /\ Works' /\ Book' /\ Others'
  BY <1>1 DEF Inv, Shapes, Works, WorkInv, Book, OneRow, Others
<1>4. Leases'
  <2> SUFFICES ASSUME NEW p \in Orders, holder'[p] # None PROVE LeaseInv(p)'
    BY DEF Leases, LeaseInv
  <2>1. holder'[p] = holder[p] /\ LeaseInv(p)
    BY <1>2 DEF Inv, Leases
  <2> QED
    BY <1>1, <2>1 DEF LeaseInv
<1>5. Debts'
  <2> SUFFICES ASSUME NEW p \in Orders PROVE OwesInv(p)'
    BY DEF Debts
  <2>1. OwesInv(p) /\ (Owes(p)' <=> Owes(p)) /\ holder'[p] \in {None, holder[p]}
    BY <1>1, <1>2, SameDebts DEF Inv, Debts
  <2>2. HolderPc(p)' \in {"done", HolderPc(p)}
    BY <1>1, <2>1 DEF HolderPc
  <2> QED
    BY <1>1, <2>1, <2>2 DEF OwesInv, Settleable
<1> QED
  BY <1>3, <1>4, <1>5 DEF Inv
-----------------------------------------------------------------------------
(* The account's deletion, and staff                                       *)

\* A step of neither the workers nor the order rows leaves what is owed as it is, or less
LEMMA AsideInv ==
    ASSUME Inv, UNCHANGED <<order, holder, worker, late>>, Book', Others',
           \A p : Purchased(p)' => Purchased(p), \A p : Clawed(p) => Clawed(p)'
    PROVE  Inv'
<1>1. \A p : Owes(p)' => Owes(p)
  BY DEF Owes
<1>2. Shapes' /\ Works' /\ Leases'
  BY DEF Inv, Shapes, Works, WorkInv, Leases, LeaseInv
<1>3. Debts'
  <2> SUFFICES ASSUME NEW p \in Orders, Owes(p)' PROVE OwesInv(p)'
    BY DEF Debts, OwesInv
  <2>1. OwesInv(p) /\ Owes(p) /\ HolderPc(p)' = HolderPc(p)
    BY <1>1 DEF Inv, Debts, HolderPc
  <2> QED
    BY <2>1 DEF OwesInv
<1> QED
  BY <1>2, <1>3 DEF Inv

\* An unlinked order owes nothing to the buyer's wallet: the forfeit answers for it
LEMMA UnlinkInv ==
    ASSUME Inv, Unlink
    PROVE  Inv'
<1>1. /\ order' = [o \in Orders |-> [order[o] EXCEPT !.buyer = FALSE]]
      /\ task' = "user"
      /\ UNCHANGED <<holder, worker, ledger, balance, deleted, staff, late, lost>>
  BY DEF Unlink
<1>2. \A o \in Orders : order[o] \in OrderRow
  BY DEF Inv, Shapes
<1>3. \A o \in Orders : /\ order'[o] \in OrderRow /\ ~order'[o].buyer
                        /\ order'[o].state = order[o].state /\ order'[o].terms = order[o].terms
                        /\ order'[o].reason = order[o].reason
  BY <1>1, <1>2 DEF OrderRow
<1>4. Shapes'
  <2>1. order' = [o \in Orders |-> order'[o]]
    BY <1>1
  <2>2. order' \in [Orders -> OrderRow]
    BY ONLY <1>3, <2>1
  <2> QED
    BY <1>1, <2>2 DEF Inv, Shapes
<1>5. Works' /\ Book' /\ Others'
  BY <1>1 DEF Inv, Works, WorkInv, Book, OneRow, Others
<1>6. Leases'
  <2> SUFFICES ASSUME NEW p \in Orders, holder[p] # None PROVE LeaseInv(p)'
    BY <1>1 DEF Leases, LeaseInv
  <2>1. LeaseInv(p)
    BY DEF Inv, Leases
  <2> QED
    BY <1>1, <1>3, <2>1 DEF LeaseInv
<1>7. Debts'
  <2> SUFFICES ASSUME NEW p \in Orders, Owes(p)' PROVE OwesInv(p)'
    BY DEF Debts, OwesInv
  <2>1. HolderPc(p)' = HolderPc(p) /\ Owes(p)
    BY <1>1 DEF HolderPc, Owes, Purchased, Clawed, Rows
  <2>2. Settleable(order[p], HolderPc(p))
    BY <2>1 DEF Inv, Debts, OwesInv
  <2>3. Settleable(order'[p], HolderPc(p))
    BY <1>3, <2>2 DEF Settleable
  <2> QED
    BY <2>1, <2>3 DEF OwesInv
<1> QED
  BY <1>4, <1>5, <1>6, <1>7 DEF Inv

LEMMA TaskInv ==
    ASSUME Inv, TaskStep \/ TaskFails
    PROVE  Inv'
<1>1. CASE StartTask \/ DeleteUser \/ ReadWallet \/ MarkDeleted \/ TaskFails
  <2>1. UNCHANGED <<order, holder, worker, ledger, balance, staff, late, lost>>
    BY <1>1 DEF StartTask, DeleteUser, ReadWallet, MarkDeleted, TaskFails
  <2>2. deleted' \in BOOLEAN /\ task' \in {"due", "void", "user", "wallet", "forfeit", "mark", "done"}
    BY <1>1 DEF StartTask, DeleteUser, ReadWallet, MarkDeleted, TaskFails, Inv, Others
  <2>3. Book' /\ Others'
    BY <2>1, <2>2 DEF Inv, Book, OneRow, Others
  <2>4. \A p : (Purchased(p)' <=> Purchased(p)) /\ (Clawed(p)' <=> Clawed(p))
    BY <2>1 DEF Purchased, Clawed, Rows
  <2> QED
    BY <2>1, <2>3, <2>4, AsideInv
<1>2. CASE ForfeitWallet
  <2>1. UNCHANGED <<order, holder, worker, deleted, staff, late, lost>> /\ ForfeitPass /\ task' = "mark"
    BY <1>2 DEF ForfeitWallet
  <2>2. /\ Book' /\ \A p : Purchased(p)' => Purchased(p)
        /\ \A p : Clawed(p) => Clawed(p)'
    BY <2>1, ForfeitBook DEF Inv
  <2>3. Others'
    BY <2>1 DEF Inv, Others
  <2> QED
    BY <2>1, <2>2, <2>3, AsideInv
<1> QED
  BY <1>1, <1>2, UnlinkInv DEF TaskStep

LEMMA StaffInv ==
    ASSUME Inv, NEW n \in Nonces, StaffCheck(n) \/ StaffStep(n) \/ StaffDies(n)
    PROVE  Inv'
<1>1. /\ UNCHANGED <<order, holder, worker, deleted, task, late, lost>>
      /\ staff' \in [Nonces -> {"new", "post", "second", "forfeit", "done", "died"}]
  BY DEF StaffCheck, StaffStep, StaffPost, StaffSecond, StaffForfeit, StaffDies, Inv, Others
<1>2. Others'
  BY <1>1 DEF Inv, Others
<1>3. /\ Book' /\ \A p : Purchased(p)' => Purchased(p)
      /\ \A p : Clawed(p) => Clawed(p)'
  <2>1. CASE UNCHANGED <<ledger, balance>>
    BY <2>1 DEF Inv, Book, OneRow, Purchased, Clawed, Rows
  <2>2. CASE ForfeitPass
    BY <2>2, ForfeitBook DEF Inv
  <2>3. CASE Post("admin", n, Adjust[n]) /\ ~(Rows("admin", n) = {} /\ balance + Adjust[n] < 0)
    <3>1. Adjust[n] \in Int /\ (Rows("admin", n) = {} => balance + Adjust[n] \in Nat)
      BY <2>3, WalletAmounts DEF Inv, Book
    <3>2. "admin" # "purchase"
      OBVIOUS
    <3>3. Book'
      BY <2>3, <3>1, PostBook DEF Inv
    <3> QED
      BY <2>3, <3>2, <3>3, PostRows
  <2> QED
    BY <2>1, <2>2, <2>3 DEF StaffCheck, StaffStep, StaffPost, StaffSecond, StaffForfeit, StaffDies
<1> QED
  BY <1>1, <1>2, <1>3, AsideInv
-----------------------------------------------------------------------------
(* The theorems                                                            *)

LEMMA InitInv == Init => Inv
<1> SUFFICES ASSUME Init PROVE Inv
  OBVIOUS
<1>1. \A terms \in BOOLEAN : NewOrder(terms) \in OrderRow
  BY DEF NewOrder, OrderRow
<1>2. Idle \in WorkerRow /\ Idle.pc = "idle"
  BY <1>1 DEF Idle, WorkerRow, Pcs
<1>3. order \in [Orders -> OrderRow]
  BY <1>1 DEF Init
<1>4. Shapes
  BY <1>2, <1>3 DEF Init, Shapes, WorkerRow
<1>5. Book
  <2>1. Sum({}) = 0
    BY FS_EmptySet, SumIsTotal, TotalEmpty
  <2> QED
    BY <2>1, FS_EmptySet DEF Init, Book, OneRow
<1>6. Others
  BY DEF Init, Others
<1>7. Works /\ Leases
  BY <1>2 DEF Init, Works, WorkInv, Leases, LeaseInv, Crediting
<1>8. Debts
  BY DEF Init, Debts, OwesInv, Owes, Purchased, Rows
<1> QED
  BY <1>4, <1>5, <1>6, <1>7, <1>8 DEF Inv

LEMMA NextInv == Inv /\ [Next]_vars => Inv'
<1> SUFFICES ASSUME Inv, [Next]_vars PROVE Inv'
  OBVIOUS
<1>1. ASSUME NEW w \in Workers, WorkerStep(w) PROVE Inv'
  BY <1>1, MarkPaidInv, PayVoidedInv, JudgeInv, ReadAppliedInv, CreditInv, SecondPassInv, ForfeitInv,
     FulfilledInv, UnwindInv, VoidInv, RefundInv, LastWriteInv, RecordInv, ClawInv DEF WorkerStep
<1>2. ASSUME NEW w \in Workers, Crash(w) PROVE Inv'
  BY <1>2, CrashInv
<1>3. ASSUME NEW w \in Workers, NEW o \in Orders,
             StartFulfil(w, o) \/ StartDeletionVoid(w, o) \/ \E kind \in Kinds : StartReverse(w, o, kind)
      PROVE  Inv'
  BY <1>3, StartFulfilInv, StartDeletionVoidInv, StartReverseInv
<1>4. ASSUME NEW o \in Orders, LeaseRunsOut(o) PROVE Inv'
  BY <1>4, LeaseRunsOutInv
<1>5. CASE TaskStep \/ TaskFails
  BY <1>5, TaskInv
<1>6. ASSUME NEW n \in Nonces, StaffCheck(n) \/ StaffStep(n) \/ StaffDies(n) PROVE Inv'
  BY <1>6, StaffInv
<1>7. CASE UNCHANGED vars
  <2>1. /\ UNCHANGED <<order, holder, worker, ledger, balance, late>>
        /\ UNCHANGED <<deleted, task, staff, lost>>
    BY <1>7 DEF vars
  <2>2. \A p : (Purchased(p)' <=> Purchased(p)) /\ (Clawed(p)' <=> Clawed(p))
    BY <2>1 DEF Purchased, Clawed, Rows
  <2>3. Book' /\ Others'
    BY <2>1 DEF Inv, Book, OneRow, Others
  <2> QED
    BY <2>1, <2>2, <2>3, AsideInv
<1> QED
  BY <1>1, <1>2, <1>3, <1>4, <1>5, <1>6, <1>7 DEF Next

\* The inductive invariant of the wallet, its orders and their leases
THEOREM WalletInvariant == Spec => []Inv
BY InitInv, NextInv, PTL DEF Spec

\* Rows and processes keep their shapes, and no clawback, forfeit or staff debit takes the
\* balance below zero (apply_prot_posting), whatever the amounts and however debits race
THEOREM WalletTypes == Spec => []TypeOK
<1>1. Inv => TypeOK
  BY DEF Inv, Shapes, Book, Others, TypeOK
<1> QED
  BY <1>1, WalletInvariant, PTL

\* An order voided or refunded has had its Prot clawed back (reverse_prot_fulfilled,
\* void_for_deleted_account), through every crash, retry and takeover of its handlers
THEOREM WalletRefundedIsClawed == Spec => []RefundedIsClawed
<1>1. Inv => RefundedIsClawed
  <2> SUFFICES ASSUME Inv, NEW o \in Orders \ late, order[o].state \in {"Voided", "Refunded"},
                      order[o].buyer, Purchased(o), ~Clawed(o)
               PROVE  FALSE
    BY DEF RefundedIsClawed
  <2>1. Owes(o) /\ OwesInv(o)
    BY DEF Owes, Inv, Debts
  <2> QED
    BY <2>1 DEF OwesInv, Settleable
<1> QED
  BY <1>1, WalletInvariant, PTL

\* The balance is what the ledger rows add up to, and a key never has two rows
\* (apply_prot_posting), for any number of postings
THEOREM WalletDoubleEntry == Spec => []DoubleEntry
<1>1. Inv => DoubleEntry
  <2> SUFFICES ASSUME Inv PROVE DoubleEntry
    OBVIOUS
  <2>1. OneRow /\ balance = Sum(ledger)
    BY DEF Inv, Book
  <2>2. balance = MapThenSumSet(LAMBDA row : row.amount, ledger)
    BY <2>1 DEF Sum
  <2> QED
    BY <2>1, <2>2 DEF DoubleEntry, OneRow
<1> QED
  BY <1>1, WalletInvariant, PTL
-----------------------------------------------------------------------------
(* The wallet of a deleted account.  Once the deletion has forfeited it,   *)
(* what is in it came from a credit under way then: its order is still     *)
(* Paid, so that the resume will claw it back, or somebody is about to     *)
(* look at the account again, or that somebody died.  With several orders  *)
(* no single one need cover the balance: all of them together do.          *)

\* What the orders that are still to be clawed back are worth together; a holder past the
\* check of the account is about to fulfil its order, and covers nothing
Owed == {o \in Orders : Owes(o) /\ order[o].state = "Paid" /\ HolderPc(o) \notin {"applied", "fulfil"}}
Watching(w) == worker[w].pc \in {"second", "forfeit"} /\ holder[worker[w].o] # w
Watched ==
    \/ \E w \in Workers : Watching(w)
    \/ \E n \in Nonces : staff[n] \in {"second", "forfeit"}
    \/ Stranded
Over == task \in {"mark", "done"}
DeadInv == Over => balance <= Total(Prot, Owed) \/ Watched

Forfeits == {row \in ledger : row.kind = "forfeit"}
Numbered == \A row \in Forfeits : row.id \in Nat /\ row.id <= Cardinality(Forfeits)
PurchasedFirst == \A o \in Orders : Clawed(o) \/ o \in late => Purchased(o)
StaffRows == \A n \in Nonces : staff[n] \in {"second", "forfeit"} => Rows("admin", n) # {}
Flagged == task \in {"wallet", "forfeit", "mark", "done"} => deleted

Extra == Numbered /\ PurchasedFirst /\ StaffRows /\ Flagged /\ DeadInv

\* A forfeit finds its number free, so it empties the wallet
LEMMA ForfeitEmpties ==
    ASSUME Inv, Numbered, ForfeitPass
    PROVE  Numbered' /\ balance' = 0 /\ \A n : Rows("admin", n)' = Rows("admin", n)
<1>0. PICK n : n = Cardinality(Forfeits)
  OBVIOUS
<1>1. IsFiniteSet(Forfeits) /\ n \in Nat
  BY <1>0, FS_Subset, FS_CardinalityType DEF Inv, Book, Forfeits
<1>2. Post("forfeit", n + 1, -balance)
  BY <1>0 DEF ForfeitPass, Forfeits
<1>3. Rows("forfeit", n + 1) = {}
  BY <1>0, <1>1 DEF Rows, Numbered, Forfeits
<1>4. PICK row : row = [kind |-> "forfeit", id |-> n + 1, amount |-> -balance]
  OBVIOUS
<1>5. ledger' = ledger \cup {row} /\ balance' = balance + (-balance)
  BY <1>2, <1>3, <1>4 DEF Post
<1>6. row.kind = "forfeit" /\ row.id = n + 1
  BY <1>4
<1>7. Forfeits' = Forfeits \cup {row} /\ row \notin Forfeits
  BY <1>3, <1>5, <1>6 DEF Forfeits, Rows
<1>8. Cardinality(Forfeits') = n + 1
  BY <1>0, <1>1, <1>7, FS_AddElement
<1>9. Numbered'
  BY <1>0, <1>1, <1>6, <1>7, <1>8 DEF Numbered
<1>10. \A m : Rows("admin", m)' = Rows("admin", m)
  BY <1>5, <1>6 DEF Rows
<1> QED
  BY <1>5, <1>9, <1>10 DEF Inv, Book

\* No other posting is numbered, and none takes a row away
LEMMA PostKeeps ==
    ASSUME NEW kind, kind # "forfeit", NEW id, NEW amount, Numbered, Post(kind, id, amount)
    PROVE  /\ Numbered' /\ \A n : Rows("admin", n) # {} => Rows("admin", n)' # {}
           /\ Rows(kind, id)' # {}
<1>1. CASE Rows(kind, id) # {}
  BY <1>1 DEF Post, Numbered, Forfeits, Rows
<1>2. CASE Rows(kind, id) = {}
  <2>1. PICK row : row = [kind |-> kind, id |-> id, amount |-> amount]
    OBVIOUS
  <2>2. ledger' = ledger \cup {row} /\ row.kind = kind /\ row.id = id
    BY <1>2, <2>1 DEF Post
  <2>3. Forfeits' = Forfeits
    BY <2>2 DEF Forfeits
  <2> QED
    BY <2>2, <2>3 DEF Numbered, Rows
<1> QED
  BY <1>1, <1>2

\* What a clawback takes from the wallet, it takes from what is owed
LEMMA ClawbackTakes ==
    ASSUME Inv, Numbered, NEW o \in Orders, ClawbackPurchase(o)
    PROVE  /\ Numbered' /\ \A n : Rows("admin", n) # {} => Rows("admin", n)' # {}
           /\ balance' <= balance
           /\ \/ UNCHANGED <<ledger, balance>>
              \/ balance' = 0 \/ balance' = balance - Prot[o]
           /\ \A p : p # o => (Clawed(p)' <=> Clawed(p))
<1>0. balance \in Nat /\ Prot[o] \in Nat
  BY WalletAmounts DEF Inv, Book
<1>1. CASE UNCHANGED <<ledger, balance>>
  BY <1>0, <1>1 DEF Numbered, Forfeits, Rows, Clawed
<1>2. CASE ~UNCHANGED <<ledger, balance>>
  <2>1. Post("clawback", o, -Lesser(Prot[o], balance)) /\ Rows("clawback", o) = {}
    BY <1>2 DEF ClawbackPurchase, Post
  <2>2. balance' = balance + (-Lesser(Prot[o], balance))
    BY <2>1 DEF Post
  <2>3. "clawback" # "forfeit"
    OBVIOUS
  <2>4. Numbered' /\ \A n : Rows("admin", n) # {} => Rows("admin", n)' # {}
    BY <2>1, <2>3, PostKeeps
  <2>5. \A p : p # o => (Clawed(p)' <=> Clawed(p))
    <3>1. PICK row : row = [kind |-> "clawback", id |-> o, amount |-> -Lesser(Prot[o], balance)]
      OBVIOUS
    <3>2. ledger' = ledger \cup {row} /\ row.id = o
      BY <2>1, <3>1 DEF Post
    <3> QED
      BY <3>2 DEF Clawed, Rows
  <2> QED
    BY <1>0, <2>2, <2>4, <2>5 DEF Lesser
<1> QED
  BY <1>1, <1>2
-----------------------------------------------------------------------------
LEMMA ProtNat == \A o \in Orders : Prot[o] \in Nat
BY WalletAmounts

LEMMA OwedTotal ==
    ASSUME NEW S \in SUBSET Orders
    PROVE  IsFiniteSet(S) /\ Total(Prot, S) \in Nat
<1>1. IsFiniteSet(S)
  BY WalletOrders, FS_Subset
<1>2. \A x \in S : Prot[x] \in Nat
  BY ProtNat
<1> QED
  BY <1>1, <1>2, TotalGrows

\* An empty wallet needs no watching
LEMMA DeadEmpty ==
    ASSUME balance' = 0
    PROVE  DeadInv'
<1>1. Owed' \in SUBSET Orders
  BY DEF Owed
<1>2. Total(Prot, Owed') \in Nat
  BY <1>1, OwedTotal
<1> QED
  BY <1>2 DEF DeadInv

\* Neither does a wallet that only lost, while what is owed only grew
LEMMA DeadKeeps ==
    ASSUME Inv, Inv', DeadInv, Over' => Over, balance' <= balance, Owed \subseteq Owed', Watched => Watched'
    PROVE  DeadInv'
<1>1. Owed' \in SUBSET Orders /\ Owed \in SUBSET Owed' /\ \A x \in Owed' : Prot[x] \in Nat
  BY ProtNat DEF Owed
<1>2. IsFiniteSet(Owed')
  BY <1>1, OwedTotal
<1>3. Total(Prot, Owed) \in Nat /\ Total(Prot, Owed') \in Nat /\ Total(Prot, Owed) <= Total(Prot, Owed')
  BY ONLY <1>1, <1>2, TotalGrows
<1>4. balance \in Nat /\ balance' \in Nat
  BY DEF Inv, Book
<1> QED
  BY <1>3, <1>4 DEF DeadInv

\* Who watches the wallet goes on watching it while others move
LEMMA WatchKeeps ==
    ASSUME Inv, NEW v \in Workers, Watching(v), worker'[v] = worker[v],
           \A p \in Orders : holder'[p] = v => holder[p] = v
    PROVE  Watching(v)'
<1>1. worker[v].o \in Orders
  BY AtWork DEF Watching
<1> QED
  BY <1>1 DEF Watching

LEMMA StrandedKeeps ==
    ASSUME Stranded, lost \subseteq lost', UNCHANGED staff,
           \A n : Rows("admin", n) # {} => Rows("admin", n)' # {}
    PROVE  Stranded'
BY DEF Stranded

\* Nobody but the worker itself makes it stop watching
LEMMA WatchedByOthers ==
    ASSUME Inv, NEW w \in Workers, ~Watching(w), UNCHANGED staff, lost \subseteq lost',
           \A v \in Workers : v # w => worker'[v] = worker[v],
           \A v \in Workers : v # w => \A p \in Orders : holder'[p] = v => holder[p] = v,
           \A n : Rows("admin", n) # {} => Rows("admin", n)' # {},
           Watched
    PROVE  Watched'
<1>1. ASSUME NEW v \in Workers, Watching(v) PROVE Watched'
  <2>1. v # w
    BY <1>1
  <2>2. Watching(v)'
    BY <1>1, <2>1, WatchKeeps
  <2> QED
    BY <2>2 DEF Watched
<1>2. ASSUME NEW n \in Nonces, staff[n] \in {"second", "forfeit"} PROVE Watched'
  BY <1>2 DEF Watched
<1>3. CASE Stranded
  BY <1>3, StrandedKeeps DEF Watched
<1> QED
  BY <1>1, <1>2, <1>3 DEF Watched

\* A worker's step leaves the others where they are, and gives none of them a lease
Apart(w) ==
    /\ \A v \in Workers : v # w => worker'[v] = worker[v]
    /\ \A v \in Workers : v # w => \A p \in Orders : holder'[p] = v => holder[p] = v

LEMMA StopApart ==
    ASSUME Inv, NEW w \in Workers, worker[w].pc # "idle", Stop(w)
    PROVE  /\ Apart(w) /\ \A p \in Orders : HolderPc(p)' \in {"done", HolderPc(p)}
           /\ \A p \in Orders : holder[p] = w => HolderPc(p)' = "done"
<1> PICK o : o = worker[w].o
  OBVIOUS
<1>1. o \in Orders
  BY AtWork
<1>2. /\ worker' = [worker EXCEPT ![w] = Idle]
      /\ holder' = [holder EXCEPT ![o] = IF @ = w THEN None ELSE @]
  BY DEF Stop
<1>3. \A v \in Workers : v # w => worker'[v] = worker[v]
  BY <1>2 DEF Inv, Shapes
<1>4. \A p \in Orders : holder'[p] = IF p = o /\ holder[p] = w THEN None ELSE holder[p]
  BY <1>1, <1>2 DEF Inv, Shapes
<1>5. \A p \in Orders : holder[p] = w => p = o
  BY WalletNone DEF Inv, Leases, LeaseInv
<1>6. Apart(w)
  BY <1>3, <1>4, WalletNone DEF Apart
<1>7. ASSUME NEW p \in Orders PROVE /\ HolderPc(p)' \in {"done", HolderPc(p)}
                                    /\ holder[p] = w => HolderPc(p)' = "done"
  <2>1. CASE holder[p] = w
    BY <1>4, <1>5, <2>1 DEF HolderPc
  <2>2. CASE holder[p] # w
    <3>1. holder'[p] = holder[p] /\ holder[p] \in Workers \cup {None}
      BY <1>4, <2>2 DEF Inv, Shapes
    <3>2. holder[p] # None => worker'[holder[p]] = worker[holder[p]]
      BY <1>3, <2>2, <3>1
    <3> QED
      BY <2>2, <3>1, <3>2 DEF HolderPc
  <2> QED
    BY <2>1, <2>2
<1> QED
  BY <1>6, <1>7

LEMMA StopOwed ==
    ASSUME Inv, NEW w \in Workers, worker[w].pc # "idle", Stop(w), UNCHANGED <<order, ledger, late>>
    PROVE  Apart(w) /\ Owed \subseteq Owed'
<1>1. Apart(w) /\ \A p \in Orders : HolderPc(p)' \in {"done", HolderPc(p)}
  BY StopApart
<1>2. \A p : Owes(p)' <=> Owes(p)
  BY SameDebts
<1> QED
  BY <1>1, <1>2 DEF Owed

\* A worker that moves, but not past the check of the account, still answers for its order
LEMMA MoveHolders ==
    ASSUME Inv, NEW w \in Workers, NEW pc \in Pcs, Moved(w, pc), UNCHANGED holder,
           pc \notin {"applied", "fulfil"} \/ worker[w].pc \in {"applied", "fulfil"}
    PROVE  /\ Apart(w)
           /\ \A p \in Orders : HolderPc(p) \notin {"applied", "fulfil"} => HolderPc(p)' \notin {"applied", "fulfil"}
<1>1. Apart(w)
  BY DEF Moved, Apart
<1>2. ASSUME NEW p \in Orders, HolderPc(p) \notin {"applied", "fulfil"}
      PROVE  HolderPc(p)' \notin {"applied", "fulfil"}
  <2>1. CASE holder[p] = w
    BY <1>2, <2>1, WalletNone DEF HolderPc, Moved
  <2>2. CASE holder[p] # w
    <3>1. HolderPc(p)' = HolderPc(p)
      BY <2>2 DEF HolderPc, Moved, Inv, Shapes
    <3> QED
      BY <1>2, <3>1
  <2> QED
    BY <2>1, <2>2
<1> QED
  BY <1>1, <1>2

LEMMA MoveOwed ==
    ASSUME Inv, NEW w \in Workers, NEW pc \in Pcs, Moved(w, pc), UNCHANGED <<order, holder, ledger, late>>,
           pc \notin {"applied", "fulfil"} \/ worker[w].pc \in {"applied", "fulfil"}
    PROVE  Apart(w) /\ Owed \subseteq Owed'
<1>1. Apart(w) /\ \A p \in Orders : HolderPc(p) \notin {"applied", "fulfil"}
                                    => HolderPc(p)' \notin {"applied", "fulfil"}
  BY MoveHolders
<1>2. \A p : Owes(p)' <=> Owes(p)
  BY SameDebts
<1> QED
  BY <1>1, <1>2 DEF Owed

\* A write of an order that is owed keeps it Paid; other writes are of orders not owed
LEMMA SaveOwed ==
    ASSUME Inv, NEW w \in Workers, worker[w].pc # "idle",
           NEW copy, NEW pc \in (Pcs \ {"idle"}) \cup {"done"}, Save(w, copy, pc), UNCHANGED <<ledger, late>>,
           /\ worker[w].copy.state = "Paid" /\ Settleable(worker[w].copy, worker[w].pc)
           /\ worker[w].pc \notin {"applied", "fulfil"}
           => copy.state = "Paid" /\ pc \notin {"applied", "fulfil"}
    PROVE  Apart(w) /\ Owed \subseteq Owed'
<1>1. CASE ~Fenced(w)
  <2>1. Stop(w) /\ UNCHANGED order
    BY <1>1 DEF Save
  <2> QED
    BY <2>1, StopOwed
<1>2. CASE Fenced(w)
  <2> PICK o : o = worker[w].o
    OBVIOUS
  <2>1. o \in Orders /\ holder[o] = w /\ order[o] = worker[w].copy /\ worker[w] \in WorkerRow
    BY <1>2, AtWork DEF Fenced
  <2>2. order' = [order EXCEPT ![o] = copy]
    BY <1>2 DEF Save
  <2>3. \A p \in Orders : order'[p] = IF p = o THEN copy ELSE order[p]
    BY <2>1, <2>2 DEF Inv, Shapes
  <2>4. \A p \in Orders : p # o => holder[p] # w
    BY WalletNone DEF Inv, Leases, LeaseInv
  <2>5. \A p : Owes(p)' <=> Owes(p)
    BY DEF Owes, Purchased, Clawed, Rows
  <2>6. /\ Apart(w) /\ \A p \in Orders : HolderPc(p)' \in {"done", HolderPc(p), pc}
        /\ \A p \in Orders : p # o => HolderPc(p)' \in {"done", HolderPc(p)}
    <3>1. CASE pc = "done"
      <4>1. Stop(w)
        BY <1>2, <3>1 DEF Save
      <4> QED
        BY <4>1, StopApart
    <3>2. CASE pc # "done"
      <4>1. worker' = [worker EXCEPT ![w].copy = copy, ![w].pc = pc, ![w].kind = "None"] /\ UNCHANGED holder
        BY <1>2, <3>2 DEF Save
      <4>2. \A v \in Workers : v # w => worker'[v] = worker[v]
        BY <4>1 DEF Inv, Shapes
      <4>3. worker'[w].pc = pc
        BY <2>1, <4>1 DEF Inv, Shapes, WorkerRow
      <4>4. Apart(w)
        BY <4>1, <4>2 DEF Apart
      <4>5. HolderPc(o)' = pc
        BY <2>1, <4>1, <4>3, WalletNone DEF HolderPc
      <4>6. \A p \in Orders : p # o => HolderPc(p)' = HolderPc(p)
        <5> SUFFICES ASSUME NEW p \in Orders, p # o PROVE HolderPc(p)' = HolderPc(p)
          OBVIOUS
        <5>1. holder[p] # None => worker'[holder[p]] = worker[holder[p]]
          BY <2>4, <4>2 DEF Inv, Shapes
        <5>2. CASE holder[p] = None
          BY <4>1, <5>2 DEF HolderPc
        <5>3. CASE holder[p] # None
          <6>1. holder'[p] = holder[p] /\ worker'[holder'[p]] = worker[holder[p]]
            BY <4>1, <5>1, <5>3
          <6> QED
            BY <5>3, <6>1 DEF HolderPc
        <5> QED
          BY <5>2, <5>3
      <4> QED
        BY <4>4, <4>5, <4>6
    <3> QED
      BY <3>1, <3>2
  <2>7. ASSUME o \in Owed PROVE o \in Owed'
    <3>1. Owes(o) /\ order[o].state = "Paid" /\ HolderPc(o) \notin {"applied", "fulfil"}
      BY <2>7 DEF Owed
    <3>2. HolderPc(o) = worker[w].pc
      BY <2>1, WalletNone DEF HolderPc
    <3>3. Settleable(order[o], HolderPc(o))
      BY <2>1, <3>1 DEF Inv, Debts, OwesInv
    <3>4. copy.state = "Paid" /\ pc \notin {"applied", "fulfil"}
      BY <2>1, <3>1, <3>2, <3>3
    <3>5. HolderPc(o)' \notin {"applied", "fulfil"}
      BY <2>1, <2>6, <3>1, <3>4
    <3> QED
      BY <2>1, <2>3, <2>5, <3>1, <3>4, <3>5 DEF Owed
  <2>8. ASSUME NEW p \in Owed, p # o PROVE p \in Owed'
    BY <2>3, <2>5, <2>6, <2>8 DEF Owed
  <2> QED
    BY <2>6, <2>7, <2>8
<1> QED
  BY <1>1, <1>2

\* A step that posts nothing, of a worker that was not watching
LEMMA QuietExtra ==
    ASSUME Inv, Inv', Extra, NEW w \in Workers, ~Watching(w), Apart(w), Owed \subseteq Owed',
           UNCHANGED <<ledger, balance, deleted, task, staff, late>>, lost \subseteq lost'
    PROVE  Extra'
<1>1. Numbered' /\ PurchasedFirst' /\ StaffRows' /\ Flagged'
  BY DEF Extra, Numbered, Forfeits, PurchasedFirst, StaffRows, Flagged, Purchased, Clawed, Rows
<1>2. \A n : Rows("admin", n) # {} => Rows("admin", n)' # {}
  BY DEF Rows
<1>3. Watched => Watched'
  BY <1>2, WatchedByOthers DEF Apart
<1>4. balance' <= balance /\ (Over' => Over)
  BY DEF Inv, Book, Over
<1>5. DeadInv'
  BY <1>3, <1>4, DeadKeeps DEF Extra
<1> QED
  BY <1>1, <1>5 DEF Extra

Rest == <<ledger, balance, deleted, task, staff, late, lost>>

LEMMA SaveExtra ==
    ASSUME Inv, Inv', Extra, NEW w \in Workers, worker[w].pc \notin {"idle", "second", "forfeit"},
           NEW copy, NEW pc \in (Pcs \ {"idle"}) \cup {"done"}, Save(w, copy, pc), UNCHANGED Rest,
           /\ worker[w].copy.state = "Paid" /\ Settleable(worker[w].copy, worker[w].pc)
           /\ worker[w].pc \notin {"applied", "fulfil"}
           => copy.state = "Paid" /\ pc \notin {"applied", "fulfil"}
    PROVE  Extra'
<1>1. UNCHANGED <<ledger, balance, deleted, task, staff, late>> /\ lost \subseteq lost'
  BY DEF Rest
<1>2. Apart(w) /\ Owed \subseteq Owed'
  BY <1>1, SaveOwed
<1>3. ~Watching(w)
  BY DEF Watching
<1> QED
  BY <1>1, <1>2, <1>3, QuietExtra

LEMMA StopExtra ==
    ASSUME Inv, Inv', Extra, NEW w \in Workers, worker[w].pc \notin {"idle", "second", "forfeit"},
           Stop(w), UNCHANGED order, UNCHANGED Rest
    PROVE  Extra'
<1>1. UNCHANGED <<ledger, balance, deleted, task, staff, late>> /\ lost \subseteq lost'
  BY DEF Rest
<1>2. Apart(w) /\ Owed \subseteq Owed'
  BY <1>1, StopOwed
<1>3. ~Watching(w)
  BY DEF Watching
<1> QED
  BY <1>1, <1>2, <1>3, QuietExtra

LEMMA MoveExtra ==
    ASSUME Inv, Inv', Extra, NEW w \in Workers, worker[w].pc \notin {"second", "forfeit"},
           NEW pc \in Pcs, Moved(w, pc), UNCHANGED <<order, holder>>, UNCHANGED Rest,
           pc \notin {"applied", "fulfil"} \/ worker[w].pc \in {"applied", "fulfil"}
    PROVE  Extra'
<1>1. UNCHANGED <<ledger, balance, deleted, task, staff, late>> /\ lost \subseteq lost'
  BY DEF Rest
<1>2. Apart(w) /\ Owed \subseteq Owed'
  BY <1>1, MoveOwed
<1>3. ~Watching(w)
  BY DEF Watching
<1> QED
  BY <1>1, <1>2, <1>3, QuietExtra

LEMMA AcquireExtra ==
    ASSUME Inv, Inv', Extra, NEW w \in Workers, NEW o \in Orders, NEW pc, NEW kind, NEW deleting,
           Acquire(w, o, pc, kind, deleting), pc \notin {"applied", "fulfil"}
    PROVE  Extra'
<1>1. /\ worker[w].pc = "idle" /\ holder[o] = None
      /\ holder' = [holder EXCEPT ![o] = w]
      /\ worker' = [worker EXCEPT ![w] = [pc |-> pc, o |-> o, copy |-> order[o],
                                          kind |-> kind, deleting |-> deleting]]
      /\ UNCHANGED <<ledger, balance, deleted, task, staff, late>> /\ lost \subseteq lost' /\ UNCHANGED order
  BY DEF Acquire, At
<1>2. \A v \in Workers : v # w => worker'[v] = worker[v]
  BY <1>1 DEF Inv, Shapes
<1>3. \A p \in Orders : holder'[p] = IF p = o THEN w ELSE holder[p]
  BY <1>1 DEF Inv, Shapes
<1>4. Apart(w)
  BY <1>2, <1>3 DEF Apart
<1>5. ~Watching(w)
  BY <1>1 DEF Watching
<1>6. worker'[w].pc = pc
  BY <1>1 DEF Inv, Shapes
<1>7. \A p \in Orders : p # o => holder[p] # w
  BY <1>1, WalletNone DEF Inv, Leases, LeaseInv
<1>8. ASSUME NEW p \in Orders, HolderPc(p) \notin {"applied", "fulfil"}
      PROVE  HolderPc(p)' \notin {"applied", "fulfil"}
  <2>1. CASE p = o
    BY <1>3, <1>6, <2>1, WalletNone DEF HolderPc
  <2>2. CASE p # o /\ holder[p] = None
    BY <1>3, <2>2 DEF HolderPc
  <2>3. CASE p # o /\ holder[p] # None
    <3>1. holder'[p] = holder[p] /\ worker'[holder'[p]] = worker[holder[p]]
      BY <1>2, <1>3, <1>7, <2>3 DEF Inv, Shapes
    <3> QED
      BY <1>8, <2>3, <3>1 DEF HolderPc
  <2> QED
    BY <2>1, <2>2, <2>3
<1>9. \A p : Owes(p)' <=> Owes(p)
  BY <1>1, SameDebts
<1>10. Owed \subseteq Owed'
  BY <1>1, <1>8, <1>9 DEF Owed
<1> QED
  BY <1>1, <1>4, <1>5, <1>10, QuietExtra

LEMMA StartExtra ==
    ASSUME Inv, Inv', Extra, NEW w \in Workers, NEW o \in Orders,
           StartFulfil(w, o) \/ StartDeletionVoid(w, o) \/ \E kind \in Kinds : StartReverse(w, o, kind)
    PROVE  Extra'
<1>1. CASE StartFulfil(w, o)
  <2> DEFINE pc == CASE order[o].state = "Pending" -> "pay" [] order[o].state = "Paid" -> "judge"
                     [] order[o].state = "Voided" -> "latepay" [] order[o].state = "Fulfilled" -> "claw"
  <2>1. Acquire(w, o, pc, "None", FALSE) /\ order[o].state \in {"Pending", "Paid", "Voided", "Fulfilled"}
    BY <1>1 DEF StartFulfil
  <2>2. pc \notin {"applied", "fulfil"}
    BY <2>1
  <2> HIDE DEF pc
  <2> QED
    BY <2>1, <2>2, AcquireExtra
<1>2. CASE StartDeletionVoid(w, o)
  <2>1. PICK pc : pc = IF order[o].state = "Paid" THEN "unwind" ELSE "voidunpaid"
    OBVIOUS
  <2>2. Acquire(w, o, pc, "None", TRUE)
    BY <1>2, <2>1 DEF StartDeletionVoid
  <2>3. pc \notin {"applied", "fulfil"}
    BY <2>1
  <2> QED
    BY <2>2, <2>3, AcquireExtra
<1>3. ASSUME NEW kind \in Kinds, StartReverse(w, o, kind) PROVE Extra'
  <2>1. Acquire(w, o, "record", kind, FALSE)
    BY <1>3 DEF StartReverse
  <2>2. "record" \notin {"applied", "fulfil"}
    OBVIOUS
  <2> QED
    BY <2>1, <2>2, AcquireExtra
<1> QED
  BY <1>1, <1>2, <1>3
\* The writes of handlers: what is owed is not among the orders they take out of Paid
LEMMA WriteExtra ==
    ASSUME Inv, Inv', Extra, NEW w \in Workers,
           MarkPaid(w) \/ PayVoided(w) \/ Fulfilled(w) \/ Voided(w) \/ VoidUnpaid(w) \/ Refunded(w)
    PROVE  Extra'
<1>1. /\ worker[w].pc \in {"pay", "latepay", "fulfil", "voided", "voidunpaid", "refunded"}
      /\ UNCHANGED Rest
  BY DEF MarkPaid, PayVoided, Fulfilled, Voided, VoidUnpaid, Refunded, At, Rest
<1>2. Fits(worker[w].copy, worker[w].pc)
  BY <1>1, CopyFits
<1>3. \E copy : \E pc \in {"judge", "void", "done", "claw"} : Save(w, copy, pc)
  BY DEF MarkPaid, PayVoided, Fulfilled, Voided, VoidUnpaid, Refunded
<1>4. PICK copy, pc : pc \in (Pcs \ {"idle"}) \cup {"done"} /\ Save(w, copy, pc)
  BY <1>3 DEF Pcs
<1>5. ~(/\ worker[w].copy.state = "Paid" /\ Settleable(worker[w].copy, worker[w].pc)
        /\ worker[w].pc \notin {"applied", "fulfil"})
  BY <1>1, <1>2 DEF Fits, Settleable, Covered
<1> QED
  BY <1>1, <1>4, <1>5, SaveExtra

LEMMA VoidExtra ==
    ASSUME Inv, Inv', Extra, NEW w \in Workers, Void(w) \/ Refund(w)
    PROVE  Extra'
<1>1. worker[w].pc \in {"void", "refund", "refundnew"} /\ UNCHANGED Rest
  BY DEF Void, Refund, At, Rest
<1>2. ~(worker[w].copy.state = "Paid" /\ Settleable(worker[w].copy, worker[w].pc))
  BY <1>1 DEF Settleable, Covered
<1>3. \/ \E copy : \E pc \in {"done", "refundnew"} : Save(w, copy, pc)
      \/ Stop(w) /\ UNCHANGED order
      \/ \E pc \in {"refund", "voided"} : Goto(w, pc) /\ UNCHANGED <<order, holder>>
  BY DEF Void, Refund
<1>4. ASSUME NEW copy, NEW pc \in {"done", "refundnew"}, Save(w, copy, pc) PROVE Extra'
  <2>1. pc \in (Pcs \ {"idle"}) \cup {"done"}
    BY DEF Pcs
  <2> QED
    BY <1>1, <1>2, <1>4, <2>1, SaveExtra
<1>5. ASSUME Stop(w), UNCHANGED order PROVE Extra'
  BY <1>1, <1>5, StopExtra
<1>6. ASSUME NEW pc \in {"refund", "voided"}, Goto(w, pc), UNCHANGED <<order, holder>> PROVE Extra'
  <2>1. pc \in Pcs /\ Moved(w, pc)
    BY <1>6, GotoMoves DEF Pcs
  <2> QED
    BY <1>1, <1>6, <2>1, MoveExtra
<1> QED
  BY <1>3, <1>4, <1>5, <1>6

LEMMA RecordExtra ==
    ASSUME Inv, Inv', Extra, NEW w \in Workers, Record(w)
    PROVE  Extra'
<1> DEFINE q == worker[w]
           dispute == [q.copy EXCEPT !.open = DisputeAfter(q.copy, q.kind)]
           Pend == CASE q.kind = "DisputeLost" -> "DisputeLost"
                     [] q.kind = "Refund" /\ q.copy.pending = "None" -> "Refund"
                     [] OTHER -> q.copy.pending
           then == IF q.kind \in {"Refund", "DisputeLost"} THEN "claw" ELSE "done"
<1>1. q.pc = "record" /\ q.copy \in OrderRow /\ UNCHANGED Rest
  BY AtWork DEF Record, At, Rest
<1>2. PICK c, d, pc : /\ c = dispute /\ d = [dispute EXCEPT !.pending = Pend] /\ pc = then
  OBVIOUS
<1>3. pc \in {"claw", "done"} /\ pc \in (Pcs \ {"idle"}) \cup {"done"} /\ "done" \in (Pcs \ {"idle"}) \cup {"done"}
  BY <1>2 DEF Pcs
<1>4. \/ Save(w, d, "done")
      \/ Save(w, c, pc)
      \/ Done(w, pc) /\ UNCHANGED order
  BY <1>2 DEF Record
<1>5. c.state = q.copy.state /\ d.state = q.copy.state
  <2>1. PICK open, pending : open = DisputeAfter(q.copy, q.kind) /\ pending = Pend
    OBVIOUS
  <2>2. c = [q.copy EXCEPT !.open = open] /\ d = [c EXCEPT !.pending = pending]
    BY <1>2, <2>1
  <2> HIDE DEF Pend, dispute, then
  <2> QED
    BY <1>1, <2>2 DEF OrderRow
<1> HIDE DEF Pend, dispute, then
<1>6. CASE Save(w, d, "done")
  BY <1>1, <1>3, <1>5, <1>6, SaveExtra
<1>7. CASE Save(w, c, pc)
  BY <1>1, <1>3, <1>5, <1>7, SaveExtra
<1>8. CASE Done(w, pc) /\ UNCHANGED order
  <2>1. CASE pc = "done"
    BY <1>1, <1>8, <2>1, StopExtra DEF Done
  <2>2. CASE pc = "claw"
    <3>1. pc \in Pcs /\ Moved(w, pc) /\ UNCHANGED holder
      BY <1>8, <2>2, DoneMoves DEF Pcs
    <3> QED
      BY <1>1, <1>8, <2>2, <3>1, MoveExtra
  <2> QED
    BY <1>3, <2>1, <2>2
<1> QED
  BY <1>4, <1>6, <1>7, <1>8

\* Once the account is flagged, nothing is credited that was not about to be
LEMMA JudgeExtra ==
    ASSUME Inv, Inv', Extra, NEW w \in Workers, Judge(w)
    PROVE  Extra'
<1>1. worker[w].pc = "judge" /\ UNCHANGED Rest /\ UNCHANGED <<order, holder>>
  BY DEF Judge, At, Rest
<1>2. CASE Over
  <2>1. deleted
    BY <1>2 DEF Over, Extra, Flagged
  <2>2. PICK pc \in {"void", "unwind"} : Goto(w, pc)
    BY <2>1 DEF Judge
  <2>3. pc \in Pcs /\ Moved(w, pc)
    BY <2>2, GotoMoves DEF Pcs
  <2> QED
    BY <1>1, <2>2, <2>3, MoveExtra
<1>3. CASE ~Over
  <2>1. Numbered' /\ PurchasedFirst' /\ StaffRows' /\ Flagged'
    BY <1>1 DEF Rest, Extra, Numbered, Forfeits, PurchasedFirst, StaffRows, Flagged, Purchased, Clawed, Rows
  <2>2. DeadInv'
    BY <1>1, <1>3 DEF Rest, DeadInv, Over
  <2> QED
    BY <2>1, <2>2 DEF Extra
<1> QED
  BY <1>2, <1>3

LEMMA ReadAppliedExtra ==
    ASSUME Inv, Inv', Extra, NEW w \in Workers, ReadApplied(w)
    PROVE  Extra'
<1>1. worker[w].pc = "applied" /\ UNCHANGED Rest /\ UNCHANGED <<order, holder>>
  BY DEF ReadApplied, At, Rest
<1>2. PICK pc \in {"fulfil", "void", "credit"} : Goto(w, pc)
  BY DEF ReadApplied
<1>3. pc \in Pcs /\ Moved(w, pc)
  BY <1>2, GotoMoves DEF Pcs
<1> QED
  BY <1>1, <1>3, MoveExtra

\* The worker that looks at the account again: with nothing left in the wallet, it goes on
LEMMA SecondPassExtra ==
    ASSUME Inv, Inv', Extra, NEW w \in Workers, SecondPass(w)
    PROVE  Extra'
<1>1. worker[w].pc = "second" /\ UNCHANGED Rest /\ UNCHANGED <<order, holder>>
  BY DEF SecondPass, At, Rest
<1>2. Numbered' /\ PurchasedFirst' /\ StaffRows' /\ Flagged'
  BY <1>1 DEF Rest, Extra, Numbered, Forfeits, PurchasedFirst, StaffRows, Flagged, Purchased, Clawed, Rows
<1>3. CASE ~Over
  <2>1. DeadInv'
    BY <1>1, <1>3 DEF Rest, DeadInv, Over
  <2> QED
    BY <1>2, <2>1 DEF Extra
<1>4. CASE balance = 0
  <2>1. balance' = 0
    BY <1>1, <1>4 DEF Rest
  <2> QED
    BY <1>2, <2>1, DeadEmpty DEF Extra
<1>5. CASE Over /\ balance # 0
  <2>1. deleted /\ balance > 0
    BY <1>5 DEF Over, Extra, Flagged, Inv, Book
  <2>2. Goto(w, "forfeit")
    BY <2>1 DEF SecondPass
  <2>3. "forfeit" \in Pcs /\ Moved(w, "forfeit")
    BY <2>2, GotoMoves DEF Pcs
  <2>4. Apart(w) /\ Owed \subseteq Owed'
    BY <1>1, <2>3, MoveOwed DEF Rest
  <2>5. CASE Watching(w)
    <3>1. worker[w].o \in Orders
      BY <1>1, AtWork
    <3>2. Watching(w)'
      BY <1>1, <2>3, <2>5, <3>1 DEF Watching, Moved
    <3>3. DeadInv'
      BY <3>2 DEF DeadInv, Watched
    <3> QED
      BY <1>2, <3>3 DEF Extra
  <2>6. CASE ~Watching(w)
    <3>1. UNCHANGED <<ledger, balance, deleted, task, staff, late>> /\ lost \subseteq lost'
      BY <1>1 DEF Rest
    <3> QED
      BY <2>4, <2>6, <3>1, QuietExtra
  <2> QED
    BY <2>5, <2>6
<1> QED
  BY <1>3, <1>4, <1>5
-----------------------------------------------------------------------------
(* The steps that post                                                     *)

LEMMA ForfeitExtra ==
    ASSUME Inv, Inv', Extra, ForfeitPass, UNCHANGED late,
           StaffRows', Flagged'
    PROVE  Extra'
<1>1. Numbered' /\ balance' = 0
  BY ForfeitEmpties DEF Extra
<1>2. \A p : (Purchased(p)' <=> Purchased(p))
  BY ForfeitBook DEF Inv
<1>3. \A p : Clawed(p)' => Clawed(p)
  BY DEF ForfeitPass, Post, Clawed, Rows
<1>4. PurchasedFirst'
  BY <1>2, <1>3 DEF Extra, PurchasedFirst
<1> QED
  BY <1>1, <1>4, DeadEmpty DEF Extra

LEMMA WorkerForfeitExtra ==
    ASSUME Inv, Inv', Extra, NEW w \in Workers, Forfeit(w)
    PROVE  Extra'
<1>1. ForfeitPass /\ UNCHANGED <<late, staff, task, deleted>>
  BY DEF Forfeit
<1>2. \A n : Rows("admin", n)' = Rows("admin", n)
  BY <1>1, ForfeitEmpties DEF Extra
<1>3. StaffRows' /\ Flagged'
  BY <1>1, <1>2 DEF Extra, StaffRows, Flagged
<1> QED
  BY <1>1, <1>3, ForfeitExtra

\* What is taken from the wallet for one order
LEMMA DeadTakes ==
    ASSUME Inv, Inv', DeadInv, Over' => Over, NEW o \in Orders, Owed \ {o} \subseteq Owed',
           balance' = balance - Prot[o], Watched => Watched'
    PROVE  DeadInv'
<1>1. /\ Owed \in SUBSET Orders /\ Owed' \in SUBSET Orders /\ Owed \ {o} \in SUBSET Owed'
  BY DEF Owed
<1>2. IsFiniteSet(Owed') /\ IsFiniteSet(Owed) /\ Total(Prot, Owed) \in Nat /\ Total(Prot, Owed') \in Nat
  BY <1>1, OwedTotal
<1>3. (\A x \in Owed' : Prot[x] \in Nat) /\ (\A x \in Owed : Prot[x] \in Int) /\ Prot[o] \in Nat
  BY <1>1, ProtNat
<1>4. Total(Prot, Owed \ {o}) \in Nat /\ Total(Prot, Owed \ {o}) <= Total(Prot, Owed')
  BY ONLY <1>1, <1>2, <1>3, TotalGrows
<1>5. Total(Prot, Owed) <= Total(Prot, Owed \ {o}) + Prot[o]
  <2>1. CASE o \in Owed
    <3>1. Total(Prot, Owed) = Prot[o] + Total(Prot, Owed \ {o})
      BY ONLY <1>2, <1>3, <2>1, TotalTakes
    <3> QED
      BY <1>2, <1>3, <1>4, <3>1
  <2>2. CASE o \notin Owed
    <3>1. Owed \ {o} = Owed
      BY <2>2
    <3> QED
      BY <1>2, <1>3, <3>1
  <2> QED
    BY <2>1, <2>2
<1>6. balance \in Nat
  BY DEF Inv, Book
<1> QED
  BY <1>2, <1>3, <1>4, <1>5, <1>6 DEF DeadInv

\* What is added to it for one order
LEMMA DeadAdds ==
    ASSUME Inv, Inv', DeadInv, Over' => Over, NEW o \in Orders, o \notin Owed, Owed \cup {o} \subseteq Owed',
           balance' = balance + Prot[o], Watched => Watched'
    PROVE  DeadInv'
<1>1. Owed \in SUBSET Orders /\ Owed' \in SUBSET Orders /\ Owed \cup {o} \in SUBSET Owed'
  BY DEF Owed
<1>2. IsFiniteSet(Owed') /\ IsFiniteSet(Owed) /\ Total(Prot, Owed) \in Nat /\ Total(Prot, Owed') \in Nat
  BY <1>1, OwedTotal
<1>3. (\A x \in Owed' : Prot[x] \in Nat) /\ (\A x \in Owed \cup {o} : Prot[x] \in Int) /\ Prot[o] \in Nat
  BY <1>1, ProtNat
<1>4. Total(Prot, Owed \cup {o}) \in Nat /\ Total(Prot, Owed \cup {o}) <= Total(Prot, Owed')
  BY ONLY <1>1, <1>2, <1>3, TotalGrows
<1>5. Total(Prot, Owed \cup {o}) = Total(Prot, Owed) + Prot[o]
  BY <1>2, <1>3, TotalAdd
<1>6. balance \in Nat
  BY DEF Inv, Book
<1> QED
  BY <1>2, <1>3, <1>4, <1>5, <1>6 DEF DeadInv

\* A clawback, by a worker that holds the order or does not
LEMMA ClawExtra ==
    ASSUME Inv, Inv', Extra, NEW w \in Workers, Unwind(w) \/ Claw(w)
    PROVE  Extra'
<1> PICK o : o = worker[w].o
  OBVIOUS
<1>1. worker[w].pc \in {"unwind", "claw"} /\ o \in Orders
  BY AtWork DEF Unwind, Claw, At
<1>2. PICK pc \in {"void", "refunded"} : Goto(w, pc)
  BY DEF Unwind, Claw
<1>3. UNCHANGED <<order, holder, deleted, task, staff, late, lost>>
  BY DEF Unwind, Claw
<1>4. ClawbackPurchase(o) \/ UNCHANGED <<ledger, balance>>
  BY DEF Unwind, Claw
<1>5. pc \in Pcs /\ Moved(w, pc)
  BY <1>2, GotoMoves DEF Pcs
<1>6. CASE UNCHANGED <<ledger, balance>>
  BY <1>1, <1>2, <1>3, <1>5, <1>6, MoveExtra DEF Rest
<1>7. CASE ClawbackPurchase(o) /\ ~UNCHANGED <<ledger, balance>>
  <2>1. /\ Numbered' /\ \A n : Rows("admin", n) # {} => Rows("admin", n)' # {}
        /\ balance' <= balance /\ (balance' = 0 \/ balance' = balance - Prot[o])
        /\ \A p : p # o => (Clawed(p)' <=> Clawed(p))
    BY <1>1, <1>7, ClawbackTakes DEF Extra
  <2>2. \A p : Purchased(p)' <=> Purchased(p)
    BY <1>1, <1>7, ClawbackBook DEF Inv
  <2>3. Purchased(o)
    BY <1>7 DEF ClawbackPurchase
  <2>4. PurchasedFirst' /\ StaffRows' /\ Flagged'
    BY <1>3, <2>1, <2>2, <2>3 DEF Extra, PurchasedFirst, StaffRows, Flagged
  <2>5. Apart(w) /\ \A p \in Orders : HolderPc(p) \notin {"applied", "fulfil"}
                                      => HolderPc(p)' \notin {"applied", "fulfil"}
    BY <1>2, <1>3, <1>5, MoveHolders
  <2>6. Owed \ {o} \subseteq Owed'
    BY <1>3, <2>1, <2>2, <2>5 DEF Owed, Owes
  <2>7. Watched => Watched'
    <3>1. ~Watching(w)
      BY <1>1 DEF Watching
    <3> QED
      BY <1>3, <2>1, <2>5, <3>1, WatchedByOthers DEF Apart
  <2>8. Over' => Over
    BY <1>3 DEF Over
  <2>9. DeadInv'
    <3>1. CASE balance' = 0
      BY <3>1, DeadEmpty
    <3>2. CASE balance' = balance - Prot[o]
      BY <1>1, <2>6, <2>7, <2>8, <3>2, DeadTakes DEF Extra
    <3> QED
      BY <2>1, <3>1, <3>2
  <2> QED
    BY <2>1, <2>4, <2>9 DEF Extra
<1> QED
  BY <1>4, <1>6, <1>7

\* A credit: under a lease it is owed, past one its worker is watching
LEMMA CreditExtra ==
    ASSUME Inv, Inv', Extra, NEW w \in Workers, Credit(w)
    PROVE  Extra'
<1> PICK o : o = worker[w].o
  OBVIOUS
<1>1. worker[w].pc = "credit" /\ o \in Orders /\ worker[w].copy.state = "Paid"
  BY AtWork, CopyFits DEF Credit, At, Fits, Crediting
<1>2. /\ UNCHANGED <<order, holder, deleted, task, staff, lost>>
      /\ Post("purchase", o, Prot[o]) /\ Goto(w, "second")
      /\ late' = IF holder[o] # w /\ ~Purchased(o) THEN late \cup {o} ELSE late
  BY DEF Credit
<1>3. Moved(w, "second") /\ "second" \in Pcs
  BY <1>2, GotoMoves DEF Pcs
<1>4. "purchase" # "forfeit" /\ "purchase" # "clawback"
  OBVIOUS
<1>5. /\ Numbered' /\ \A n : Rows("admin", n) # {} => Rows("admin", n)' # {}
      /\ Purchased(o)'
  BY <1>2, <1>4, PostKeeps DEF Extra, Purchased
<1>6. /\ \A p : Purchased(p) => Purchased(p)'
      /\ \A p : p # o /\ Purchased(p)' => Purchased(p)
  BY <1>2, PostRows
<1>7. \A p : Clawed(p)' <=> Clawed(p)
  <2>1. PICK row : row = [kind |-> "purchase", id |-> o, amount |-> Prot[o]]
    OBVIOUS
  <2>2. (ledger' = ledger \/ ledger' = ledger \cup {row}) /\ row.kind = "purchase"
    BY <1>2, <2>1 DEF Post
  <2> QED
    BY <1>4, <2>2 DEF Clawed, Rows
<1>8. PurchasedFirst' /\ StaffRows' /\ Flagged'
  BY <1>2, <1>5, <1>6, <1>7 DEF Extra, PurchasedFirst, StaffRows, Flagged
<1>9. CASE holder[o] # w
  <2>1. Watching(w)'
    BY <1>1, <1>2, <1>3, <1>9 DEF Watching, Moved
  <2>2. DeadInv'
    BY <2>1 DEF DeadInv, Watched
  <2> QED
    BY <1>5, <1>8, <2>2 DEF Extra
<1>10. CASE holder[o] = w
  <2>1. late' = late
    BY <1>2, <1>10
  <2>2. Apart(w) /\ \A p \in Orders : HolderPc(p) \notin {"applied", "fulfil"}
                                      => HolderPc(p)' \notin {"applied", "fulfil"}
    <3>1. "second" \notin {"applied", "fulfil"}
      OBVIOUS
    <3> QED
      BY <1>2, <1>3, <3>1, MoveHolders
  <2>3. Owed \subseteq Owed'
    BY <1>2, <1>6, <1>7, <2>1, <2>2 DEF Owed, Owes
  <2>4. Watched => Watched'
    <3>1. ~Watching(w)
      BY <1>1 DEF Watching
    <3> QED
      BY <1>2, <1>5, <2>2, <3>1, WatchedByOthers DEF Apart
  <2>5. Over' => Over
    BY <1>2 DEF Over
  <2>6. CASE Purchased(o)
    <3>1. balance' <= balance
      BY <1>2, <2>6 DEF Post, Purchased, Inv, Book
    <3>2. DeadInv'
      BY <2>3, <2>4, <2>5, <3>1, DeadKeeps DEF Extra
    <3> QED
      BY <1>5, <1>8, <3>2 DEF Extra
  <2>7. CASE ~Purchased(o)
    <3>1. balance' = balance + Prot[o]
      BY <1>2, <2>7 DEF Post, Purchased
    <3>2. o \notin Owed
      BY <2>7 DEF Owed, Owes
    <3>3. ~Clawed(o) /\ o \notin late
      BY <1>1, <2>7 DEF Extra, PurchasedFirst
    <3>4. Owes(o)'
      BY <1>5, <1>7, <2>1, <3>3 DEF Owes
    <3>5. order'[o].state = "Paid" /\ HolderPc(o)' = "second"
      <4>1. order[o].state = "Paid"
        BY <1>1, <1>10, WalletNone DEF Inv, Leases, LeaseInv
      <4> QED
        BY <1>2, <1>3, <1>10, <4>1, WalletNone DEF HolderPc, Moved
    <3>6. Owed \cup {o} \subseteq Owed'
      BY <1>1, <2>3, <3>4, <3>5 DEF Owed
    <3>7. DeadInv'
      BY <1>1, <2>4, <2>5, <3>1, <3>2, <3>6, DeadAdds DEF Extra
    <3> QED
      BY <1>5, <1>8, <3>7 DEF Extra
  <2> QED
    BY <2>6, <2>7
<1> QED
  BY <1>9, <1>10
-----------------------------------------------------------------------------
(* Deaths, leases, the deletion and staff                                  *)

\* A worker that dies without its lease, the credit posted, strands it
LEMMA CrashExtra ==
    ASSUME Inv, Inv', Extra, NEW w \in Workers, Crash(w)
    PROVE  Extra'
<1>1. /\ worker[w].pc # "idle" /\ Stop(w) /\ lost \subseteq lost'
      /\ UNCHANGED order /\ UNCHANGED <<ledger, balance, deleted, task, staff, late>>
  BY DEF Crash, At
<1>2. CASE ~Watching(w)
  <2>1. Apart(w) /\ Owed \subseteq Owed'
    BY <1>1, StopOwed
  <2> QED
    BY <1>1, <1>2, <2>1, QuietExtra
<1>3. CASE Watching(w)
  <2>1. worker[w].o \in lost'
    BY <1>3 DEF Crash, Watching
  <2>2. Watched'
    BY <2>1 DEF Watched, Stranded
  <2>3. Numbered' /\ PurchasedFirst' /\ StaffRows' /\ Flagged'
    BY <1>1 DEF Extra, Numbered, Forfeits, PurchasedFirst, StaffRows, Flagged, Purchased, Clawed, Rows
  <2> QED
    BY <2>2, <2>3 DEF Extra, DeadInv
<1> QED
  BY <1>2, <1>3

LEMMA LeaseRunsOutExtra ==
    ASSUME Inv, Inv', Extra, NEW o \in Orders, LeaseRunsOut(o)
    PROVE  Extra'
<1>1. /\ holder' = [holder EXCEPT ![o] = None]
      /\ UNCHANGED <<order, worker, ledger, balance, deleted, task, staff, late, lost>>
  BY DEF LeaseRunsOut
<1>2. \A p \in Orders : holder'[p] = IF p = o THEN None ELSE holder[p]
  BY <1>1 DEF Inv, Shapes
<1>3. Numbered' /\ PurchasedFirst' /\ StaffRows' /\ Flagged'
  BY <1>1 DEF Extra, Numbered, Forfeits, PurchasedFirst, StaffRows, Flagged, Purchased, Clawed, Rows
<1>4. \A p \in Orders : HolderPc(p)' \in {"done", HolderPc(p)}
  BY <1>1, <1>2 DEF HolderPc
<1>5. \A p : Owes(p)' <=> Owes(p)
  BY <1>1, SameDebts
<1>6. Owed \subseteq Owed'
  BY <1>1, <1>4, <1>5 DEF Owed
<1>7. Watched => Watched'
  <2>1. ASSUME NEW v \in Workers, Watching(v) PROVE Watched'
    <3>1. worker'[v] = worker[v] /\ \A p \in Orders : holder'[p] = v => holder[p] = v
      BY <1>1, <1>2, WalletNone
    <3>2. Watching(v)'
      BY <2>1, <3>1, WatchKeeps
    <3> QED
      BY <3>2 DEF Watched
  <2>2. ASSUME NEW n \in Nonces, staff[n] \in {"second", "forfeit"} PROVE Watched'
    BY <1>1, <2>2 DEF Watched
  <2>3. CASE Stranded
    <3>1. \A n : Rows("admin", n)' = Rows("admin", n)
      BY <1>1 DEF Rows
    <3> QED
      BY <1>1, <2>3, <3>1, StrandedKeeps DEF Watched
  <2> QED
    BY <2>1, <2>2, <2>3 DEF Watched
<1>8. balance' <= balance /\ (Over' => Over)
  BY <1>1 DEF Inv, Book, Over
<1>9. DeadInv'
  BY <1>6, <1>7, <1>8, DeadKeeps DEF Extra
<1> QED
  BY <1>3, <1>9 DEF Extra

\* The deletion ends with the wallet seen empty, or forfeited
LEMMA TaskExtra ==
    ASSUME Inv, Inv', Extra, TaskStep \/ TaskFails
    PROVE  Extra'
<1>1. CASE StartTask \/ Unlink \/ DeleteUser \/ TaskFails
  <2>1. /\ UNCHANGED <<ledger, staff, late>> /\ task' \in {"due", "void", "user", "wallet"}
        /\ task' = "wallet" => deleted'
    BY <1>1 DEF StartTask, Unlink, DeleteUser, TaskFails
  <2>2. Numbered' /\ PurchasedFirst' /\ StaffRows'
    BY <2>1 DEF Extra, Numbered, Forfeits, PurchasedFirst, StaffRows, Purchased, Clawed, Rows
  <2>3. Flagged' /\ DeadInv'
    BY <2>1 DEF Flagged, DeadInv, Over
  <2> QED
    BY <2>2, <2>3 DEF Extra
<1>2. CASE ReadWallet
  <2>1. /\ UNCHANGED <<ledger, balance, deleted, staff, late>> /\ task = "wallet"
        /\ task' = "forfeit" \/ (task' = "mark" /\ ~(balance > 0))
    BY <1>2 DEF ReadWallet
  <2>2. Numbered' /\ PurchasedFirst' /\ StaffRows' /\ Flagged'
    BY <2>1 DEF Extra, Numbered, Forfeits, PurchasedFirst, StaffRows, Flagged, Purchased, Clawed, Rows
  <2>3. CASE task' = "forfeit"
    BY <2>2, <2>3 DEF Extra, DeadInv, Over
  <2>4. CASE ~(balance > 0)
    <3>1. balance' = 0
      BY <2>1, <2>4 DEF Inv, Book
    <3> QED
      BY <2>2, <3>1, DeadEmpty DEF Extra
  <2> QED
    BY <2>1, <2>3, <2>4
<1>3. CASE ForfeitWallet
  <2>1. ForfeitPass /\ UNCHANGED <<deleted, staff, late>> /\ task = "forfeit"
    BY <1>3 DEF ForfeitWallet
  <2>2. \A n : Rows("admin", n)' = Rows("admin", n)
    BY <2>1, ForfeitEmpties DEF Extra
  <2>3. StaffRows' /\ Flagged'
    BY <2>1, <2>2 DEF Extra, StaffRows, Flagged
  <2> QED
    BY <2>1, <2>3, ForfeitExtra
<1>4. CASE MarkDeleted
  <2>1. /\ UNCHANGED <<order, holder, worker, ledger, balance, deleted, staff, late, lost>>
        /\ task = "mark" /\ task' = "done"
    BY <1>4 DEF MarkDeleted
  <2>2. Numbered' /\ PurchasedFirst' /\ StaffRows' /\ Flagged'
    BY <2>1 DEF Extra, Numbered, Forfeits, PurchasedFirst, StaffRows, Flagged, Purchased, Clawed, Rows
  <2>3. Owed \subseteq Owed'
    BY <2>1 DEF Owed, Owes, Purchased, Clawed, Rows, HolderPc
  <2>4. Watched => Watched'
    BY <2>1 DEF Watched, Watching, Stranded, Rows
  <2>5. Over /\ balance' <= balance
    BY <2>1 DEF Over, Inv, Book
  <2>6. DeadInv'
    BY <2>3, <2>4, <2>5, DeadKeeps DEF Extra
  <2> QED
    BY <2>2, <2>6 DEF Extra
<1> QED
  BY <1>1, <1>2, <1>3, <1>4 DEF TaskStep

\* A staff adjustment that was not watching leaves who was
LEMMA WatchedByStaff ==
    ASSUME NEW n \in Nonces, staff[n] \notin {"second", "forfeit", "died"},
           \A m \in Nonces : m # n => staff'[m] = staff[m], UNCHANGED <<holder, worker, lost>>,
           \A m : Rows("admin", m) # {} => Rows("admin", m)' # {}, Watched
    PROVE  Watched'
<1>1. ASSUME NEW v \in Workers, Watching(v) PROVE Watched'
  BY <1>1 DEF Watched, Watching
<1>2. ASSUME NEW m \in Nonces, staff[m] \in {"second", "forfeit"} PROVE Watched'
  BY <1>2 DEF Watched
<1>3. CASE Stranded
  BY <1>3 DEF Watched, Stranded
<1> QED
  BY <1>1, <1>2, <1>3 DEF Watched

LEMMA StaffPostExtra ==
    ASSUME Inv, Inv', Extra, NEW n \in Nonces, StaffPost(n)
    PROVE  Extra'
<1>1. /\ staff[n] = "post" /\ UNCHANGED <<order, holder, worker, deleted, task, late, lost>>
      /\ staff' = [staff EXCEPT ![n] = IF Adjust[n] > 0 THEN "second" ELSE "done"]
  BY DEF StaffPost
<1>2. /\ \A m \in Nonces : m # n => staff'[m] = staff[m]
      /\ staff'[n] = IF Adjust[n] > 0 THEN "second" ELSE "done"
  BY <1>1 DEF Inv, Others
<1>3. balance \in Nat /\ Adjust[n] \in Int
  BY WalletAmounts DEF Inv, Book
<1>4. Post("admin", n, Adjust[n]) \/ (UNCHANGED <<ledger, balance>> /\ ~(Adjust[n] > 0))
  BY <1>3 DEF StaffPost
<1>5. /\ Numbered' /\ \A m : Rows("admin", m) # {} => Rows("admin", m)' # {}
      /\ Adjust[n] > 0 => Rows("admin", n)' # {}
  <2>1. "admin" # "forfeit"
    OBVIOUS
  <2>2. CASE Post("admin", n, Adjust[n])
    BY <2>1, <2>2, PostKeeps DEF Extra
  <2>3. CASE UNCHANGED <<ledger, balance>> /\ ~(Adjust[n] > 0)
    BY <2>3 DEF Extra, Numbered, Forfeits, Rows
  <2> QED
    BY <1>4, <2>2, <2>3
<1>6. \A p : (Purchased(p)' <=> Purchased(p)) /\ (Clawed(p)' <=> Clawed(p))
  <2>1. PICK row : row = [kind |-> "admin", id |-> n, amount |-> Adjust[n]]
    OBVIOUS
  <2>2. (ledger' = ledger \/ ledger' = ledger \cup {row}) /\ row.kind = "admin"
    BY <1>4, <2>1 DEF Post
  <2> QED
    BY <2>2 DEF Purchased, Clawed, Rows
<1>7. PurchasedFirst' /\ Flagged'
  BY <1>1, <1>6 DEF Extra, PurchasedFirst, Flagged
<1>8. StaffRows'
  <2> SUFFICES ASSUME NEW m \in Nonces, staff'[m] \in {"second", "forfeit"} PROVE Rows("admin", m)' # {}
    BY DEF StaffRows
  <2>1. CASE m = n
    BY <1>2, <1>5, <2>1
  <2>2. CASE m # n
    BY <1>2, <1>5, <2>2 DEF Extra, StaffRows
  <2> QED
    BY <2>1, <2>2
<1>9. DeadInv'
  <2>1. CASE Adjust[n] > 0
    <3>1. Watched'
      BY <1>2, <2>1 DEF Watched
    <3> QED
      BY <3>1 DEF DeadInv
  <2>2. CASE ~(Adjust[n] > 0)
    <3>1. balance' <= balance
      BY <1>3, <1>4, <2>2 DEF Post
    <3>2. Owed \subseteq Owed'
      BY <1>1, <1>6 DEF Owed, Owes, HolderPc
    <3>3. Watched => Watched'
      BY <1>1, <1>2, <1>5, WatchedByStaff
    <3>4. Over' => Over
      BY <1>1 DEF Over
    <3> QED
      BY <3>1, <3>2, <3>3, <3>4, DeadKeeps DEF Extra
  <2> QED
    BY <2>1, <2>2
<1> QED
  BY <1>5, <1>7, <1>8, <1>9 DEF Extra

LEMMA StaffExtra ==
    ASSUME Inv, Inv', Extra, NEW n \in Nonces, StaffCheck(n) \/ StaffSecond(n) \/ StaffDies(n)
    PROVE  Extra'
<1>1. UNCHANGED <<order, holder, worker, ledger, balance, deleted, task, late, lost>>
  BY DEF StaffCheck, StaffSecond, StaffDies
<1>2. PICK at : /\ staff' = [staff EXCEPT ![n] = at]
                /\ at = "forfeit" => staff[n] = "second"
                /\ at \in {"post", "forfeit", "done", "died"}
  BY DEF StaffCheck, StaffSecond, StaffDies
<1>3. (\A m \in Nonces : m # n => staff'[m] = staff[m]) /\ staff'[n] = at
  BY <1>2 DEF Inv, Others
<1>4. \A m : Rows("admin", m)' = Rows("admin", m)
  BY <1>1 DEF Rows
<1>5. Numbered' /\ PurchasedFirst' /\ Flagged'
  BY <1>1 DEF Extra, Numbered, Forfeits, PurchasedFirst, Flagged, Purchased, Clawed, Rows
<1>6. StaffRows'
  <2> SUFFICES ASSUME NEW m \in Nonces, staff'[m] \in {"second", "forfeit"} PROVE Rows("admin", m) # {}
    BY <1>4 DEF StaffRows
  <2>1. CASE m = n
    BY <1>2, <1>3, <2>1 DEF Extra, StaffRows
  <2>2. CASE m # n
    BY <1>3, <2>2 DEF Extra, StaffRows
  <2> QED
    BY <2>1, <2>2
<1>7. CASE ~Over
  <2>1. DeadInv'
    BY <1>1, <1>7 DEF DeadInv, Over
  <2> QED
    BY <1>5, <1>6, <2>1 DEF Extra
<1>8. CASE Over
  <2>0. deleted
    BY <1>8 DEF Over, Extra, Flagged
  <2>1. CASE StaffSecond(n) /\ ~(balance > 0)
    <3>1. balance' = 0
      BY <1>1, <2>1 DEF Inv, Book
    <3> QED
      BY <1>5, <1>6, <3>1, DeadEmpty DEF Extra
  <2>2. CASE StaffSecond(n) /\ balance > 0
    <3>1. staff'[n] = "forfeit"
      BY <2>0, <2>2 DEF StaffSecond, Inv, Others
    <3>2. Watched'
      BY <3>1 DEF Watched
    <3> QED
      BY <1>5, <1>6, <3>2 DEF Extra, DeadInv
  <2>3. CASE StaffDies(n)
    <3>1. staff'[n] = "died" /\ staff[n] \in {"post", "second", "forfeit"}
      BY <2>3 DEF StaffDies, Inv, Others
    <3>2. CASE staff[n] = "post"
      <4>1. Watched => Watched'
        BY <1>1, <1>3, <1>4, <3>2, WatchedByStaff
      <4>2. Owed \subseteq Owed'
        BY <1>1 DEF Owed, Owes, Purchased, Clawed, Rows, HolderPc
      <4>3. balance' <= balance /\ (Over' => Over)
        BY <1>1 DEF Over, Inv, Book
      <4>4. DeadInv'
        BY <4>1, <4>2, <4>3, DeadKeeps DEF Extra
      <4> QED
        BY <1>5, <1>6, <4>4 DEF Extra
    <3>3. CASE staff[n] \in {"second", "forfeit"}
      <4>1. Rows("admin", n)' # {}
        BY <1>4, <3>3 DEF Extra, StaffRows
      <4>2. Watched'
        BY <3>1, <4>1 DEF Watched, Stranded
      <4> QED
        BY <1>5, <1>6, <4>2 DEF Extra, DeadInv
    <3> QED
      BY <3>1, <3>2, <3>3
  <2>4. ~StaffCheck(n)
    BY <2>0 DEF StaffCheck
  <2> QED
    BY <2>1, <2>2, <2>3, <2>4
<1> QED
  BY <1>7, <1>8

LEMMA StaffForfeitExtra ==
    ASSUME Inv, Inv', Extra, NEW n \in Nonces, StaffForfeit(n)
    PROVE  Extra'
<1>1. /\ ForfeitPass /\ UNCHANGED <<late, task, deleted>>
      /\ staff' = [staff EXCEPT ![n] = "done"]
  BY DEF StaffForfeit
<1>2. \A m : Rows("admin", m)' = Rows("admin", m)
  BY <1>1, ForfeitEmpties DEF Extra
<1>3. (\A m \in Nonces : m # n => staff'[m] = staff[m]) /\ staff'[n] = "done"
  BY <1>1 DEF Inv, Others
<1>4. StaffRows' /\ Flagged'
  BY <1>1, <1>2, <1>3 DEF Extra, StaffRows, Flagged
<1> QED
  BY <1>1, <1>4, ForfeitExtra

LEMMA InitExtra == Init => Extra
<1> SUFFICES ASSUME Init PROVE Extra
  OBVIOUS
<1>1. Numbered /\ PurchasedFirst /\ StaffRows
  BY DEF Init, Numbered, Forfeits, PurchasedFirst, StaffRows, Clawed, Rows
<1>2. Flagged /\ DeadInv
  BY DEF Init, Flagged, DeadInv, Over
<1> QED
  BY <1>1, <1>2 DEF Extra

LEMMA NextExtra == Inv /\ Inv' /\ Extra /\ [Next]_vars => Extra'
<1> SUFFICES ASSUME Inv, Inv', Extra, [Next]_vars PROVE Extra'
  OBVIOUS
<1>1. ASSUME NEW w \in Workers, WorkerStep(w) PROVE Extra'
  BY <1>1, WriteExtra, VoidExtra, RecordExtra, JudgeExtra, ReadAppliedExtra, SecondPassExtra,
     WorkerForfeitExtra, ClawExtra, CreditExtra DEF WorkerStep
<1>2. ASSUME NEW w \in Workers, Crash(w) PROVE Extra'
  BY <1>2, CrashExtra
<1>3. ASSUME NEW w \in Workers, NEW o \in Orders,
             StartFulfil(w, o) \/ StartDeletionVoid(w, o) \/ \E kind \in Kinds : StartReverse(w, o, kind)
      PROVE  Extra'
  BY <1>3, StartExtra
<1>4. ASSUME NEW o \in Orders, LeaseRunsOut(o) PROVE Extra'
  BY <1>4, LeaseRunsOutExtra
<1>5. CASE TaskStep \/ TaskFails
  BY <1>5, TaskExtra
<1>6. ASSUME NEW n \in Nonces, StaffCheck(n) \/ StaffStep(n) \/ StaffDies(n) PROVE Extra'
  BY <1>6, StaffExtra, StaffPostExtra, StaffForfeitExtra DEF StaffStep
<1>7. CASE UNCHANGED vars
  <2>1. UNCHANGED <<order, holder, worker, ledger, balance, deleted, task, staff, late, lost>>
    BY <1>7 DEF vars
  <2>2. Numbered' /\ PurchasedFirst' /\ StaffRows' /\ Flagged'
    BY <2>1 DEF Extra, Numbered, Forfeits, PurchasedFirst, StaffRows, Flagged, Purchased, Clawed, Rows
  <2>3. Owed \subseteq Owed' /\ (Over' => Over) /\ balance' <= balance
    BY <2>1 DEF Owed, Owes, Purchased, Clawed, Rows, HolderPc, Over, Inv, Book
  <2>4. Watched => Watched'
    BY <2>1 DEF Watched, Watching, Stranded, Rows
  <2>5. DeadInv'
    BY <2>3, <2>4, DeadKeeps DEF Extra
  <2> QED
    BY <2>2, <2>5 DEF Extra
<1> QED
  BY <1>1, <1>2, <1>3, <1>4, <1>5, <1>6, <1>7 DEF Next

\* Prot that an account holds once its deletion is over (delete_accounts, forfeit_if_deleted)
\* is on its way out, or was stranded by a process that died after its posting: whatever the
\* orders and adjustments under way, and wherever their workers outlived a lease
THEOREM WalletDeadWallet == Spec => []DeadWallet
<1>1. Spec => []Extra
  BY WalletInvariant, InitExtra, NextExtra, PTL DEF Spec
<1>2. Inv /\ Extra => DeadWallet
  <2> SUFFICES ASSUME Inv, Extra, task = "done", balance > 0, ~Stranded PROVE OnItsWayOut
    BY DEF DeadWallet
  <2>1. balance <= Total(Prot, Owed) \/ Watched
    BY DEF Extra, DeadInv, Over
  <2>2. CASE Watched
    BY <2>2 DEF Watched, Watching, OnItsWayOut
  <2>3. CASE balance <= Total(Prot, Owed)
    <3>1. Owed # {}
      BY <2>3, TotalEmpty DEF Inv, Book
    <3>2. PICK o \in Owed : TRUE
      BY <3>1
    <3> QED
      BY <3>2 DEF Owed, Owes, OnItsWayOut
  <2> QED
    BY <2>1, <2>2, <2>3
<1> QED
  BY <1>1, <1>2, WalletInvariant, PTL
=============================================================================
