------------------------- MODULE PaymentEventsProofs -------------------------
(***************************************************************************)
(* Proofs about PaymentEvents for any number of workers and any attempt    *)
(* cap: its types, and that Stripe is answered 200 only for an event that  *)
(* was handled.                                                            *)
(***************************************************************************)
EXTENDS PaymentEvents, TLAPS

\* Counting an attempt keeps the count within the cap (set_payment_event_state)
LEMMA BumpBounded ==
    ASSUME NEW n \in 0 .. MaxAttempts
    PROVE  Bump(n) \in 0 .. MaxAttempts
  BY EventAssumption DEF Bump

\* Every call of handle_event and of the re-drive keeps the types.
LEMMA TypeStep == TypeOK /\ [Next]_vars => TypeOK'
<1> SUFFICES ASSUME TypeOK, [Next]_vars PROVE TypeOK'
  OBVIOUS
<1> USE EventAssumption DEF TypeOK, Row, Task, Calls, EventState, SettledStates,
        Idle
<1>1. CASE UNCHANGED vars
  BY <1>1 DEF vars
<1>2. ASSUME NEW w \in Workers, Deliver(w) PROVE TypeOK'
  BY <1>2 DEF Deliver
<1>3. ASSUME NEW w \in Workers, Redrive(w) PROVE TypeOK'
  BY <1>3 DEF Redrive
<1>4. ASSUME NEW w \in Workers, GetEvent(w) PROVE TypeOK'
  BY <1>4 DEF GetEvent, Goto
<1>5. ASSUME NEW w \in Workers, MarkUnfetched(w) PROVE TypeOK'
  <2>1. Bump(row.attempts) \in 0 .. MaxAttempts
    BY BumpBounded
  <2> QED
    BY <1>5, <2>1 DEF MarkUnfetched, SetState, Ends
<1>6. ASSUME NEW w \in Workers, InsertEvent(w) PROVE TypeOK'
  BY <1>6 DEF InsertEvent, Goto
<1>7. ASSUME NEW w \in Workers, Check(w) PROVE TypeOK'
  <2>1. row' \in Row /\ task' \in [Workers -> Task]
    BY <1>7 DEF Check, Answer, Ends, Goto
  <2>2. handled' \in BOOLEAN /\ acked' \in BOOLEAN
    BY <1>7 DEF Check, Answer, Ends, Goto
  <2> QED
    BY <2>1, <2>2
<1>8. ASSUME NEW w \in Workers, Process(w) PROVE TypeOK'
  <2>1. row' \in Row /\ task' \in [Workers -> Task]
    BY <1>8 DEF Process, Goto
  <2>2. handled' \in BOOLEAN /\ acked' \in BOOLEAN
    BY <1>8 DEF Process, Goto
  <2> QED
    BY <2>1, <2>2
<1>9. ASSUME NEW w \in Workers, Recheck(w) PROVE TypeOK'
  <2>1. row' \in Row /\ task' \in [Workers -> Task]
    BY <1>9 DEF Recheck, Answer, Ends, Goto
  <2>2. handled' \in BOOLEAN /\ acked' \in BOOLEAN
    BY <1>9 DEF Recheck, Answer, Ends, Goto
  <2> QED
    BY <2>1, <2>2
<1>10. ASSUME NEW w \in Workers, Store(w) PROVE TypeOK'
  <2>1. Bump(row.attempts) \in 0 .. MaxAttempts
    BY BumpBounded
  <2> QED
    BY <1>10, <2>1 DEF Store, SetState, Answer, Ends
<1>11. ASSUME NEW w \in Workers, Mismatch(w) PROVE TypeOK'
  <2>1. row' \in Row /\ task' \in [Workers -> Task]
    BY <1>11 DEF Mismatch, Answer, Ends, Goto
  <2>2. handled' \in BOOLEAN /\ acked' \in BOOLEAN
    BY <1>11 DEF Mismatch, Answer, Ends, Goto
  <2> QED
    BY <2>1, <2>2
<1>12. ASSUME NEW w \in Workers, MismatchCheck(w) PROVE TypeOK'
  <2>1. row' \in Row /\ task' \in [Workers -> Task]
    BY <1>12 DEF MismatchCheck, Answer, Ends, Goto
  <2>2. handled' \in BOOLEAN /\ acked' \in BOOLEAN
    BY <1>12 DEF MismatchCheck, Answer, Ends, Goto
  <2> QED
    BY <2>1, <2>2
<1>13. ASSUME NEW w \in Workers, Break(w) PROVE TypeOK'
  BY <1>13 DEF Break, Ends
<1> QED
  BY <1>1, <1>2, <1>3, <1>4, <1>5, <1>6, <1>7, <1>8, <1>9, <1>10, <1>11,
     <1>12, <1>13 DEF Next, Handle

\* The row of payment_events and its handlers keep their types.
THEOREM TypeCorrect == Spec => []TypeOK
<1>1. Init => TypeOK
  <2> SUFFICES ASSUME Init PROVE TypeOK
    OBVIOUS
  <2>1. row \in Row
    BY EventAssumption DEF Init, Row, EventState
  <2>2. task \in [Workers -> Task]
    BY DEF Init, Task, Calls, Idle
  <2>3. handled \in BOOLEAN /\ acked \in BOOLEAN
    BY DEF Init
  <2> QED
    BY <2>1, <2>2, <2>3 DEF TypeOK
<1> QED
  BY <1>1, TypeStep, PTL DEF Spec

-----------------------------------------------------------------------------
(***************************************************************************)
(* AckedHandled is not inductive: a duplicate is answered on the strength  *)
(* of the row alone, and a row is settled on the strength of what a worker *)
(* decided before. Both must already mean "handled".                       *)
(***************************************************************************)
Deciding(w) == task[w].at \in SettledStates \cup {"mismatch"}

HandledInv ==
    /\ AckedHandled
    /\ IsSettled => handled
    /\ \A w \in Workers : Deciding(w) => handled

\* handled is only ever set, so a step matters where it settles or answers
LEMMA HandledStep ==
    TypeOK /\ HandledInv /\ [Next]_vars => HandledInv'
<1> SUFFICES ASSUME TypeOK, HandledInv, [Next]_vars PROVE HandledInv'
  OBVIOUS
<1> USE DEF TypeOK, HandledInv, AckedHandled, IsSettled, SettledStates,
        Deciding, At, Idle
<1>1. CASE UNCHANGED vars
  BY <1>1 DEF vars
<1>2. ASSUME NEW w \in Workers, Deliver(w) PROVE HandledInv'
  BY <1>2 DEF Deliver
<1>3. ASSUME NEW w \in Workers, Redrive(w) PROVE HandledInv'
  BY <1>3 DEF Redrive
<1>4. ASSUME NEW w \in Workers, GetEvent(w) PROVE HandledInv'
  BY <1>4 DEF GetEvent, Goto
<1>5. ASSUME NEW w \in Workers, MarkUnfetched(w) PROVE HandledInv'
  BY <1>5 DEF MarkUnfetched, SetState, Ends
<1>6. ASSUME NEW w \in Workers, InsertEvent(w) PROVE HandledInv'
  BY <1>6 DEF InsertEvent, Goto
<1>7. ASSUME NEW w \in Workers, Check(w) PROVE HandledInv'
  BY <1>7 DEF Check, Answer, Ends, Goto
<1>8. ASSUME NEW w \in Workers, Process(w) PROVE HandledInv'
  BY <1>8 DEF Process, Goto
<1>9. ASSUME NEW w \in Workers, Recheck(w) PROVE HandledInv'
  BY <1>9 DEF Recheck, Answer, Ends, Goto
<1>10. ASSUME NEW w \in Workers, Store(w) PROVE HandledInv'
  BY <1>10 DEF Store, SetState, Answer, Ends
<1>11. ASSUME NEW w \in Workers, Mismatch(w) PROVE HandledInv'
  BY <1>11 DEF Mismatch, Answer, Ends, Goto
<1>12. ASSUME NEW w \in Workers, MismatchCheck(w) PROVE HandledInv'
  BY <1>12 DEF MismatchCheck, Answer, Ends, Goto
<1>13. ASSUME NEW w \in Workers, Break(w) PROVE HandledInv'
  BY <1>13 DEF Break, Ends
<1> QED
  BY <1>1, <1>2, <1>3, <1>4, <1>5, <1>6, <1>7, <1>8, <1>9, <1>10, <1>11,
     <1>12, <1>13 DEF Next, Handle

\* The webhook answers 200 only for an event that was handled, whichever of
\* its deliveries and re-drives run at once, fail or die.
THEOREM AckedMeansHandled == Spec => []AckedHandled
<1>1. Init => HandledInv
  BY DEF Init, HandledInv, AckedHandled, IsSettled, SettledStates, Deciding, Idle
<1>2. HandledInv => AckedHandled
  BY DEF HandledInv
<1> QED
  BY <1>1, <1>2, TypeCorrect, HandledStep, PTL DEF Spec

=============================================================================
