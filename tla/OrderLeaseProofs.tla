-------------------------- MODULE OrderLeaseProofs --------------------------
(***************************************************************************)
(* Proofs about OrderLease for any set of workers, any lease length and    *)
(* any bounds: the type invariant, that no update is lost, that at most    *)
(* one worker can write, that the stored order implements OrderLifecycle   *)
(* and keeps what it promises, and that leases taken with a fresh clock    *)
(* last and are not cleared by an older holder.                            *)
(***************************************************************************)
EXTENDS OrderLease, TLAPS

-----------------------------------------------------------------------------
(***************************************************************************)
(* Every change the engine writes turns an order into an order.            *)
(***************************************************************************)
LEMMA ChangeType ==
    ASSUME NEW o \in Order, NEW n, Change(o, n)
    PROVE  n \in Order
BY DEF Order, OrderState, Reversal, Change, StartSession, Expire, MarkPaid,
       Fulfil, Void, VoidUnpaid, PayVoided, RecordReversal, RecordDispute,
       MarkRefunded, DropReversal, Touch

\* So does the unlink of account deletion.
LEMMA UnlinkType ==
    ASSUME NEW o \in Order, NEW n, Unlink(o, n)
    PROVE  n \in Order
BY DEF Order, Unlink

\* An idle worker is a worker.
LEMMA IdleType == MaxClock \in Nat => Idle \in Worker
BY DEF Idle, NoCopy, NoLease, NewOrder, Worker, Time, Row, Order, OrderState, Reversal

(***************************************************************************)
(* TypeOK is inductive.                                                    *)
(***************************************************************************)
LEMMA TypeStep == TypeOK /\ [Next]_vars => TypeOK'
<1> SUFFICES ASSUME TypeOK, [Next]_vars PROVE TypeOK'
  OBVIOUS
<1> USE LeaseAssumption DEF TypeOK, Time
<1>1. CASE Tick
  BY <1>1 DEF Tick, row
<1>2. CASE UnlinkBuyer
  BY <1>2, UnlinkType DEF UnlinkBuyer
<1>3. ASSUME NEW w \in Workers, Begin(w) PROVE TypeOK'
  BY <1>3 DEF Begin, Worker, row
<1>4. ASSUME NEW w \in Workers, Acquire(w) PROVE TypeOK'
  <2>1. version' \in Nat /\ lease' \in Int /\ order' = order /\ clock' = clock
    BY <1>4 DEF Acquire, Worker
  <2>2. [order |-> order, version |-> version', lease |-> lease'] \in Row
    BY <2>1 DEF Row
  <2> QED
    BY <1>4, <2>1, <2>2 DEF Acquire, Worker
<1>5. ASSUME NEW w \in Workers, Leave(w) PROVE TypeOK'
  BY <1>5, IdleType DEF Leave, row
<1>6. ASSUME NEW w \in Workers, WriteAccepted(w) PROVE TypeOK'
  <2>1. worker[w].copy \in Row
    BY DEF Worker
  <2>2. order' \in Order
    BY <1>6, <2>1, ChangeType DEF WriteAccepted, Row
  <2>3. version' \in Nat /\ lease' \in Int
    BY <1>6, <2>1 DEF WriteAccepted, Row
  <2> QED
    BY <1>6, <2>1, <2>2, <2>3 DEF WriteAccepted, Worker, Row
<1>7. ASSUME NEW w \in Workers, WriteRefused(w) PROVE TypeOK'
  BY <1>7 DEF WriteRefused, Worker, row
<1>8. ASSUME NEW w \in Workers, Release(w) PROVE TypeOK'
  <2>1. NoCopy \in Row
    BY DEF NoCopy, NoLease, NewOrder, Row, Order, OrderState, Reversal
  <2>2. lease' \in Int
    BY <1>8 DEF Release, NoLease
  <2>3. worker' \in [Workers -> Worker]
    BY <1>8, <2>1 DEF Release, Worker
  <2> QED
    BY <1>8, <2>2, <2>3 DEF Release
<1>9. ASSUME NEW w \in Workers, Crash(w) PROVE TypeOK'
  BY <1>9, IdleType DEF Crash, row
<1>10. CASE UNCHANGED vars
  BY <1>10 DEF vars
<1> QED
  BY <1>1, <1>2, <1>3, <1>4, <1>5, <1>6, <1>7, <1>8, <1>9, <1>10 DEF Next

(***************************************************************************)
(* The stored row, the clock and every worker keep their types.            *)
(***************************************************************************)
THEOREM TypeCorrect == Spec => []TypeOK
<1>1. Init => TypeOK
  BY LeaseAssumption, IdleType
     DEF Init, TypeOK, Time, NewOrder, NoLease, Order, OrderState, Reversal
<1> QED
  BY <1>1, TypeStep, PTL DEF Spec

-----------------------------------------------------------------------------
(***************************************************************************)
(* The inductive invariant. A copy is never newer than the row; a copy of  *)
(* the row's version has the row's contents; no two copies have the same   *)
(* version. The lease is left out on purpose: a release clears it without  *)
(* moving the version.                                                     *)
(***************************************************************************)
CopyInv ==
    \A w \in Workers : Active(w) =>
        /\ worker[w].copy.version <= version
        /\ worker[w].copy.version = version => worker[w].copy.order = order

DistinctInv ==
    \A w, v \in Workers : w # v /\ Active(w) /\ Active(v) =>
        worker[w].copy.version # worker[v].copy.version

FenceInv == TypeOK /\ CopyInv /\ DistinctInv

\* FenceInv is inductive.
LEMMA FenceStep == FenceInv /\ [Next]_vars => FenceInv'
<1> SUFFICES ASSUME FenceInv, [Next]_vars PROVE CopyInv' /\ DistinctInv'
  BY TypeStep DEF FenceInv
<1> USE DEF FenceInv
<1>0. /\ version \in Nat
      /\ worker \in [Workers -> Worker]
      /\ \A w \in Workers : worker[w].copy.version \in Nat
  BY DEF TypeOK, Worker, Row
<1>1. CASE Tick \/ UNCHANGED vars
  BY <1>1 DEF Tick, row, vars, CopyInv, DistinctInv, Active
<1>2. CASE UnlinkBuyer
  BY <1>2, <1>0 DEF UnlinkBuyer, CopyInv, DistinctInv, Active
<1>3. ASSUME NEW w \in Workers, Begin(w) PROVE CopyInv' /\ DistinctInv'
  BY <1>0, <1>3 DEF Begin, row, CopyInv, DistinctInv, Active, Worker
<1>4. ASSUME NEW w \in Workers, Acquire(w) PROVE CopyInv' /\ DistinctInv'
  <2>1. /\ version' = version + 1 /\ order' = order
        /\ worker'[w].copy.version = version'
        /\ worker'[w].copy.order = order'
        /\ \A v \in Workers \ {w} : worker'[v] = worker[v]
    BY <1>0, <1>4 DEF Acquire, Worker
  <2>2. CopyInv'
    BY <1>0, <2>1 DEF CopyInv, Active
  <2>3. DistinctInv'
    BY <1>0, <2>1 DEF CopyInv, DistinctInv, Active
  <2> QED
    BY <2>2, <2>3
<1>5. ASSUME NEW w \in Workers, Leave(w) PROVE CopyInv' /\ DistinctInv'
  BY <1>0, <1>5 DEF Leave, row, Idle, CopyInv, DistinctInv, Active, Worker
<1>6. ASSUME NEW w \in Workers, WriteAccepted(w) PROVE CopyInv' /\ DistinctInv'
  <2>1. /\ version' = version + 1
        /\ worker'[w].copy.version = version'
        /\ worker'[w].copy.order = order'
        /\ \A v \in Workers \ {w} : worker'[v] = worker[v]
    BY <1>0, <1>6 DEF WriteAccepted, Fenced, Worker, Row
  <2>2. CopyInv'
    BY <1>0, <2>1 DEF CopyInv, Active
  <2>3. DistinctInv'
    BY <1>0, <2>1 DEF CopyInv, DistinctInv, Active
  <2> QED
    BY <2>2, <2>3
<1>7. ASSUME NEW w \in Workers, WriteRefused(w) PROVE CopyInv' /\ DistinctInv'
  BY <1>0, <1>7 DEF WriteRefused, row, CopyInv, DistinctInv, Active, Worker
<1>8. ASSUME NEW w \in Workers, Release(w) PROVE CopyInv' /\ DistinctInv'
  BY <1>0, <1>8 DEF Release, CopyInv, DistinctInv, Active, Worker
<1>9. ASSUME NEW w \in Workers, Crash(w) PROVE CopyInv' /\ DistinctInv'
  BY <1>0, <1>9 DEF Crash, row, Idle, CopyInv, DistinctInv, Active, Worker
<1> QED
  BY <1>1, <1>2, <1>3, <1>4, <1>5, <1>6, <1>7, <1>8, <1>9 DEF Next

\* FenceInv holds in every reachable state.
LEMMA FenceCorrect == Spec => []FenceInv
<1>1. Init => FenceInv
  <2>1. Init => TypeOK
    BY LeaseAssumption, IdleType
       DEF Init, TypeOK, Time, NewOrder, NoLease, Order, OrderState, Reversal
  <2> QED
    BY <2>1 DEF Init, FenceInv, CopyInv, DistinctInv, Active, Idle
<1> QED
  BY <1>1, FenceStep, PTL DEF Spec

\* FenceInv is strong enough: an accepted copy is the stored row.
LEMMA FencedIsCurrent == FenceInv => NoLostUpdate
<1> SUFFICES ASSUME FenceInv, NEW w \in Workers,
                    worker[w].pc = "held", Fenced(w)
             PROVE  worker[w].copy
                      = [order |-> order, version |-> version, lease |-> lease]
  BY DEF NoLostUpdate
<1>1. worker[w].copy \in Row
  BY DEF FenceInv, TypeOK, Worker
<1>2. /\ worker[w].copy.version = version
      /\ worker[w].copy.lease = lease
      /\ worker[w].copy.order = order
  BY DEF FenceInv, CopyInv, Fenced, Active
<1> QED
  BY <1>1, <1>2 DEF Row

(***************************************************************************)
(* update_payment_order_if_state never loses an update: what it accepts    *)
(* was computed from the row exactly as stored.                            *)
(***************************************************************************)
THEOREM NoUpdateLost == Spec => []NoLostUpdate
BY FenceCorrect, FencedIsCurrent, PTL

(***************************************************************************)
(* At most one worker can still write the order, however many stalled or   *)
(* taken-over holders there are.                                           *)
(***************************************************************************)
OneWriter ==
    \A w, v \in Workers :
        /\ Active(w) /\ Fenced(w)
        /\ Active(v) /\ Fenced(v)
        => w = v

\* The update filter of payment_orders lets at most one of the holders write
THEOREM OnlyOneWriter == Spec => []OneWriter
<1>1. FenceInv => OneWriter
  BY DEF FenceInv, DistinctInv, OneWriter, Fenced
<1> QED
  BY <1>1, FenceCorrect, PTL

-----------------------------------------------------------------------------
\* The instance's copies of the definitions of PaymentOrder are the same
LEMMA SameChange ==
    ASSUME NEW o, NEW n
    PROVE  /\ Lifecycle!NewOrder = NewOrder
           /\ Change(o, n) => Lifecycle!Change(o, n)
           /\ Unlink(o, n) => Lifecycle!Unlink(o, n)
<1>1. Lifecycle!NewOrder = NewOrder
  BY DEF NewOrder, Lifecycle!NewOrder
<1>2. Unlink(o, n) => Lifecycle!Unlink(o, n)
  BY DEF Unlink, Lifecycle!Unlink
<1>3. Change(o, n) => Lifecycle!Change(o, n)
  <2> USE DEF Lifecycle!Change
  <2>1. StartSession(o, n) => Lifecycle!Change(o, n)
    BY DEF StartSession, Lifecycle!StartSession
  <2>2. Expire(o, n) => Lifecycle!Change(o, n)
    BY DEF Expire, Lifecycle!Expire, Unpaid, Lifecycle!Unpaid
  <2>3. MarkPaid(o, n) => Lifecycle!Change(o, n)
    BY DEF MarkPaid, Lifecycle!MarkPaid, Unpaid, Lifecycle!Unpaid
  <2>4. Fulfil(o, n) => Lifecycle!Change(o, n)
    BY DEF Fulfil, Lifecycle!Fulfil
  <2>5. Void(o, n) => Lifecycle!Change(o, n)
    BY DEF Void, Lifecycle!Void
  <2>6. VoidUnpaid(o, n) => Lifecycle!Change(o, n)
    BY DEF VoidUnpaid, Lifecycle!VoidUnpaid, Unpaid, Lifecycle!Unpaid
  <2>7. PayVoided(o, n) => Lifecycle!Change(o, n)
    BY DEF PayVoided, Lifecycle!PayVoided, IsDisputed, Lifecycle!IsDisputed
  <2>8. RecordReversal(o, n) => Lifecycle!Change(o, n)
    BY DEF RecordReversal, Lifecycle!RecordReversal, BeforeFulfilment,
           Lifecycle!BeforeFulfilment, Unpaid, Lifecycle!Unpaid
  <2>9. RecordDispute(o, n) => Lifecycle!Change(o, n)
    BY DEF RecordDispute, Lifecycle!RecordDispute
  <2>10. MarkRefunded(o, n) => Lifecycle!Change(o, n)
    BY DEF MarkRefunded, Lifecycle!MarkRefunded
  <2>11. DropReversal(o, n) => Lifecycle!Change(o, n)
    BY DEF DropReversal, Lifecycle!DropReversal
  <2>12. Touch(o, n) => Lifecycle!Change(o, n)
    BY DEF Touch, Lifecycle!Touch
  <2> QED
    BY <2>1, <2>2, <2>3, <2>4, <2>5, <2>6, <2>7, <2>8, <2>9, <2>10, <2>11,
       <2>12 DEF Change
<1> QED
  BY <1>1, <1>2, <1>3

(***************************************************************************)
(* Each step of the row leaves the stored order alone or changes it as if  *)
(* it were judged on the stored order itself.                              *)
(***************************************************************************)
LEMMA StoredStep ==
    FenceInv /\ [Next]_vars =>
        \/ order' = order
        \/ Change(order, order')
        \/ Unlink(order, order')
<1> SUFFICES ASSUME FenceInv, Next
             PROVE  order' = order \/ Change(order, order') \/ Unlink(order, order')
  BY DEF vars
<1>1. CASE UnlinkBuyer
  BY <1>1 DEF UnlinkBuyer
<1>2. ASSUME NEW w \in Workers, WriteAccepted(w) PROVE Change(order, order')
  <2>1. worker[w].copy.order = order
    BY <1>2, FencedIsCurrent DEF NoLostUpdate, WriteAccepted
  <2> QED
    BY <1>2, <2>1 DEF WriteAccepted
<1>3. CASE Tick
  BY <1>3 DEF Tick, row
<1>4. ASSUME NEW w \in Workers,
             Begin(w) \/ Acquire(w) \/ Leave(w) \/ WriteRefused(w)
               \/ Release(w) \/ Crash(w)
      PROVE  order' = order
  BY <1>4 DEF Begin, Acquire, Leave, WriteRefused, Release, Crash, row
<1> QED
  BY <1>1, <1>2, <1>3, <1>4 DEF Next

(***************************************************************************)
(* The leased, fenced row implements the atomic order of OrderLifecycle.   *)
(***************************************************************************)
THEOREM Refinement == Spec => ImplementsLifecycle
<1>1. Init => Lifecycle!Init
  BY SameChange DEF Init, Lifecycle!Init
<1>2. FenceInv /\ [Next]_vars => [Lifecycle!Next]_order
  BY StoredStep, SameChange DEF Lifecycle!Next
<1> QED
  BY <1>1, <1>2, FenceCorrect, PTL DEF Spec, ImplementsLifecycle, Lifecycle!Spec

(***************************************************************************)
(* The payment intent of a Paid, Fulfilled or Refunded order is stored.    *)
(***************************************************************************)
THEOREM MoneyStaysRecorded == Spec => []StoredMoneyRecorded
<1>1. Init => StoredMoneyRecorded
  BY DEF Init, NewOrder, StoredMoneyRecorded, Lifecycle!MoneyRecorded
<1>2. FenceInv /\ StoredMoneyRecorded /\ [Next]_vars => StoredMoneyRecorded'
  <2> SUFFICES ASSUME FenceInv, StoredMoneyRecorded, [Next]_vars
               PROVE  StoredMoneyRecorded'
    OBVIOUS
  <2> USE DEF StoredMoneyRecorded, Lifecycle!MoneyRecorded
  <2>1. order \in Order
    BY DEF FenceInv, TypeOK
  <2>2. CASE order' = order
    BY <2>2
  <2>3. CASE Unlink(order, order')
    BY <2>1, <2>3 DEF Unlink, Order
  <2>4. CASE Change(order, order')
    BY <2>1, <2>4
       DEF Order, Change, StartSession, Expire, MarkPaid, Fulfil, Void,
           VoidUnpaid, PayVoided, RecordReversal, RecordDispute, MarkRefunded,
           DropReversal, Touch
  <2> QED
    BY <2>2, <2>3, <2>4, StoredStep
<1> QED
  BY <1>1, <1>2, FenceCorrect, PTL DEF Spec

(***************************************************************************)
(* A settled order stays settled: no change of PaymentOrder leaves         *)
(* Refunded, or Voided once the payment intent is known.                   *)
(***************************************************************************)
THEOREM SettledOrdersStay == Spec => StoredSettledForever
<1>1. FenceInv /\ [Next]_vars =>
        [Lifecycle!Settled(order) => /\ order'.state = order.state
                                     /\ order'.intent = order.intent]_order
  <2> SUFFICES ASSUME FenceInv, [Next]_vars, Lifecycle!Settled(order),
                      order' # order
               PROVE  order'.state = order.state /\ order'.intent = order.intent
    OBVIOUS
  <2>1. order \in Order
    BY DEF FenceInv, TypeOK
  <2>2. CASE Unlink(order, order')
    BY <2>1, <2>2 DEF Unlink, Order
  <2>3. CASE Change(order, order')
    BY <2>1, <2>3
       DEF Lifecycle!Settled, Order, Change, StartSession, Expire, MarkPaid,
           Fulfil, Void, VoidUnpaid, PayVoided, RecordReversal, RecordDispute,
           MarkRefunded, DropReversal, Touch, Unpaid, BeforeFulfilment
  <2> QED
    BY <2>2, <2>3, StoredStep
<1> QED
  BY <1>1, FenceCorrect, PTL
     DEF Spec, StoredSettledForever, Lifecycle!SettledForever

(***************************************************************************)
(* A recorded lost dispute is neither forgotten nor replaced.              *)
(***************************************************************************)
THEOREM LostDisputesStay == Spec => StoredLostDisputeKept
<1> DEFINE Kept == order.pending = "DisputeLost" /\ order'.pending # "DisputeLost" =>
              \/ order'.state \in {"Voided", "Refunded"}
              \/ order.state = "Fulfilled" /\ order'.pending = "None"
<1>1. FenceInv /\ [Next]_vars => [Kept]_order
  <2> SUFFICES ASSUME FenceInv, [Next]_vars, order' # order PROVE Kept
    OBVIOUS
  <2>1. order \in Order
    BY DEF FenceInv, TypeOK
  <2>2. CASE Unlink(order, order')
    BY <2>1, <2>2 DEF Unlink, Order
  <2>3. CASE Change(order, order')
    BY <2>1, <2>3
       DEF Order, Change, StartSession, Expire, MarkPaid, Fulfil, Void,
           VoidUnpaid, PayVoided, RecordReversal, RecordDispute, MarkRefunded,
           DropReversal, Touch
  <2> QED
    BY <2>2, <2>3, StoredStep
<1> QED
  BY <1>1, FenceCorrect, PTL
     DEF Spec, StoredLostDisputeKept, Lifecycle!LostDisputeKept

-----------------------------------------------------------------------------
(***************************************************************************)
(* With a fresh clock at every acquire: a worker's token is its own        *)
(* instant plus LEASE_MS; it stays stored until it has run out or the      *)
(* worker lets go; and the instants of two active workers are more than    *)
(* LEASE_MS apart, so their tokens differ.                                 *)
(***************************************************************************)
TokenInv ==
    \A w \in Workers : Active(w) =>
        /\ worker[w].at <= clock
        /\ worker[w].copy.lease = worker[w].at + LeaseMs
        /\ lease = worker[w].copy.lease \/ clock > worker[w].copy.lease

TimeInv == TypeOK /\ TokenInv /\ LeaseLasts

\* TimeInv is inductive when every lease is taken with a fresh clock.
LEMMA TimeStep == FreshClock /\ TimeInv /\ [Next]_vars => TimeInv'
<1> SUFFICES ASSUME FreshClock, TimeInv, [Next]_vars
             PROVE  TokenInv' /\ LeaseLasts'
  BY TypeStep DEF TimeInv
<1> USE LeaseAssumption DEF TimeInv
<1>0. /\ clock \in Nat /\ lease \in Int
      /\ worker \in [Workers -> Worker]
      /\ \A w \in Workers : worker[w].at \in Nat /\ worker[w].copy.lease \in Int
  BY DEF TypeOK, Worker, Row, Time
<1>1. CASE UnlinkBuyer \/ UNCHANGED vars
  BY <1>1 DEF UnlinkBuyer, vars, TokenInv, LeaseLasts, Active
<1>2. CASE Tick
  BY <1>2, <1>0 DEF Tick, row, TokenInv, LeaseLasts, Active
<1>3. ASSUME NEW w \in Workers, Begin(w) \/ Leave(w) \/ WriteRefused(w) \/ Crash(w)
      PROVE  TokenInv' /\ LeaseLasts'
  <2>1. /\ lease' = lease /\ clock' = clock
        /\ \A v \in Workers : Active(v)' =>
             /\ Active(v)
             /\ worker'[v].at = worker[v].at
             /\ worker'[v].copy = worker[v].copy
    BY <1>0, <1>3 DEF Begin, Leave, WriteRefused, Crash, row, Idle, Active, Worker
  <2> QED
    BY <2>1 DEF TokenInv, LeaseLasts
<1>4. ASSUME NEW w \in Workers, Acquire(w) PROVE TokenInv' /\ LeaseLasts'
  <2>1. /\ clock' = clock /\ lease' = clock + LeaseMs
        /\ lease = NoLease \/ lease < clock
        /\ worker'[w].at = clock
        /\ worker'[w].copy.lease = clock + LeaseMs
        /\ ~Active(w)
        /\ \A v \in Workers \ {w} : worker'[v] = worker[v]
    BY <1>0, <1>4 DEF Acquire, LeaseFree, Active, Worker
  <2>2. \A v \in Workers : Active(v) => clock > worker[v].copy.lease
    BY <1>0, <2>1 DEF TokenInv, NoLease
  <2> QED
    BY <1>0, <2>1, <2>2 DEF TokenInv, LeaseLasts, Active
<1>5. ASSUME NEW w \in Workers, WriteAccepted(w) PROVE TokenInv' /\ LeaseLasts'
  <2>1. /\ lease' = lease /\ clock' = clock
        /\ \A v \in Workers : /\ worker'[v].pc = worker[v].pc
                              /\ worker'[v].at = worker[v].at
                              /\ worker'[v].copy.lease = worker[v].copy.lease
    BY <1>0, <1>5 DEF WriteAccepted, Fenced, Worker, Row
  <2> QED
    BY <2>1 DEF TokenInv, LeaseLasts, Active
<1>6. ASSUME NEW w \in Workers, Release(w) PROVE TokenInv' /\ LeaseLasts'
  <2>1. /\ clock' = clock
        /\ lease' = IF lease = worker[w].copy.lease THEN NoLease ELSE lease
        /\ Active(w) /\ ~Active(w)'
        /\ \A v \in Workers \ {w} : worker'[v] = worker[v]
    BY <1>0, <1>6 DEF Release, Active, Worker
  <2>2. \A v \in Workers \ {w} : Active(v) =>
          worker[v].copy.lease # worker[w].copy.lease
    BY <1>0, <2>1 DEF TokenInv, LeaseLasts
  <2> QED
    BY <1>0, <2>1, <2>2 DEF TokenInv, LeaseLasts, Active
<1> QED
  BY <1>1, <1>2, <1>3, <1>4, <1>5, <1>6 DEF Next

(***************************************************************************)
(* When every lease is taken with the current time, a worker is never      *)
(* joined by another one within LEASE_MS of taking its lease.              *)
(***************************************************************************)
THEOREM FreshLeasesLast == FreshClock => (Spec => []LeaseLasts)
<1>1. Init => TimeInv
  <2>1. Init => TypeOK
    BY LeaseAssumption, IdleType
       DEF Init, TypeOK, Time, NewOrder, NoLease, Order, OrderState, Reversal
  <2> QED
    BY <2>1 DEF Init, TimeInv, TokenInv, LeaseLasts, Active, Idle
<1>2. TimeInv => LeaseLasts
  BY DEF TimeInv
<1>3. CASE FreshClock
  <2>1. TimeInv /\ [Next]_vars => TimeInv'
    BY <1>3, TimeStep
  <2> QED
    BY <1>1, <1>2, <2>1, PTL DEF Spec
<1> QED
  BY <1>3

-----------------------------------------------------------------------------
(***************************************************************************)
(* The worker that took its lease last has the highest version and the     *)
(* highest token: the stored lease is no older worker's.                   *)
(***************************************************************************)
LatestInv ==
    /\ \A w \in Workers : Active(w) =>
         /\ worker[w].copy.version <= version
         /\ lease = NoLease \/ worker[w].copy.lease <= lease
    /\ \A w, v \in Workers :
         Active(w) /\ Active(v) /\ worker[w].at < worker[v].at =>
             worker[w].copy.version < worker[v].copy.version

\* LatestInv is inductive, given TimeInv.
LEMMA LatestStep ==
    FreshClock /\ TimeInv /\ LatestInv /\ [Next]_vars => LatestInv'
<1> SUFFICES ASSUME FreshClock, TimeInv, LatestInv, [Next]_vars
             PROVE  LatestInv'
  OBVIOUS
<1> USE LeaseAssumption DEF TimeInv
<1>0. /\ clock \in Nat /\ lease \in Int /\ version \in Nat
      /\ worker \in [Workers -> Worker]
      /\ \A w \in Workers : /\ worker[w].at \in Nat
                            /\ worker[w].copy.lease \in Int
                            /\ worker[w].copy.version \in Nat
  BY DEF TypeOK, Worker, Row, Time
<1>1. CASE Tick \/ UNCHANGED vars
  BY <1>1 DEF Tick, row, vars, LatestInv, Active
<1>2. CASE UnlinkBuyer
  BY <1>0, <1>2 DEF UnlinkBuyer, LatestInv, Active
<1>3. ASSUME NEW w \in Workers, Begin(w) \/ Leave(w) \/ WriteRefused(w) \/ Crash(w)
      PROVE  LatestInv'
  <2>1. /\ lease' = lease /\ version' = version
        /\ \A v \in Workers : Active(v)' =>
             /\ Active(v)
             /\ worker'[v].at = worker[v].at
             /\ worker'[v].copy = worker[v].copy
    BY <1>0, <1>3 DEF Begin, Leave, WriteRefused, Crash, row, Idle, Active, Worker
  <2> QED
    BY <2>1 DEF LatestInv
<1>4. ASSUME NEW w \in Workers, Acquire(w) PROVE LatestInv'
  <2>1. /\ lease' = clock + LeaseMs /\ version' = version + 1
        /\ worker'[w].at = clock
        /\ worker'[w].copy.version = version + 1
        /\ worker'[w].copy.lease = clock + LeaseMs
        /\ \A v \in Workers \ {w} : worker'[v] = worker[v]
    BY <1>0, <1>4 DEF Acquire, Worker
  <2>2. \A v \in Workers : Active(v) =>
          /\ worker[v].at <= clock
          /\ worker[v].copy.lease <= clock + LeaseMs
          /\ worker[v].copy.version < version + 1
    BY <1>0 DEF TokenInv, LatestInv
  <2>3. \A v \in Workers : Active(v)' =>
          /\ worker'[v].copy.version <= version'
          /\ worker'[v].copy.lease <= lease'
    BY <1>0, <2>1, <2>2 DEF Active
  <2>4. \A u, v \in Workers :
          Active(u)' /\ Active(v)' /\ worker'[u].at < worker'[v].at =>
              worker'[u].copy.version < worker'[v].copy.version
    <3> SUFFICES ASSUME NEW u \in Workers, NEW v \in Workers,
                        Active(u)', Active(v)', worker'[u].at < worker'[v].at
                 PROVE  worker'[u].copy.version < worker'[v].copy.version
      OBVIOUS
    <3>1. u # w
      BY <1>0, <2>1, <2>2 DEF Active
    <3>2. CASE v = w
      BY <1>0, <2>1, <2>2, <3>1, <3>2 DEF Active
    <3>3. CASE v # w
      BY <2>1, <3>1, <3>3 DEF Active, LatestInv
    <3> QED
      BY <3>2, <3>3
  <2> QED
    BY <2>3, <2>4 DEF LatestInv
<1>5. ASSUME NEW w \in Workers, WriteAccepted(w) PROVE LatestInv'
  <2>1. /\ lease' = lease /\ version' = version + 1
        /\ worker[w].copy.version = version
        /\ worker'[w].copy.version = version + 1
        /\ Active(w)
        /\ \A v \in Workers : /\ worker'[v].pc = worker[v].pc
                              /\ worker'[v].at = worker[v].at
                              /\ worker'[v].copy.lease = worker[v].copy.lease
        /\ \A v \in Workers \ {w} : worker'[v] = worker[v]
    BY <1>0, <1>5 DEF WriteAccepted, Fenced, Active, Worker, Row
  <2>2. \A v \in Workers : Active(v)' <=> Active(v)
    BY <2>1 DEF Active
  <2>3. \A v \in Workers : Active(v) => worker[v].copy.version <= version
    BY DEF LatestInv
  <2>4. \A v \in Workers : Active(v) => ~(worker[w].at < worker[v].at)
    BY <1>0, <2>1, <2>3 DEF LatestInv
  <2> QED
    BY <1>0, <2>1, <2>2, <2>3, <2>4 DEF LatestInv
<1>6. ASSUME NEW w \in Workers, Release(w) PROVE LatestInv'
  <2>1. /\ lease' = NoLease \/ lease' = lease
        /\ version' = version
        /\ ~Active(w)'
        /\ \A v \in Workers \ {w} : worker'[v] = worker[v]
    BY <1>0, <1>6 DEF Release, Active, Worker
  <2> QED
    BY <2>1 DEF LatestInv, Active
<1> QED
  BY <1>1, <1>2, <1>3, <1>4, <1>5, <1>6 DEF Next

(***************************************************************************)
(* When every lease is taken with the current time, a holder that was      *)
(* taken over cannot clear the newer lease by its release.                 *)
(***************************************************************************)
THEOREM FreshReleaseHarmless == FreshClock => (Spec => []StaleReleaseHarmless)
<1>1. Init => TimeInv /\ LatestInv
  <2>1. Init => TypeOK
    BY LeaseAssumption, IdleType
       DEF Init, TypeOK, Time, NewOrder, NoLease, Order, OrderState, Reversal
  <2> QED
    BY <2>1 DEF Init, TimeInv, TokenInv, LeaseLasts, LatestInv, Active, Idle
<1>2. TimeInv /\ LatestInv => StaleReleaseHarmless
  <2> SUFFICES ASSUME TimeInv, LatestInv, NEW w \in Workers, NEW v \in Workers,
                      Active(w), Active(v),
                      worker[w].copy.version < worker[v].copy.version
               PROVE  lease # worker[w].copy.lease
    BY DEF StaleReleaseHarmless
  <2>1. /\ worker[w].at \in Nat /\ worker[v].at \in Nat /\ lease \in Int
        /\ worker[w].copy.version \in Nat /\ worker[v].copy.version \in Nat
    BY DEF TimeInv, TypeOK, Worker, Row, Time
  <2>2. w # v
    BY <2>1
  <2>3. worker[w].at < worker[v].at
    BY <2>1, <2>2, LeaseAssumption DEF TimeInv, LeaseLasts, LatestInv
  <2> QED
    BY <2>1, <2>3, LeaseAssumption DEF TimeInv, TokenInv, LatestInv, NoLease
<1>3. CASE FreshClock
  <2>1. TimeInv /\ LatestInv /\ [Next]_vars => (TimeInv /\ LatestInv)'
    BY <1>3, TimeStep, LatestStep
  <2> QED
    BY <1>1, <1>2, <2>1, PTL DEF Spec
<1> QED
  BY <1>3

=============================================================================
