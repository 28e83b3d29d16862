----------------------------- MODULE OrderLease -----------------------------
(***************************************************************************)
(* The lease and the fenced writes of one payment order row, as webhook    *)
(* handlers, checkout requests, account deletion and the reconcile sweep   *)
(* of any number of processes use them.                                    *)
(*                                                                         *)
(* A worker leases the row, decides on the copy the lease call returned    *)
(* while time passes and others act, and replaces the whole row, on the    *)
(* condition that its state, version, lease and buyer are still the copy's.*)
(* A worker may stall for any time between two steps (Tick) or stop for    *)
(* good holding its lease (Crash).                                         *)
(***************************************************************************)
EXTENDS PaymentOrder, Integers

CONSTANTS
    Workers,     \* tasks that may work on the order
    LeaseMs,     \* LEASE_MS
    MaxClock,    \* bound: the last instant looked at
    MaxVersion,  \* bound: the largest version (u64::MAX; past it an error)
    FreshClock   \* TRUE: every lease is taken with the current time.
                 \* FALSE: with a time the caller may have read earlier, as
                 \* the reconcile sweep does for every order of one tick

ASSUME LeaseAssumption ==
    /\ LeaseMs \in Nat /\ MaxClock \in Nat /\ MaxVersion \in Nat
    /\ FreshClock \in BOOLEAN

NoLease == -1
Time == 0 .. MaxClock
Row == [order: Order, version: Nat, lease: Int]

VARIABLES
    order,   \* the stored PaymentOrder, without the two fields below
    version, \* its version
    lease,   \* its lease_until
    clock,   \* epoch time
    worker   \* each task: where it is, its now_ms, its leased.order

row == <<order, version, lease>>
vars == <<order, version, lease, clock, worker>>

(***************************************************************************)
(*  pc: "idle"    - not started                                            *)
(*      "ready"   - has read the clock, holds nothing                      *)
(*      "held"    - runs a handler on its leased copy                      *)
(*      "stopped" - a write was refused; only the release is left          *)
(*  at: when the lease was really taken (history, no code reads it)        *)
(***************************************************************************)
Worker == [pc: {"idle", "ready", "held", "stopped"},
           now: Time, at: Time, copy: Row]

\* The copy of a worker that holds nothing
NoCopy == [order |-> NewOrder, version |-> 0, lease |-> NoLease]
Idle == [pc |-> "idle", now |-> 0, at |-> 0, copy |-> NoCopy]

Init ==
    /\ order = NewOrder
    /\ version = 0
    /\ lease = NoLease
    /\ clock = 0
    /\ worker = [w \in Workers |-> Idle]

-----------------------------------------------------------------------------
\* Mutant: free in its last instant already
LeaseFreeEarly(now) == lease = NoLease \/ lease <= now

\* lease_free: never taken, or run out
LeaseFree(now) == lease = NoLease \/ lease < now

\* Mutant: conditional on the state alone
FencedByState(w) == order.state = worker[w].copy.order.state

\* The filter of update_payment_order_if_state, `expected` being the copy's
\* own state (engine.rs write)
Fenced(w) ==
    LET c == worker[w].copy IN
    /\ order.state = c.order.state
    /\ version = c.version
    /\ lease = c.lease
    /\ order.buyer = c.order.buyer

\* Workers that think they hold the lease
Active(w) == worker[w].pc \in {"held", "stopped"}

-----------------------------------------------------------------------------
Tick ==
    /\ clock < MaxClock
    /\ clock' = clock + 1
    /\ UNCHANGED <<row, worker>>

\* A handler (or a sweep) starts: its now_ms is read once
Begin(w) ==
    /\ worker[w].pc = "idle"
    /\ worker' = [worker EXCEPT ![w].pc = "ready", ![w].now = clock]
    /\ UNCHANGED <<row, clock>>

\* acquire: the check, the new lease and the version bump are one update
Acquire(w) ==
    LET now == worker[w].now IN
    /\ worker[w].pc = "ready"
    /\ FreshClock => now = clock
    /\ LeaseFree(now)
    /\ version < MaxVersion
    /\ version' = version + 1
    /\ lease' = now + LeaseMs
    /\ worker' = [worker EXCEPT ![w] =
                    [pc |-> "held", now |-> now, at |-> clock,
                     copy |-> [order |-> order, version |-> version',
                               lease |-> lease']]]
    /\ UNCHANGED <<order, clock>>

\* The lease is held (Busy, LeaseHeld), or the caller has nothing left to do
Leave(w) ==
    /\ worker[w].pc = "ready"
    /\ worker' = [worker EXCEPT ![w] = Idle]
    /\ UNCHANGED <<row, clock>>

\* Mutant: the row is replaced whatever it holds by now
WriteUnfenced(w) ==
    LET c == worker[w].copy IN
    /\ worker[w].pc = "held"
    /\ version < MaxVersion
    /\ Change(c.order, order')
    /\ version' = version + 1
    /\ lease' = c.lease
    /\ worker' = [worker EXCEPT ![w].copy.order = order',
                                ![w].copy.version = version']
    /\ UNCHANGED clock

\* write, accepted: the whole row is replaced, the copy carries its version
WriteAccepted(w) ==
    LET c == worker[w].copy IN
    /\ worker[w].pc = "held"
    /\ Fenced(w)
    /\ c.version < MaxVersion
    /\ Change(c.order, order')
    /\ version' = c.version + 1
    /\ lease' = c.lease
    /\ worker' = [worker EXCEPT ![w].copy.order = order',
                                ![w].copy.version = version']
    /\ UNCHANGED clock

\* write, refused: an error, nothing more is written
WriteRefused(w) ==
    /\ worker[w].pc = "held"
    /\ ~Fenced(w)
    /\ worker' = [worker EXCEPT ![w].pc = "stopped"]
    /\ UNCHANGED <<row, clock>>

\* release: clears the lease if it is the worker's own token; the caller may
\* go on with the same now_ms
Release(w) ==
    /\ Active(w)
    /\ lease' = IF lease = worker[w].copy.lease THEN NoLease ELSE lease
    /\ worker' = [worker EXCEPT ![w] =
                    [pc |-> "ready", now |-> worker[w].now, at |-> 0,
                     copy |-> NoCopy]]
    /\ UNCHANGED <<order, version, clock>>

\* The process dies: its lease stays until it runs out
Crash(w) ==
    /\ Active(w)
    /\ worker' = [worker EXCEPT ![w] = Idle]
    /\ UNCHANGED <<row, clock>>

\* unlink_payment_orders_by_user, by an account deletion that holds no lease
UnlinkBuyer ==
    /\ version < MaxVersion
    /\ Unlink(order, order')
    /\ version' = version + 1
    /\ UNCHANGED <<lease, clock, worker>>

Next ==
    \/ Tick
    \/ UnlinkBuyer
    \/ \E w \in Workers : \/ Begin(w) \/ Acquire(w) \/ Leave(w)
                          \/ WriteAccepted(w) \/ WriteRefused(w)
                          \/ Release(w) \/ Crash(w)

Spec == Init /\ [][Next]_vars

-----------------------------------------------------------------------------
\* The row, the clock and each worker's copy are what their declarations say:
\* in particular no worker's now_ms is outside the instants that have passed
TypeOK ==
    /\ order \in Order /\ version \in Nat /\ lease \in Int
    /\ clock \in Time
    /\ worker \in [Workers -> Worker]

(***************************************************************************)
(* No lost update: whenever update_payment_order_if_state would accept a   *)
(* worker's copy, that copy is the stored row in every field, also the     *)
(* ones the filter does not compare. A reversal, a dispute or a payment    *)
(* recorded by anybody since the worker read the row is never overwritten. *)
(***************************************************************************)
NoLostUpdate ==
    \A w \in Workers : worker[w].pc = "held" /\ Fenced(w) =>
        worker[w].copy = [order |-> order, version |-> version, lease |-> lease]

(***************************************************************************)
(* A lease lasts: two workers are inside a handler on the order at the     *)
(* same time only when more than LEASE_MS have passed since the earlier    *)
(* one took its lease ("how long a worker holds an order").                *)
(***************************************************************************)
LeaseLasts ==
    \A w, v \in Workers :
        w # v /\ Active(w) /\ Active(v) =>
            \/ worker[v].at > worker[w].at + LeaseMs
            \/ worker[w].at > worker[v].at + LeaseMs

(***************************************************************************)
(* A holder that was taken over cannot clear the newer lease: its token is *)
(* not the one stored while a later worker is still at work.               *)
(***************************************************************************)
StaleReleaseHarmless ==
    \A w, v \in Workers :
        /\ Active(w) /\ Active(v)
        /\ worker[w].copy.version < worker[v].copy.version
        => lease # worker[w].copy.lease

-----------------------------------------------------------------------------
(***************************************************************************)
(* The stored order changes as OrderLifecycle says: each write is the      *)
(* indivisible step of an atomic order.                                    *)
(***************************************************************************)
Lifecycle == INSTANCE OrderLifecycle
ImplementsLifecycle == Lifecycle!Spec

\* A stored order that is Paid, Fulfilled or Refunded has its payment intent:
\* without it no refund of void_paid or of a release could name the payment
StoredMoneyRecorded == Lifecycle!MoneyRecorded

\* A stored order that is settled (Refunded, or Voided after its payment was
\* seen) stays so, whatever stalled worker or late event still writes
StoredSettledForever == Lifecycle!SettledForever

\* A lost dispute on a stored order is never dropped for a refund by a worker
\* with an older copy, nor before the order is Voided, Refunded or reversed
StoredLostDisputeKept == Lifecycle!LostDisputeKept

=============================================================================
