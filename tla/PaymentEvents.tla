---------------------------- MODULE PaymentEvents ----------------------------
(***************************************************************************)
(* One Stripe event from its delivery to its settlement: the webhook and   *)
(* the reconcile re-drive both run dispatch.rs handle_event on it, in any  *)
(* number of processes at once, over one row of payment_events.            *)
(*                                                                         *)
(* What the event means (the engine's work) is CipherEngine's; here one    *)
(* attempt at it is a step that is Processed, Ignored or to be retried.    *)
(* Stripe may deliver the event any number of times, also after a 200.     *)
(***************************************************************************)
EXTENDS Naturals

CONSTANTS
    Workers,
    MaxAttempts,  \* MAX_EVENT_ATTEMPTS
    MayMismatch   \* TRUE: expect_livemode may not be the event's (it changes
                  \* with the configuration, between two handlers)

ASSUME EventAssumption == MaxAttempts \in Nat \ {0} /\ MayMismatch \in BOOLEAN

SettledStates == {"Processed", "Ignored"}
EventState == {"Absent", "Received", "Failed"} \cup SettledStates

VARIABLES
    row,      \* the stored PaymentEvent
    task,     \* each worker: the call it makes next, who started it
    handled,  \* history: an attempt succeeded, or ignoring it was decided
    acked     \* history: Stripe was answered 200

vars == <<row, task, handled, acked>>

\* attempts is a u32 that saturates; nothing tells values past the cap apart
Row == [state: EventState, attempts: 0 .. MaxAttempts]

Calls == {"idle", "get", "unfetched", "insert", "check", "process", "recheck",
          "Processed", "Ignored", "Failed", "mismatch"}
Task == [at: Calls, by: {"webhook", "sweep"}]
Idle == [at |-> "idle", by |-> "sweep"]

Init ==
    /\ row = [state |-> "Absent", attempts |-> 0]
    /\ task = [w \in Workers |-> Idle]
    /\ handled = FALSE /\ acked = FALSE

-----------------------------------------------------------------------------
IsSettled == row.state \in SettledStates

At(w, call) == task[w].at = call
Goto(w, call) ==
    task' = [task EXCEPT ![w] = [at |-> call, by |-> task[w].by]]
Ends(w) == task' = [task EXCEPT ![w] = Idle]

\* handle_event returns; the webhook answers 200 to everything but a retry
Answer(w, ok) ==
    /\ Ends(w)
    /\ IF ok /\ task[w].by = "webhook" THEN acked' = TRUE ELSE UNCHANGED acked

Bump(n) == IF n < MaxAttempts THEN n + 1 ELSE n

\* set_payment_event_state: whatever the row's state is by now
SetState(state) == row' = [state |-> state, attempts |-> Bump(row.attempts)]

\* Mutant: only failed events
InQueueFailed == row.state = "Failed" /\ row.attempts < MaxAttempts

\* What the re-drive fetches: failed and not given up, or stranded
InQueue ==
    \/ row.state = "Failed" /\ row.attempts < MaxAttempts
    \/ row.state = "Received"

-----------------------------------------------------------------------------
Deliver(w) ==
    /\ At(w, "idle")
    /\ task' = [task EXCEPT ![w] = [at |-> "insert", by |-> "webhook"]]
    /\ UNCHANGED <<row, handled, acked>>

\* redrive_events has listed the row: the event is fetched from Stripe
Redrive(w) ==
    /\ At(w, "idle") /\ InQueue
    /\ task' = [task EXCEPT ![w] = [at |-> "get", by |-> "sweep"]]
    /\ UNCHANGED <<row, handled, acked>>

GetEvent(w) ==
    /\ At(w, "get")
    /\ \E next \in {"insert", "unfetched"} : Goto(w, next)
    /\ UNCHANGED <<row, handled, acked>>

\* Not to be had: the attempt is counted all the same
MarkUnfetched(w) ==
    /\ At(w, "unfetched")
    /\ SetState("Failed")
    /\ Ends(w)
    /\ UNCHANGED <<handled, acked>>

\* insert_payment_event_if_absent
InsertEvent(w) ==
    /\ At(w, "insert")
    /\ IF row.state = "Absent"
         THEN row' = [state |-> "Received", attempts |-> 0] /\ Goto(w, "process")
         ELSE UNCHANGED row /\ Goto(w, "check")
    /\ UNCHANGED <<handled, acked>>

\* Mutant: a row is taken for a settled one
CheckAnyRow(w) ==
    /\ At(w, "check")
    /\ Answer(w, TRUE)
    /\ UNCHANGED <<row, handled>>

\* A row is there: a duplicate once it is settled
Check(w) ==
    /\ At(w, "check")
    /\ IF IsSettled THEN Answer(w, TRUE)
       ELSE Goto(w, "process") /\ UNCHANGED acked
    /\ UNCHANGED <<row, handled>>

Process(w) ==
    /\ At(w, "process")
    /\ \/ \E step \in SettledStates : Goto(w, step) /\ handled' = TRUE
       \/ Goto(w, "recheck") /\ UNCHANGED handled
    /\ UNCHANGED <<row, acked>>

\* To be retried, unless another delivery settled it meanwhile
Recheck(w) ==
    /\ At(w, "recheck")
    /\ IF IsSettled THEN Answer(w, TRUE)
       ELSE Goto(w, "Failed") /\ UNCHANGED acked
    /\ UNCHANGED <<row, handled>>

\* The outcome is stored
Store(w) ==
    /\ task[w].at \in SettledStates \cup {"Failed"}
    /\ SetState(task[w].at)
    /\ Answer(w, task[w].at # "Failed")
    /\ UNCHANGED handled

\* record_livemode_mismatch: stored as Ignored, or an open row is settled so
Mismatch(w) ==
    /\ MayMismatch /\ At(w, "insert")
    /\ handled' = TRUE
    /\ IF row.state = "Absent"
         THEN /\ row' = [state |-> "Ignored", attempts |-> 1]
              /\ Answer(w, TRUE)
         ELSE Goto(w, "mismatch") /\ UNCHANGED <<row, acked>>

MismatchCheck(w) ==
    /\ At(w, "mismatch")
    /\ IF IsSettled THEN Answer(w, TRUE)
       ELSE Goto(w, "Ignored") /\ UNCHANGED acked
    /\ UNCHANGED <<row, handled>>

\* A database call fails, or the process dies: nothing more is stored
Break(w) ==
    /\ ~At(w, "idle")
    /\ Ends(w)
    /\ UNCHANGED <<row, handled, acked>>

Handle(w) ==
    \/ GetEvent(w) \/ MarkUnfetched(w) \/ InsertEvent(w) \/ Check(w)
    \/ Process(w) \/ Recheck(w) \/ Store(w) \/ Mismatch(w) \/ MismatchCheck(w)

Next == \E w \in Workers : Deliver(w) \/ Redrive(w) \/ Handle(w) \/ Break(w)

Spec == Init /\ [][Next]_vars

(***************************************************************************)
(* A call that was made returns; the sweep, at every tick, comes to an     *)
(* event in its queue; breaks become rare. Stripe need not deliver again.  *)
(***************************************************************************)
LiveSpec ==
    /\ Spec
    /\ \A w \in Workers : WF_vars(Handle(w))
    /\ SF_vars(\E w \in Workers : Redrive(w))
    /\ <>[][~ \E w \in Workers : Break(w)]_vars

-----------------------------------------------------------------------------
\* The row, with attempts never past MAX_EVENT_ATTEMPTS, and the tasks
TypeOK ==
    /\ row \in Row
    /\ task \in [Workers -> Task]
    /\ handled \in BOOLEAN /\ acked \in BOOLEAN

(***************************************************************************)
(* Stripe is answered 200 (and so stops sending) only for an event that    *)
(* was handled: a duplicate of an attempt that is in flight, failed or     *)
(* died is not taken for done.                                             *)
(***************************************************************************)
AckedHandled == acked => handled

(***************************************************************************)
(* A stored event is settled in the end, or has been tried MAX_EVENT_      *)
(* ATTEMPTS times, also when the handler that stored it died and Stripe    *)
(* never sends it again.                                                   *)
(***************************************************************************)
EventSettles ==
    row.state \in {"Received", "Failed"} ~>
        IsSettled \/ row.attempts = MaxAttempts

=============================================================================
