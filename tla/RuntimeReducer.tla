--------------------------- MODULE RuntimeReducer ---------------------------
(***************************************************************************)
(* The reducer of the unified runtime stream (runtime_v2.py): what a       *)
(* sequence of durable events says about the run, its ledger and its       *)
(* journal. Hashes, sequence numbers and identifiers of the envelope are   *)
(* left out: a stream is the sequence its single writer appended.          *)
(***************************************************************************)
EXTENDS RunLifecycle, OperationJournal, BudgetLedger, Sequences

CONSTANT Ops    \* the operations a journal can hold, by position in the script

---------------------------------------------------------------------------
(* Events *)

RunStarted == [type |-> "run_started"]
Lifecycle(from, to) == [type |-> "lifecycle_transition", from |-> from, to |-> to]
OperationReserved(op, n, kind, usage) ==
    [type |-> "operation_reserved", op |-> op, attempt |-> n, kind |-> kind, usage |-> usage]
OperationDispatched(op, n) == [type |-> "operation_dispatched", op |-> op, attempt |-> n]
OperationSucceeded(op, n, usage, answer) ==
    [type |-> "operation_succeeded", op |-> op, attempt |-> n, usage |-> usage, status |-> answer]
OperationFailed(op, n, usage, code) ==
    [type |-> "operation_failed", op |-> op, attempt |-> n, usage |-> usage, code |-> code]
OperationUnknown(op, n) == [type |-> "operation_unknown", op |-> op, attempt |-> n]
OperationCancelled(op, n) == [type |-> "operation_cancelled", op |-> op, attempt |-> n]
RetryScheduled(op, n, delay) ==
    [type |-> "retry_scheduled", op |-> op, attempt |-> n, backoff |-> delay]
ReplanDecided(op, n, admitted) ==
    [type |-> "replan_decided", op |-> op, attempt |-> n, admitted |-> admitted]
ElapsedRecorded(seconds, delay) ==
    [type |-> "elapsed_recorded", elapsed |-> seconds, backoff |-> delay]

---------------------------------------------------------------------------
(* Reduction. A view is what a prefix of the stream determines; ok turns   *)
(* FALSE, for good, at the first event the reducer rejects with an         *)
(* exception, and every later replay of the stream raises the same way.    *)

InitialView ==
    [ok |-> TRUE, status |-> "brief_pending", ledger |-> EmptyLedger,
     journal |-> [op \in Ops |-> Absent]]

Rejected(v) == [v EXCEPT !.ok = FALSE]

ReduceLifecycle(v, e) ==
    IF e.from = v.status /\ CanTransition(v.status, e.to)
    THEN [v EXCEPT !.status = e.to] ELSE Rejected(v)

\* The journal as operation_reserved finds it: a new operation is added, a
\* later attempt of a known one takes the record over.
WithAttempt(j, op, n) ==
    IF ~Present(j, op) THEN Add(j, op, n)
    ELSE IF j[op].attempt # n THEN NewAttempt(j, op, n, "planned", "none") ELSE j

ReduceReserved(v, e, spec) ==
    LET r == [op |-> e.op, attempt |-> e.attempt, kind |-> e.kind, usage |-> e.usage]
        j == WithAttempt(v.journal, e.op, e.attempt)
    IN  IF CanReserve(v.ledger, spec, r) /\ CanReserveOp(j, e.op, e.attempt)
        THEN [v EXCEPT !.ledger = Reserve(@, r), !.journal = ReserveOp(j, e.op, e.attempt)]
        ELSE Rejected(v)

ReduceDispatched(v, e) ==
    IF CanStart(v.journal, e.op, e.attempt)
    THEN [v EXCEPT !.journal = StartOp(@, e.op, e.attempt)] ELSE Rejected(v)

\* An unknown outcome keeps its reservation and creates no charge.
ReduceUnknown(v, e) ==
    IF Held(v.ledger, e.op, e.attempt) /\ CanMark(v.journal, e.op, e.attempt)
    THEN [v EXCEPT !.journal = MarkUnknown(@, e.op)] ELSE Rejected(v)

ReservedKind(l, op, n) ==
    (CHOOSE r \in l.reservations : r.op = op /\ r.attempt = n).kind

ChargeFor(l, e, outcome) ==
    [op |-> e.op, attempt |-> e.attempt, kind |-> ReservedKind(l, e.op, e.attempt),
     usage |-> e.usage, outcome |-> outcome]

CanSettle(v, e, outcome, spec) ==
    /\ Held(v.ledger, e.op, e.attempt)
    /\ CanReconcile(v.ledger, spec, ChargeFor(v.ledger, e, outcome))
    /\ CanMark(v.journal, e.op, e.attempt)

ReduceSucceeded(v, e, spec) ==
    IF CanSettle(v, e, "succeeded", spec)
    THEN [v EXCEPT !.ledger = Reconcile(@, ChargeFor(@, e, "succeeded")),
                   !.journal = MarkSucceeded(@, e.op)]
    ELSE Rejected(v)

ReduceFailed(v, e, spec) ==
    IF CanSettle(v, e, "failed_known", spec)
    THEN [v EXCEPT !.ledger = Reconcile(@, ChargeFor(@, e, "failed_known")),
                   !.journal = MarkFailed(@, e.op, e.code)]
    ELSE Rejected(v)

ReduceCancelled(v, e) ==
    LET j == IF Present(v.journal, e.op) THEN v.journal ELSE Add(v.journal, e.op, e.attempt)
    IN  IF CanCancel(j, e.op, e.attempt)
        THEN [v EXCEPT !.journal = CancelBeforeDispatch(j, e.op)] ELSE Rejected(v)

ReduceReplan(v, e, spec) ==
    IF ~e.admitted THEN v
    ELSE IF CanRecordReplan(v.ledger, spec)
         THEN [v EXCEPT !.ledger = RecordReplan(@)] ELSE Rejected(v)

\* One step of _reduce_slice. retry_scheduled only has its attempt number
\* validated, which is at least 2 in every event that is written.
ReduceEvent(v, e, spec) ==
    IF ~v.ok THEN v
    ELSE CASE e.type = "run_started" -> v
           [] e.type = "lifecycle_transition" -> ReduceLifecycle(v, e)
           [] e.type = "operation_reserved" -> ReduceReserved(v, e, spec)
           [] e.type = "operation_dispatched" -> ReduceDispatched(v, e)
           [] e.type = "operation_unknown" -> ReduceUnknown(v, e)
           [] e.type = "operation_succeeded" -> ReduceSucceeded(v, e, spec)
           [] e.type = "operation_failed" -> ReduceFailed(v, e, spec)
           [] e.type = "operation_cancelled" -> ReduceCancelled(v, e)
           [] e.type = "retry_scheduled" -> v
           [] e.type = "replan_decided" -> ReduceReplan(v, e, spec)
           [] e.type = "elapsed_recorded" ->
                [v EXCEPT !.ledger = RecordElapsed(@, e.elapsed)]

\* reduce_runtime_events over the first n events of the stream.
ReducePrefix(stream, n, spec) ==
    LET reduce[i \in 0..n] ==
            IF i = 0 THEN InitialView ELSE ReduceEvent(reduce[i - 1], stream[i], spec)
    IN  reduce[n]

\* _finalize_stream_end: an operation still started when the stream ends has
\* an outcome nobody knows.
Finalize(v) ==
    [v EXCEPT !.journal = [op \in Ops |->
        IF @[op].status = "started"
        THEN [@[op] EXCEPT !.status = "outcome_unknown", !.error = "unknown_outcome"]
        ELSE @[op]]]

=============================================================================
