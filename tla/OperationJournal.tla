-------------------------- MODULE OperationJournal --------------------------
(***************************************************************************)
(* The journal of operations: one current record per operation, holding    *)
(* the attempt in progress and its status (operations.py). A journal is a  *)
(* function from operations to records; an operation that was never added  *)
(* is "absent". The code raises ValueError exactly when a Can... operator  *)
(* below is false.                                                         *)
(***************************************************************************)
EXTENDS Naturals

OperationStatus == {"planned", "reserved", "started", "succeeded", "failed_known",
                    "outcome_unknown", "cancelled_before_dispatch"}

\* attempt_id is make_stable_id of the operation and the attempt number, so
\* the number identifies the attempt; an operation id and its kind, name and
\* flags never change and stay in the script.
Absent == [attempt |-> 0, status |-> "absent", error |-> "none"]

Present(j, op) == j[op].status # "absent"

\* _current(op).attempt_id = attempt_id, the check every method makes first.
IsCurrent(j, op, n) == Present(j, op) /\ j[op].attempt = n

\* _update with a status (and, for an outcome, its error code).
SetStatus(j, op, status, error) ==
    [j EXCEPT ![op] = [@ EXCEPT !.status = status, !.error = error]]

\* plan and add. Every caller has seen that the operation is absent, so the
\* refusal of an operation that is already there is not met.
Add(j, op, n) == [j EXCEPT ![op] = [attempt |-> n, status |-> "planned", error |-> "none"]]

\* _update to a later attempt of the same operation. Some callers clear the
\* error_code of the attempt before, some leave it in the record.
NewAttempt(j, op, n, status, error) ==
    [j EXCEPT ![op] = [attempt |-> n, status |-> status, error |-> error]]

CanReserveOp(j, op, n) == IsCurrent(j, op, n) /\ j[op].status \in {"planned", "reserved"}
ReserveOp(j, op, n) == [j EXCEPT ![op] = [@ EXCEPT !.status = "reserved"]]

CanStart(j, op, n) == IsCurrent(j, op, n) /\ j[op].status \in {"planned", "reserved"}
StartOp(j, op, n) == [j EXCEPT ![op] = [@ EXCEPT !.status = "started"]]

\* mark_succeeded, mark_failed and mark_unknown only check the attempt, not
\* the status it leaves.
CanMark(j, op, n) == IsCurrent(j, op, n)
MarkSucceeded(j, op) == SetStatus(j, op, "succeeded", "none")
MarkFailed(j, op, code) == SetStatus(j, op, "failed_known", code)
MarkUnknown(j, op) == SetStatus(j, op, "outcome_unknown", "unknown_outcome")

CanCancel(j, op, n) == IsCurrent(j, op, n) /\ j[op].status = "planned"
CancelBeforeDispatch(j, op) == [j EXCEPT ![op] = [@ EXCEPT !.status = "cancelled_before_dispatch"]]

=============================================================================
