-------------------------- MODULE CrashSafeHarness --------------------------
(***************************************************************************)
(* CrashSafeFakeHarness (runtime_v2.py): the loop that runs a scenario's   *)
(* operations against a provider and a tool, writing every decision to the *)
(* unified event stream before it acts on it, and resumes from that stream *)
(* after a crash.                                                          *)
(*                                                                         *)
(* One action is one durable append with the memory updates that follow it *)
(* up to the next append, or one external call, or one branch of the loop  *)
(* that writes nothing. A crash may fall between any two of them, and in   *)
(* the middle of an append, where it leaves an incomplete last line.       *)
(***************************************************************************)
EXTENDS RuntimeReducer, ExecutionPolicies

CONSTANTS
    Scenarios,        \* names of the scenarios a run may be started with
    Script,           \* Script[s]: operations of scenario s, in order
    Specs,            \* budget specs a run may be started with
    Backoffs,         \* retry backoff schedules a run may be started with
    CrashPoints,      \* control points where the process may die
    TornPoints,       \* control points where it may die while appending
    MaxRuns,          \* bound: processes started on the stream; the last does not die
    MaxCancels        \* bound: cancellation requests

AnswerStatus == {"success", "abstain", "error", "unknown"}

AnswerType == [status : AnswerStatus, empty : BOOLEAN, latency : Nat,
               code : ErrorCode \cup {"none"}, usage : Usage]

OperationType == [kind : Kinds, answers : Seq(AnswerType)]

\* The scripted answer n of an operation may end in a failure that is retried.
MayFail(answer) == answer.status = "error" \/ answer.latency > 0

\* Every operation of a script is scripted, and so is every retry of it.
ScriptAssumption ==
    \A s \in Scenarios :
        /\ Script[s] \in Seq(OperationType)
        /\ DOMAIN Script[s] \subseteq Ops
        /\ \A op \in DOMAIN Script[s] :
              LET answers == Script[s][op].answers
              IN  /\ answers # <<>>
                  /\ \A n \in DOMAIN answers :
                        n < MaxAttempts /\ MayFail(answers[n]) => n + 1 \in DOMAIN answers

ASSUME ConfigurationAssumption ==
    /\ ScriptAssumption
    /\ MaxAttempts \in Nat \ {0}
    /\ NoLimit \notin Int
    /\ Ops \subseteq Nat \ {0}
    /\ Specs \subseteq SpecType
    /\ Backoffs \subseteq Seq(Nat)
    /\ MaxRuns \in Nat
    /\ MaxCancels \in Nat

VARIABLES
    scenario, spec, backoff,  \* what the run was created with; never change
    stream,       \* the durable event stream
    torn,         \* the file ends in an incomplete line
    view,         \* reduction of stream, extended at every append
    checkpoint,   \* the coordinated checkpoint on disk: [sequence, view]
    pc,           \* control point of the process, "down" when there is none
    mem,          \* the process's run status, ledger and journal
    at,           \* the operation of the loop, Len(Script)+1 past the last
    clock,        \* FakeClock, in seconds; the run starts at 0
    cancelled,    \* the cancellation token of the process
    reply,        \* answer of the last external call
    verdict,      \* [terminal, error] of the loop
    calls,        \* external calls made, per operation and attempt
    runs,         \* processes started so far
    cancels       \* cancellation requests so far

inputs == <<scenario, spec, backoff>>
durables == <<stream, torn, view, checkpoint>>
process == <<pc, mem, at, clock, cancelled, reply, verdict>>
counters == <<calls, runs, cancels>>
vars == <<inputs, durables, process, counters>>

---------------------------------------------------------------------------
(* Helpers *)

NoCheckpoint == [sequence |-> -1, view |-> InitialView]

Operations == Script[scenario]
KindOf(op) == Operations[op].kind

\* What the fake answers to an attempt. ScriptAssumption makes every attempt
\* that can be reached a scripted one, so the last answer is never repeated.
Answer(op, n) ==
    LET answers == Operations[op].answers
    IN  answers[IF n <= Len(answers) THEN n ELSE Len(answers)]

\* The journal record of the operation of the loop, and its attempt number.
current == mem.journal[at]
attempt == current.attempt

deadline == spec.runTimeout
\* Mutant of PastDeadline: the deadline itself is still in time.
BeyondDeadline(now) == deadline # NoLimit /\ now > deadline
PastDeadline(now) == deadline # NoLimit /\ now >= deadline
Remaining(now) == IF deadline = NoLimit THEN NoLimit ELSE deadline - now

Running == pc \notin {"down", "done", "raised"}

ReservationOf(op, k) ==
    [op |-> op, attempt |-> k, kind |-> KindOf(op), usage |-> Answer(op, k).usage]

ChargeOf(op, k, outcome) ==
    [op |-> op, attempt |-> k, kind |-> KindOf(op), usage |-> reply.usage, outcome |-> outcome]

\* UnifiedEventStore.append: the event is on disk when the call returns.
AppendEvent(e) ==
    /\ stream' = Append(stream, e)
    /\ view' = ReduceEvent(view, e, spec)
    /\ UNCHANGED <<torn, checkpoint>>

Goto(point) == pc' = point

\* Mutant of Conclude: the two swapped.
ConcludeSwapped(terminal, error) == verdict' = [terminal |-> error, error |-> terminal]
Conclude(terminal, error) == verdict' = [terminal |-> terminal, error |-> error]

\* An exception leaves run(): what was appended stays, the memory is gone.
Raise ==
    /\ Goto("raised")
    /\ UNCHANGED <<mem, at, clock, cancelled, reply, verdict>>

MovedOn == at' = at + 1 /\ Goto("loop")

---------------------------------------------------------------------------
(* run(): reading the stream and entering the loop *)

NoVerdict == [terminal |-> "complete", error |-> "none"]
NoReply == [status |-> "none", empty |-> FALSE, code |-> "none",
            usage |-> [input |-> 0, output |-> 0]]

\* A new process, with a fresh clock and a fresh token, on the stream left by
\* the earlier ones. The clock is brought forward to the elapsed time that was
\* recorded. An incomplete last line, or an event the reducer rejects, raises.
StartProcess ==
    /\ runs < MaxRuns
    /\ runs' = runs + 1
    /\ cancelled' = FALSE
    /\ reply' = NoReply
    /\ verdict' = NoVerdict
    /\ at' = 1

Start ==
    /\ ~Running
    /\ ~torn
    /\ view.ok
    /\ StartProcess
    /\ IF stream = <<>> THEN AppendEvent(RunStarted) ELSE UNCHANGED durables
    /\ mem' = [status |-> view.status, ledger |-> view.ledger,
               journal |-> Finalize(view).journal]
    /\ clock' = view.ledger.elapsed
    /\ Goto(IF view.status = "brief_pending" THEN "approve" ELSE "loop")
    /\ UNCHANGED <<inputs, calls, cancels>>

StartRejected ==
    /\ ~Running
    /\ torn \/ ~view.ok
    /\ runs < MaxRuns
    /\ runs' = runs + 1
    /\ Raise
    /\ UNCHANGED <<inputs, durables, calls, cancels>>

\* _lifecycle: the transition is checked in memory, then appended. The check
\* raises otherwise, which no caller can make it do.
LifecycleTo(to) ==
    /\ CanTransition(mem.status, to)
    /\ AppendEvent(Lifecycle(mem.status, to))
    /\ mem' = [mem EXCEPT !.status = to]

ApproveBrief ==
    /\ pc = "approve"
    /\ LifecycleTo("brief_approved")
    /\ Goto("research")
    /\ UNCHANGED <<inputs, at, clock, cancelled, reply, verdict, counters>>

BeginResearch ==
    /\ pc = "research"
    /\ LifecycleTo("researching")
    /\ Goto("loop")
    /\ UNCHANGED <<inputs, at, clock, cancelled, reply, verdict, counters>>

---------------------------------------------------------------------------
(* The head of the loop: what the journal says of the next operation *)

AtOperation == pc = "loop" /\ at <= Len(Operations)

\* The last success of the operation, as the resume path looks for it.
SucceededAnswer ==
    LET found == {i \in DOMAIN stream : /\ stream[i].type = "operation_succeeded"
                                        /\ stream[i].op = at /\ stream[i].attempt = attempt}
    IN  stream[CHOOSE i \in found : \A k \in found : k <= i].status

\* The recovered answer asks for a replan when it abstained. The second test
\* of the code, an insufficient_evidence success without result_sha256, never
\* holds: the hash of an empty content is a hash.
RecoveredNeedsReplan == SucceededAnswer = "abstain"

\* Mutant of DecisionExists: the stream is not searched for a decision.
DecisionForgotten == FALSE

DecisionExists ==
    \E i \in DOMAIN stream : /\ stream[i].type = "replan_decided"
                             /\ stream[i].op = at /\ stream[i].attempt = attempt

SkipSucceeded ==
    /\ AtOperation
    /\ current.status = "succeeded"
    /\ ~RecoveredNeedsReplan \/ DecisionExists
    /\ MovedOn
    /\ UNCHANGED <<inputs, durables, mem, clock, cancelled, reply, verdict, counters>>

\* Mutant of DecideReplan: the process forgets to count the replan.
DecideUncounted ==
    LET admitted == Admits(mem.ledger.replans, spec.maxReplans)
    IN  /\ AppendEvent(ReplanDecided(at, attempt, admitted))
        /\ IF admitted /\ scenario # "insufficient_evidence"
           THEN MovedOn /\ UNCHANGED verdict
           ELSE Conclude("insufficient_evidence", "grounding_rejected") /\ Goto("finish") /\ UNCHANGED at
        /\ UNCHANGED mem

\* admit, replan_decided and, when admitted, record_replan.
DecideReplan ==
    LET admitted == Admits(mem.ledger.replans, spec.maxReplans)
    IN  /\ AppendEvent(ReplanDecided(at, attempt, admitted))
        /\ IF ~admitted
           THEN /\ Conclude("insufficient_evidence", "budget_exhausted")
                /\ Goto("finish")
                /\ UNCHANGED <<mem, at>>
           ELSE /\ mem' = [mem EXCEPT !.ledger = RecordReplan(@)]
                /\ IF scenario = "insufficient_evidence"
                   THEN /\ Conclude("insufficient_evidence", "grounding_rejected")
                        /\ Goto("finish")
                        /\ UNCHANGED at
                   ELSE MovedOn /\ UNCHANGED verdict

RecoverReplan ==
    /\ AtOperation
    /\ current.status = "succeeded"
    /\ RecoveredNeedsReplan /\ ~DecisionExists
    /\ DecideReplan
    /\ UNCHANGED <<inputs, clock, cancelled, reply, counters>>

\* The verdicts of the loop head, in the order of the code.
Unsettled == current.status \in {"outcome_unknown", "started"}
Undecided == AtOperation /\ current.status # "succeeded"

\* Mutant of GiveUp: an operation whose outcome was lost is passed over.
PassOverLost ==
    /\ Undecided
    /\ Unsettled
    /\ MovedOn
    /\ UNCHANGED <<inputs, durables, mem, clock, cancelled, reply, verdict, counters>>

GiveUp ==
    /\ Undecided
    /\ \/ Unsettled /\ Conclude("failed", "unknown_outcome")
       \/ /\ ~Unsettled /\ cancelled /\ current.status # "absent"
          /\ Conclude("failed", "cancelled")
       \/ /\ ~Unsettled /\ ~cancelled /\ PastDeadline(clock)
          /\ Conclude("failed", "run_deadline_exceeded")
       \/ /\ current.status = "failed_known" /\ ~cancelled /\ ~PastDeadline(clock)
          /\ ~Allows(current.error, attempt, cancelled, Remaining(clock), backoff)
          /\ Conclude("failed", current.error)
    /\ Goto("finish")
    /\ UNCHANGED <<inputs, durables, mem, at, clock, cancelled, reply, counters>>

\* Only an operation that was never planned is cancelled durably.
CancelOperation ==
    /\ Undecided
    /\ cancelled /\ current.status = "absent"
    /\ AppendEvent(OperationCancelled(at, 1))
    /\ mem' = [mem EXCEPT !.journal = CancelBeforeDispatch(Add(@, at, 1), at)]
    /\ Conclude("failed", "cancelled")
    /\ Goto("finish")
    /\ UNCHANGED <<inputs, at, clock, cancelled, reply, counters>>

Proceeds == Undecided /\ ~Unsettled /\ ~cancelled /\ ~PastDeadline(clock)

\* Mutant of PlanOperation: operation_reserved is appended before the budget
\* is looked at.
PlanUnchecked ==
    /\ Proceeds
    /\ current.status = "absent"
    /\ AppendEvent(OperationReserved(at, 1, KindOf(at), Answer(at, 1).usage))
    /\ IF CanReserve(mem.ledger, spec, ReservationOf(at, 1))
       THEN /\ mem' = [mem EXCEPT !.ledger = Reserve(@, ReservationOf(at, 1)),
                                  !.journal = ReserveOp(Add(@, at, 1), at, 1)]
            /\ Goto("attempt")
            /\ UNCHANGED <<at, clock, cancelled, reply, verdict>>
       ELSE Raise
    /\ UNCHANGED <<inputs, counters>>

\* First attempt: plan, reserve in memory, then operation_reserved. A budget
\* error is raised before anything is appended.
PlanOperation ==
    /\ Proceeds
    /\ current.status = "absent"
    /\ IF CanReserve(mem.ledger, spec, ReservationOf(at, 1))
       THEN /\ AppendEvent(OperationReserved(at, 1, KindOf(at), Answer(at, 1).usage))
            /\ mem' = [mem EXCEPT !.ledger = Reserve(@, ReservationOf(at, 1)),
                                  !.journal = ReserveOp(Add(@, at, 1), at, 1)]
            /\ Goto("attempt")
            /\ UNCHANGED <<at, clock, cancelled, reply, verdict>>
       ELSE Raise /\ UNCHANGED durables
    /\ UNCHANGED <<inputs, counters>>

\* Mutant of TakeUpAttempt: only a planned attempt is taken up.
TakeUpPlanned ==
    /\ Proceeds
    /\ current.status = "planned"
    /\ Goto("attempt")
    /\ UNCHANGED <<inputs, durables, mem, at, clock, cancelled, reply, verdict, counters>>

\* A reserved attempt is taken up where it was left; a cancelled one falls
\* through to the attempt, where its missing reservation raises.
TakeUpAttempt ==
    /\ Proceeds
    /\ current.status \in {"planned", "reserved", "cancelled_before_dispatch"}
    /\ Goto("attempt")
    /\ UNCHANGED <<inputs, durables, mem, at, clock, cancelled, reply, verdict, counters>>

\* A known failure that may be retried: is its schedule durable already, and
\* was the backoff served?
Retries ==
    /\ Proceeds
    /\ current.status = "failed_known"
    /\ Allows(current.error, attempt, cancelled, Remaining(clock), backoff)

Schedules ==
    {i \in DOMAIN stream : /\ stream[i].type = "retry_scheduled"
                           /\ stream[i].op = at /\ stream[i].attempt = attempt}

BackoffServed(i) ==
    \E k \in DOMAIN stream : /\ k > i
                             /\ stream[k].type = "elapsed_recorded"
                             /\ stream[k].backoff = stream[i].backoff

FirstSchedule == CHOOSE i \in Schedules : \A k \in Schedules : i <= k

RetryUnscheduled ==
    /\ Retries
    /\ Schedules = {}
    /\ AppendEvent(RetryScheduled(at, attempt, DelayFor(backoff, attempt)))
    /\ Goto("backoff")
    /\ UNCHANGED <<inputs, mem, at, clock, cancelled, reply, verdict, counters>>

\* Mutant of RetryScheduledBefore: a durable schedule counts as served.
RetryAtOnce ==
    /\ Retries
    /\ Schedules # {}
    /\ Goto("rereserve")
    /\ UNCHANGED <<inputs, durables, mem, at, clock, cancelled, reply, verdict, counters>>

RetryScheduledBefore ==
    /\ Retries
    /\ Schedules # {}
    /\ Goto(IF BackoffServed(FirstSchedule) \/ stream[FirstSchedule].backoff = 0
            THEN "rereserve" ELSE "backoff")
    /\ UNCHANGED <<inputs, durables, mem, at, clock, cancelled, reply, verdict, counters>>

---------------------------------------------------------------------------
(* An attempt: dispatched durably, called, settled *)

Backoff ==
    /\ pc = "backoff"
    /\ clock' = clock + DelayFor(backoff, attempt)
    /\ AppendEvent(ElapsedRecorded(clock', DelayFor(backoff, attempt)))
    /\ Goto("rereserve")
    /\ UNCHANGED <<inputs, mem, at, cancelled, reply, verdict, counters>>

\* The error_code the record of a retry starts with: the process that saw the
\* failure leaves it there, one that resumes clears it.
CarriedError == IF reply.status = "error" THEN current.error ELSE "none"

ReserveRetry ==
    /\ pc = "rereserve"
    /\ LET r == ReservationOf(at, attempt + 1)
       IN  IF CanReserve(mem.ledger, spec, r)
           THEN /\ AppendEvent(OperationReserved(at, attempt + 1, r.kind, r.usage))
                /\ mem' = [mem EXCEPT !.ledger = Reserve(@, r),
                                      !.journal = NewAttempt(@, at, attempt + 1, "reserved", CarriedError)]
                /\ Goto("attempt")
                /\ UNCHANGED <<at, clock, cancelled, reply, verdict>>
           ELSE Raise /\ UNCHANGED durables
    /\ UNCHANGED <<inputs, counters>>

\* Mutant of Dispatch: the call is made without a durable dispatch.
DispatchUnrecorded ==
    /\ pc = "attempt"
    /\ Held(mem.ledger, at, attempt)
    /\ ~PastDeadline(clock)
    /\ CanStart(mem.journal, at, attempt)
    /\ mem' = [mem EXCEPT !.journal = StartOp(@, at, attempt)]
    /\ Goto("dispatched")
    /\ UNCHANGED <<inputs, durables, at, clock, cancelled, reply, verdict, counters>>

\* The token is not looked at between the loop head and the dispatch.
Dispatch ==
    /\ pc = "attempt"
    /\ Held(mem.ledger, at, attempt)
    /\ ~PastDeadline(clock)
    /\ CanStart(mem.journal, at, attempt)
    /\ mem' = [mem EXCEPT !.journal = StartOp(@, at, attempt)]
    /\ AppendEvent(OperationDispatched(at, attempt))
    /\ Goto("dispatched")
    /\ UNCHANGED <<inputs, at, clock, cancelled, reply, verdict, counters>>

DispatchTooLate ==
    /\ pc = "attempt"
    /\ Held(mem.ledger, at, attempt)
    /\ PastDeadline(clock)
    /\ Conclude("failed", "run_deadline_exceeded")
    /\ Goto("finish")
    /\ UNCHANGED <<inputs, durables, mem, at, clock, cancelled, reply, counters>>

DispatchRejected ==
    /\ pc = "attempt"
    /\ ~Held(mem.ledger, at, attempt) \/ (~PastDeadline(clock) /\ ~CanStart(mem.journal, at, attempt))
    /\ Raise
    /\ UNCHANGED <<inputs, durables, counters>>

\* min(configured operation timeout, remaining run time); NoLimit is infinite.
TimesOut(latency) ==
    \/ spec.operationTimeout # NoLimit /\ latency > spec.operationTimeout
    \/ deadline # NoLimit /\ latency > deadline - clock

\* FakeProvider.call and FakeTool.call: the clock moves by the whole latency
\* and a late answer becomes a timeout.
CallExternal ==
    /\ pc = "dispatched"
    /\ LET a == Answer(at, attempt)
       IN  /\ clock' = clock + a.latency
           /\ reply' = [status |-> IF TimesOut(a.latency) THEN "error" ELSE a.status,
                        empty |-> a.empty /\ ~TimesOut(a.latency),
                        code |-> IF TimesOut(a.latency) THEN "operation_timeout" ELSE a.code,
                        usage |-> a.usage]
    /\ calls' = [calls EXCEPT ![at][attempt] = @ + 1]
    /\ Goto("answered")
    /\ UNCHANGED <<inputs, durables, mem, at, cancelled, verdict, runs, cancels>>

\* Mutant of RecordUnknown: the run is not marked failed.
RecordUnknownOnly ==
    /\ pc = "answered"
    /\ reply.status = "unknown"
    /\ AppendEvent(OperationUnknown(at, attempt))
    /\ mem' = [mem EXCEPT !.journal = MarkUnknown(@, at)]
    /\ Goto("settle")
    /\ UNCHANGED <<inputs, at, clock, cancelled, reply, verdict, counters>>

RecordUnknown ==
    /\ pc = "answered"
    /\ reply.status = "unknown"
    /\ AppendEvent(OperationUnknown(at, attempt))
    /\ mem' = [mem EXCEPT !.journal = MarkUnknown(@, at)]
    /\ Conclude("failed", "unknown_outcome")
    /\ Goto("settle")
    /\ UNCHANGED <<inputs, at, clock, cancelled, reply, counters>>

\* The outcome is appended first and charged second: when the ledger refuses
\* the charge, the stream already holds the event.
RecordSuccess ==
    /\ pc = "answered"
    /\ reply.status \in {"success", "abstain"}
    /\ AppendEvent(OperationSucceeded(at, attempt, reply.usage, reply.status))
    /\ LET c == ChargeOf(at, attempt, "succeeded")
       IN  IF CanReconcile(mem.ledger, spec, c)
           THEN /\ mem' = [mem EXCEPT !.ledger = Reconcile(@, c),
                                      !.journal = MarkSucceeded(@, at)]
                /\ Goto("settle")
                /\ UNCHANGED <<at, clock, cancelled, reply, verdict>>
           ELSE Raise
    /\ UNCHANGED <<inputs, counters>>

FailureCode == IF reply.code = "none" THEN "tool_failure" ELSE reply.code

RecordFailure ==
    /\ pc = "answered"
    /\ reply.status = "error"
    /\ AppendEvent(OperationFailed(at, attempt, reply.usage, FailureCode))
    /\ LET c == ChargeOf(at, attempt, "failed_known")
       IN  IF CanReconcile(mem.ledger, spec, c)
           THEN /\ mem' = [mem EXCEPT !.ledger = Reconcile(@, c),
                                      !.journal = MarkFailed(@, at, FailureCode)]
                /\ Goto("settle")
                /\ UNCHANGED <<at, clock, cancelled, reply, verdict>>
           ELSE Raise
    /\ UNCHANGED <<inputs, counters>>

\* Every outcome is followed by an elapsed_recorded; the rest depends on it.
Settling == pc = "settle" /\ AppendEvent(ElapsedRecorded(clock, 0))

SettleUnknown ==
    /\ Settling
    /\ current.status = "outcome_unknown"
    /\ Goto("finish")
    /\ UNCHANGED <<inputs, mem, at, clock, cancelled, reply, verdict, counters>>

ReplanScenarios == {"insufficient_evidence", "single_replan_success", "replan_limit_exceeded"}

ReplyNeedsReplan ==
    /\ reply.status = "abstain" \/ (scenario = "insufficient_evidence" /\ reply.empty)
    /\ scenario \in ReplanScenarios

SettleSuccess ==
    /\ Settling
    /\ current.status = "succeeded"
    /\ IF ReplyNeedsReplan THEN Goto("replan") /\ UNCHANGED at ELSE MovedOn
    /\ UNCHANGED <<inputs, mem, clock, cancelled, reply, verdict, counters>>

ReplanAfterAnswer ==
    /\ pc = "replan"
    /\ DecideReplan
    /\ UNCHANGED <<inputs, clock, cancelled, reply, counters>>

\* The retry must end its backoff strictly before the deadline here, while the
\* loop head lets it end at the deadline.
SettleFailure ==
    /\ Settling
    /\ current.status = "failed_known"
    /\ IF ~Allows(current.error, attempt, cancelled, Remaining(clock), backoff)
       THEN Conclude("failed", current.error) /\ Goto("finish")
       ELSE IF PastDeadline(clock + DelayFor(backoff, attempt))
            THEN Conclude("failed", "run_deadline_exceeded") /\ Goto("finish")
            ELSE Goto("schedule") /\ UNCHANGED verdict
    /\ UNCHANGED <<inputs, mem, at, clock, cancelled, reply, counters>>

ScheduleRetry ==
    /\ pc = "schedule"
    /\ AppendEvent(RetryScheduled(at, attempt, DelayFor(backoff, attempt)))
    /\ Goto("backoff")
    /\ UNCHANGED <<inputs, mem, at, clock, cancelled, reply, verdict, counters>>

---------------------------------------------------------------------------
(* The end of run() *)

LoopExhausted ==
    /\ pc = "loop"
    /\ at > Len(Operations)
    /\ Goto("finish")
    /\ UNCHANGED <<inputs, durables, mem, at, clock, cancelled, reply, verdict, counters>>

\* Mutant of FinishLifecycle: only a complete run is closed.
FinishCompleteOnly ==
    /\ pc = "finish"
    /\ mem.status = "researching"
    /\ verdict.terminal = "complete"
    /\ LifecycleTo("validating") /\ Goto("validated")
    /\ UNCHANGED <<inputs, at, clock, cancelled, reply, verdict, counters>>

FinishLifecycle ==
    /\ pc = "finish"
    /\ mem.status = "researching"
    /\ IF verdict.terminal = "complete"
       THEN LifecycleTo("validating") /\ Goto("validated")
       ELSE LifecycleTo(verdict.terminal) /\ Goto("checkpoint")
    /\ UNCHANGED <<inputs, at, clock, cancelled, reply, verdict, counters>>

Complete ==
    /\ pc = "validated"
    /\ LifecycleTo("complete")
    /\ Goto("checkpoint")
    /\ UNCHANGED <<inputs, at, clock, cancelled, reply, verdict, counters>>

\* Only a run that is still researching is closed.
FinishWithoutLifecycle ==
    /\ pc = "finish"
    /\ mem.status # "researching"
    /\ Goto("checkpoint")
    /\ UNCHANGED <<inputs, durables, mem, at, clock, cancelled, reply, verdict, counters>>

\* Mutant of CheckpointView: the checkpoint is taken from the finished replay.
FinalizedView == Finalize(view)

\* The checkpoint is what the reducer says of the whole stream, without the
\* conclusions a replay draws at its end; the file is replaced atomically.
CheckpointView == view

WriteCheckpoint ==
    /\ pc = "checkpoint"
    /\ IF view.ok
       THEN /\ checkpoint' = [sequence |-> Len(stream), view |-> CheckpointView]
            /\ Goto("done")
            /\ UNCHANGED <<mem, at, clock, cancelled, reply, verdict>>
       ELSE Raise /\ UNCHANGED checkpoint
    /\ UNCHANGED <<inputs, stream, torn, view, counters>>

---------------------------------------------------------------------------
(* The environment *)

RequestCancel ==
    /\ Running
    /\ ~cancelled
    /\ cancels < MaxCancels
    /\ cancelled' = TRUE
    /\ cancels' = cancels + 1
    /\ UNCHANGED <<inputs, durables, pc, mem, at, clock, reply, verdict, calls, runs>>

Crash ==
    /\ Running
    /\ pc \in CrashPoints
    /\ runs < MaxRuns
    /\ Goto("down")
    /\ UNCHANGED <<inputs, durables, mem, at, clock, cancelled, reply, verdict, counters>>

\* The process dies inside an append, which leaves part of a line behind.
CrashWhileAppending ==
    /\ pc \in TornPoints
    /\ runs < MaxRuns
    /\ torn' = TRUE
    /\ Goto("down")
    /\ UNCHANGED <<inputs, stream, view, checkpoint, mem, at, clock, cancelled, reply, verdict,
                   counters>>

---------------------------------------------------------------------------

Init ==
    /\ scenario \in Scenarios
    /\ spec \in Specs
    /\ backoff \in Backoffs
    /\ stream = <<>>
    /\ torn = FALSE
    /\ view = InitialView
    /\ checkpoint = NoCheckpoint
    /\ pc = "down"
    /\ mem = [status |-> "brief_pending", ledger |-> EmptyLedger,
              journal |-> [op \in Ops |-> Absent]]
    /\ at = 1
    /\ clock = 0
    /\ cancelled = FALSE
    /\ reply = NoReply
    /\ verdict = NoVerdict
    /\ calls = [op \in Ops |-> [k \in 1..MaxAttempts |-> 0]]
    /\ runs = 0
    /\ cancels = 0

Looping ==
    \/ SkipSucceeded \/ RecoverReplan \/ GiveUp \/ CancelOperation
    \/ PlanOperation \/ TakeUpAttempt \/ RetryUnscheduled \/ RetryScheduledBefore

Attempting ==
    \/ Backoff \/ ReserveRetry \/ Dispatch \/ DispatchTooLate \/ DispatchRejected
    \/ CallExternal \/ RecordUnknown \/ RecordSuccess \/ RecordFailure
    \/ SettleUnknown \/ SettleSuccess \/ ReplanAfterAnswer \/ SettleFailure \/ ScheduleRetry

Finishing ==
    \/ LoopExhausted \/ FinishLifecycle \/ Complete \/ FinishWithoutLifecycle
    \/ WriteCheckpoint

\* The process, which runs on its own once started, and whoever starts it.
Execute == ApproveBrief \/ BeginResearch \/ Looping \/ Attempting \/ Finishing
Launch == Start \/ StartRejected

Next == Launch \/ Execute \/ RequestCancel \/ Crash \/ CrashWhileAppending

Spec == Init /\ [][Next]_vars

\* A process that is alive keeps running, and a run that was left is resumed
\* as long as the bound on processes allows.
FairSpec == Spec /\ WF_vars(Execute) /\ WF_vars(Launch)

---------------------------------------------------------------------------
(* Types *)

Attempts == 1..MaxAttempts

EventType ==
    {RunStarted}
    \cup [type : {"lifecycle_transition"}, from : RunStatus, to : RunStatus]
    \cup [type : {"operation_reserved"}, op : Ops, attempt : Attempts, kind : Kinds, usage : Usage]
    \cup [type : {"operation_dispatched", "operation_unknown", "operation_cancelled"},
          op : Ops, attempt : Attempts]
    \cup [type : {"operation_succeeded"}, op : Ops, attempt : Attempts, usage : Usage,
          status : {"success", "abstain"}]
    \cup [type : {"operation_failed"}, op : Ops, attempt : Attempts, usage : Usage, code : ErrorCode]
    \cup [type : {"retry_scheduled"}, op : Ops, attempt : Attempts, backoff : Nat]
    \cup [type : {"replan_decided"}, op : Ops, attempt : Attempts, admitted : BOOLEAN]
    \cup [type : {"elapsed_recorded"}, elapsed : Nat, backoff : Nat]

RecordType ==
    {Absent} \cup [attempt : Attempts, status : OperationStatus, error : ErrorCode \cup {"none"}]

JournalType == [Ops -> RecordType]

ViewType == [ok : BOOLEAN, status : RunStatus, ledger : LedgerType, journal : JournalType]

ControlPoints ==
    {"down", "done", "raised", "approve", "research", "loop", "backoff", "rereserve", "attempt",
     "dispatched", "answered", "settle", "replan", "schedule", "finish", "validated", "checkpoint"}

MemType == [status : RunStatus, ledger : LedgerType, journal : JournalType]

ReplyType == [status : AnswerStatus \cup {"none"}, empty : BOOLEAN,
              code : ErrorCode \cup {"none"}, usage : Usage]

VerdictType == [terminal : TERMINAL, error : ErrorCode \cup {"none"}]

InputsOK == scenario \in Scenarios /\ spec \in Specs /\ backoff \in Backoffs

DurablesOK ==
    /\ stream \in Seq(EventType)
    /\ torn \in BOOLEAN
    /\ view \in ViewType
    /\ checkpoint \in [sequence : Nat \cup {-1}, view : ViewType]

ProcessOK ==
    /\ pc \in ControlPoints
    /\ mem \in MemType
    /\ at \in Nat \ {0}
    /\ clock \in Nat
    /\ cancelled \in BOOLEAN
    /\ reply \in ReplyType
    /\ verdict \in VerdictType

CountersOK ==
    /\ calls \in [Ops -> [Attempts -> Nat]]
    /\ runs \in 0..MaxRuns
    /\ cancels \in 0..MaxCancels

\* Shape of every variable: the run's parameters, what is on disk, the memory
\* of the process (run) and the counters of the model.
TypeOK == InputsOK /\ DurablesOK /\ ProcessOK /\ CountersOK

---------------------------------------------------------------------------
(* Safety *)

EventsOf(type) == {i \in DOMAIN stream : stream[i].type = type}

Dispatched(op, n) ==
    \E i \in EventsOf("operation_dispatched") : stream[i].op = op /\ stream[i].attempt = n

\* An attempt is called at most once, whatever crashes and resumes, and its
\* dispatch is durable before the call (run, the dispatch of an attempt).
AtMostOneCall ==
    \A op \in Ops, n \in Attempts :
        /\ calls[op][n] <= 1
        /\ calls[op][n] = 1 => Dispatched(op, n)

\* What was dispatched over all processes, settled or lost, never exceeds the
\* limits on calls, and what was charged or is still held never exceeds the
\* limit on tokens (BudgetLedger, restored from the stream on resume).
CallsWithinBudget ==
    /\ \A kind \in Kinds :
         LET made == Cardinality({i \in EventsOf("operation_dispatched") :
                                    KindOf(stream[i].op) = kind})
         IN  Within(made, spec.maxAttempts[kind]) /\ Within(made, spec.maxCalls[kind])
    /\ Within(view.ledger.input + view.ledger.output + ReservedTokens(view.ledger), spec.maxTotal)

\* A journal without the error codes that attempts in progress carry over from
\* the attempt before; nothing reads them.
WithoutLeftovers(j) ==
    [op \in Ops |-> IF j[op].status = "reserved" THEN [j[op] EXCEPT !.error = "none"] ELSE j[op]]

\* While a process runs, its status, ledger and journal are those a replay of
\* its stream would give, apart from the elapsed time, which it reads from its
\* clock (run updates its own copies beside every append).
MemoryAgreesWithStream ==
    Running /\ view.ok =>
        /\ mem.status = view.status
        /\ [mem.ledger EXCEPT !.elapsed = view.ledger.elapsed] = view.ledger
        /\ WithoutLeftovers(Finalize(mem).journal) = WithoutLeftovers(Finalize(view).journal)

\* No process leaves a stream behind that the reducer rejects: whatever was
\* appended can be replayed.
StreamStaysReplayable == view.ok

\* The checkpoint on disk is the reduction of the prefix it names, which is
\* what replay_runtime_events compares it with, however the stream grows.
CheckpointAccepted ==
    checkpoint.sequence >= 0 =>
        checkpoint.view = ReducePrefix(stream, checkpoint.sequence, spec)

\* A run is complete only with every operation of its script succeeded, over
\* all the processes that worked on it.
CompleteOnlyIfAllSucceeded ==
    view.status = "complete" =>
        \A op \in DOMAIN Operations : view.journal[op].status = "succeeded"

\* A success that asks for a replan gets at most one decision, by the process
\* that saw it or by one that resumes, and the admitted ones fit the quota.
ReplanDecidedOnce ==
    LET decisions == EventsOf("replan_decided")
        admitted == {i \in decisions : stream[i].admitted}
    IN  /\ \A i, k \in decisions : stream[i].op = stream[k].op => i = k
        /\ Cardinality(admitted) <= spec.maxReplans
        /\ view.ok => view.ledger.replans = Cardinality(admitted)

\* Time the stream accounts for before event i.
ElapsedBefore(i) ==
    LET recorded == {stream[k].elapsed : k \in {k \in EventsOf("elapsed_recorded") : k < i}}
    IN  IF recorded = {} THEN 0 ELSE Max(recorded)

\* A retry is dispatched only after its backoff: some retry_scheduled of the
\* attempt before it precedes it, and the recorded time moved on by the delay
\* in between, also when the process that scheduled it is not the one that
\* dispatches it.
RetriesWaitOut ==
    \A k \in EventsOf("operation_dispatched") :
        stream[k].attempt > 1 =>
            \E i \in EventsOf("retry_scheduled") :
                /\ i < k
                /\ stream[i].op = stream[k].op /\ stream[i].attempt = stream[k].attempt - 1
                /\ ElapsedBefore(k) >= ElapsedBefore(i) + stream[i].backoff

\* Nothing is dispatched once the recorded time has reached the deadline: not
\* the attempt whose backoff a resumed process let end there, nor one that was
\* reserved in time by a process that died and is taken up too late.
NoneDispatchedTooLate ==
    deadline # NoLimit =>
        \A k \in EventsOf("operation_dispatched") : ElapsedBefore(k) < deadline

\* An attempt is dispatched in time: neither before its backoff nor after the
\* deadline, on the clock of the stream, whichever process dispatches it.
DispatchedInTime == RetriesWaitOut /\ NoneDispatchedTooLate

---------------------------------------------------------------------------
(* The promise of the protocol *)

SucceededOps == {op \in DOMAIN Operations : view.journal[op].status = "succeeded"}
DispatchedAttempts(op) ==
    {i \in EventsOf("operation_dispatched") : stream[i].op = op}
Frontier == Cardinality(SucceededOps) + 1

FrontierPhase ==
    LET status == view.journal[Frontier].status
    IN  IF Frontier > Len(Operations) THEN "settled"
        ELSE CASE status = "outcome_unknown" -> "lost"
               [] status = "started" /\ pc = "dispatched" -> "authorised"
               [] status = "started" /\ pc = "answered" -> "called"
               [] status = "started" /\ pc \notin {"dispatched", "answered"} -> "lost"
               [] OTHER -> "settled"

DD == INSTANCE DurableDispatch
        WITH length <- Len(Operations),
             done <- Cardinality(SucceededOps),
             tries <- Cardinality(DispatchedAttempts(Frontier)),
             phase <- FrontierPhase

\* The harness keeps the promise of durable dispatch: one attempt at a time,
\* in the order of the script, none after an outcome that was lost.
DispatchProtocol == DD!Spec

---------------------------------------------------------------------------
(* Liveness *)

\* Every process ends: it finishes, raises, or dies (no status of the journal
\* is left without a branch in the loop, and retries are bounded).
EveryProcessEnds == Running ~> ~Running

\* A run that is resumed until a process survives reaches a terminal status.
EveryRunTerminates == <>(view.status \in TERMINAL)

---------------------------------------------------------------------------
(* Statements of the documentation that the code does not keep *)

\* "If the decision is missing, controlled resume appends that same
\* deterministic decision once" (B03R2_REPLAY_BOUNDARIES.md:19): a complete
\* run has a decision for every success that asked for one.
MissingDecisionIsAppended ==
    view.status = "complete" /\ scenario \in ReplanScenarios =>
        \A op \in DOMAIN Operations :
            LET answer == Answer(op, view.journal[op].attempt)
            IN  answer.status = "abstain" \/ (scenario = "insufficient_evidence" /\ answer.empty)
                => \E i \in EventsOf("replan_decided") : stream[i].op = op

\* "It bounds ... retries" and "reservation checks happen before dispatch"
\* (EXECUTION_POLICIES_V1.md:11 and 13): no more retries are dispatched than
\* max_retries allows, counted as charge_attempt counts them.
RetriesWithinBudget ==
    Within(MapThenSumSet(LAMBDA i : stream[i].attempt - 1, EventsOf("operation_dispatched")),
           spec.maxRetries)

\* "test_replan_limit_remains_fail_closed_after_resume"
\* (test_deep_research_b03r2.py:169): a run whose replan was refused never
\* ends complete, also when another process resumes it.
RefusedReplanStands ==
    view.status = "complete" =>
        \A i \in EventsOf("replan_decided") : stream[i].admitted

\* "Cancellation is an idempotent signal checked before dispatch, after
\* attempts, before backoff/replan and before terminalization"
\* (EXECUTION_POLICIES_V1.md:17): once it is given no replan is admitted.
NoReplanOnceCancelled ==
    [][cancelled => \A i \in DOMAIN stream' \ DOMAIN stream :
                        stream'[i].type = "replan_decided" => ~stream'[i].admitted]_vars

=============================================================================
