------------------------------ MODULE FakeRuntime ------------------------------
(***************************************************************************)
(* The first execution harness (fake_runtime.py): it runs a scenario in    *)
(* memory, hands out the events of its policies and of its lifecycle, and  *)
(* can be interrupted after an operation and resumed from a snapshot. With *)
(* it the replay of those events (replay.py) and the checkpoints of a      *)
(* lifecycle (persistence.py).                                             *)
(***************************************************************************)
EXTENDS Naturals, Sequences, FiniteSets

CONSTANTS
    NoLimit,        \* a limit of BudgetSpec left at None
    FakeSpecs       \* the budgets a caller may give

\* Limits on replans and times are numbers, if they are set (BudgetSpec).
ASSUME FakeSpecsAssumption ==
    \A spec \in FakeSpecs : spec.maxReplans \in Nat /\ spec.operationTimeout \in Nat \cup {NoLimit}

Journal == INSTANCE OperationJournal
Budget == INSTANCE BudgetLedger
Policy == INSTANCE ExecutionPolicies WITH MaxAttempts <- 2
Script == INSTANCE FakeScenarios
Lifecycle == INSTANCE RunLifecycle

VARIABLES
    fakePc,         \* where run_async is: "idle", "operation", "attempt", "decide", "finish", "raised", "interrupted", "done"
    fakeRun,        \* [scenario, spec, interrupt, kept]; interrupt 0 for none; kept: spec is the one the run began with
    fakeAt,         \* [index, attempt, completed]
    fakeCancelled,  \* the token was requested
    fakeClock,      \* seconds; the deadline of the run is in fakeRun.spec, from 0
    fakeLedger, fakeJournal,
    fakeEvents,     \* the policy events
    fakeLifecycle,  \* the statuses the run went through
    fakeCalls,      \* <<operation, attempt>> of every call of the provider or the tool
    fakeEnd         \* [terminal, error]
fakeVars == <<fakePc, fakeRun, fakeAt, fakeCancelled, fakeClock, fakeLedger, fakeJournal, fakeEvents,
              fakeLifecycle, fakeCalls, fakeEnd>>

DefaultSpec ==
    [maxAttempts |-> [k \in {"provider", "tool"} |-> 4], maxCalls |-> [k \in {"provider", "tool"} |-> 4],
     maxInput |-> NoLimit, maxOutput |-> NoLimit, maxTotal |-> 100, maxRetries |-> NoLimit, maxReplans |-> 1,
     runTimeout |-> 10, operationTimeout |-> 1]
SpecFor(scenario) ==
    IF scenario = "budget_exhausted"
    THEN [DefaultSpec EXCEPT !.maxCalls = [k \in {"provider", "tool"} |-> IF k = "tool" THEN 1 ELSE 0]]
    ELSE DefaultSpec

Operations == Script!scenario_operations[fakeRun.scenario]
Operation == Operations[fakeAt.index]
EmptyJournal == [op \in 1..3 |-> Journal!Absent]
Ongoing == [terminal |-> "complete", error |-> "none"]
End(terminal, error) == [terminal |-> terminal, error |-> error]
PolicyEvent(type, outcome, code) ==
    [type |-> type, op |-> fakeAt.index, attempt |-> fakeAt.attempt, outcome |-> outcome, code |-> code,
     kind |-> Operation.kind, usage |-> Operation.answers[fakeAt.attempt].usage]

FakeInit ==
    /\ fakePc = "idle" /\ fakeAt = [index |-> 1, attempt |-> 1, completed |-> 0]
    /\ \/ fakeRun \in [scenario : DOMAIN Script!scenario_operations, spec : FakeSpecs, interrupt : 0..2, kept : {TRUE}]
       \/ \E scenario \in DOMAIN Script!scenario_operations, interrupt \in 0..2 :
            fakeRun = [scenario |-> scenario, spec |-> SpecFor(scenario), interrupt |-> interrupt, kept |-> TRUE]
    /\ fakeCancelled = FALSE /\ fakeClock = 0 /\ fakeLedger = Budget!EmptyLedger /\ fakeJournal = EmptyJournal
    /\ fakeEvents = <<>> /\ fakeLifecycle = <<"brief_pending">> /\ fakeCalls = <<>> /\ fakeEnd = Ongoing

FakeBegins ==
    /\ fakePc = "idle" /\ fakePc' = "operation"
    /\ fakeLifecycle' = <<"brief_pending", "brief_approved", "researching">>
    /\ UNCHANGED <<fakeRun, fakeAt, fakeCancelled, fakeClock, fakeLedger, fakeJournal, fakeEvents, fakeCalls, fakeEnd>>

\* The token is read only before an operation, and its holder may request it at any time.
FakeCancels ==
    /\ fakePc \in {"operation", "attempt", "decide"} /\ ~fakeCancelled /\ fakeCancelled' = TRUE
    /\ UNCHANGED <<fakePc, fakeRun, fakeAt, fakeClock, fakeLedger, fakeJournal, fakeEvents, fakeLifecycle, fakeCalls, fakeEnd>>

Overdue == fakeRun.spec.runTimeout # NoLimit /\ fakeClock >= fakeRun.spec.runTimeout
FakePlans ==
    LET cancelled == fakeCancelled \/ (fakeRun.scenario = "cancel_before_next_call" /\ fakeAt.index = 2)
        planned == Journal!Present(fakeJournal, fakeAt.index)
    IN  /\ fakePc = "operation"
        /\ CASE fakeAt.index > Len(Operations) ->
                    fakePc' = "finish" /\ UNCHANGED <<fakeCancelled, fakeJournal, fakeEvents, fakeEnd>>
             [] fakeAt.index <= Len(Operations) /\ (cancelled \/ Overdue) ->
                    /\ fakePc' = "finish" /\ fakeCancelled' = cancelled
                    /\ fakeEnd' = End("failed", IF cancelled THEN "cancelled" ELSE "run_deadline_exceeded")
                    /\ UNCHANGED <<fakeJournal, fakeEvents>>
             [] fakeAt.index <= Len(Operations) /\ ~cancelled /\ ~Overdue ->
                    /\ fakePc' = "attempt"
                    /\ fakeJournal' = IF planned THEN fakeJournal ELSE Journal!Add(fakeJournal, fakeAt.index, 1)
                    /\ fakeEvents' = IF planned THEN fakeEvents
                                     ELSE Append(fakeEvents, PolicyEvent("operation_planned", "planned", "none"))
                    /\ UNCHANGED <<fakeCancelled, fakeEnd>>
        /\ UNCHANGED <<fakeRun, fakeAt, fakeClock, fakeLedger, fakeLifecycle, fakeCalls>>

\* What an answer means: an answer later than the timeout is an error whatever it says.
Late(answer) == fakeRun.spec.operationTimeout # NoLimit /\ answer.latency > fakeRun.spec.operationTimeout
Outcome(answer) ==
    CASE Late(answer) -> <<"failed_known", "operation_timeout">>
      [] ~Late(answer) /\ answer.status = "unknown" -> <<"outcome_unknown", "unknown_outcome">>
      [] ~Late(answer) /\ answer.status = "error" -> <<"failed_known", answer.code>>
      [] ~Late(answer) /\ answer.status \in {"success", "abstain"} -> <<"succeeded", "none">>

\* A later attempt is in the journal before its budget is asked for, and no event says so.
Attempted ==
    IF fakeAt.attempt = 1 THEN fakeJournal
    ELSE Journal!NewAttempt(fakeJournal, fakeAt.index, fakeAt.attempt, "planned", fakeJournal[fakeAt.index].error)
Reservation == [op |-> fakeAt.index, attempt |-> fakeAt.attempt, kind |-> Operation.kind,
                usage |-> Operation.answers[fakeAt.attempt].usage]
Reserves == Budget!CanReserve(fakeLedger, fakeRun.spec, Reservation) = TRUE
FakeRefused ==
    /\ fakePc = "attempt" /\ ~Reserves
    /\ fakePc' = "finish" /\ fakeEnd' = End("failed", "budget_exhausted") /\ fakeJournal' = Attempted
    /\ UNCHANGED <<fakeRun, fakeAt, fakeCancelled, fakeClock, fakeLedger, fakeEvents, fakeLifecycle, fakeCalls>>

\* What follows a failed attempt: a retry, or the end. Forever is longer than any delay.
Forever == 1000
FailureEnd(code, clock) ==
    LET remaining == IF fakeRun.spec.runTimeout = NoLimit THEN Forever
                     ELSE IF clock >= fakeRun.spec.runTimeout THEN 0 ELSE fakeRun.spec.runTimeout - clock
    IN  IF remaining = 0 THEN End("failed", "run_deadline_exceeded")
        ELSE IF Policy!Allows(code, fakeAt.attempt, FALSE, remaining, <<>>) THEN Ongoing
        ELSE End("failed", code)

\* Reservation, call, charge and outcome. A retry above max_retries raises out of the harness
\* after its call.
FakeAttempts ==
    LET answer == Operation.answers[fakeAt.attempt]
        outcome == Outcome(answer)
        charge == [op |-> fakeAt.index, attempt |-> fakeAt.attempt, kind |-> Operation.kind, usage |-> answer.usage,
                   outcome |-> outcome[1]]
        reserved == Budget!Reserve(fakeLedger, Reservation)
        started == Journal!StartOp(Attempted, fakeAt.index, fakeAt.attempt)
        after == CASE outcome[1] = "succeeded" -> Ongoing
                   [] outcome[1] = "outcome_unknown" -> End("failed", "unknown_outcome")
                   [] outcome[1] = "failed_known" -> FailureEnd(outcome[2], fakeClock + answer.latency)
        Outcomes == [succeeded |-> "operation_succeeded", outcome_unknown |-> "operation_unknown", failed_known |-> "operation_failed"]
    IN  /\ fakePc = "attempt" /\ Reserves
        /\ fakeClock' = fakeClock + answer.latency
        /\ fakeCalls' = Append(fakeCalls, <<fakeAt.index, fakeAt.attempt>>)
        /\ IF ~Budget!CanReconcile(reserved, fakeRun.spec, charge)
           THEN /\ fakePc' = "raised" /\ fakeJournal' = started
                /\ fakeEvents' = Append(fakeEvents, PolicyEvent("operation_started", "started", "none"))
                /\ UNCHANGED <<fakeAt, fakeLedger, fakeEnd>>
           ELSE /\ fakeLedger' = Budget!Reconcile(reserved, charge)
                /\ fakeJournal' = Journal!SetStatus(started, fakeAt.index, outcome[1], outcome[2])
                /\ fakeEvents' = fakeEvents \o <<PolicyEvent("operation_started", "started", "none"),
                        PolicyEvent("attempt_charged", outcome[1], outcome[2]),
                        PolicyEvent(Outcomes[outcome[1]], outcome[1], outcome[2])>>
                /\ fakeEnd' = after
                /\ fakePc' = IF after # Ongoing THEN "finish" ELSE IF outcome[1] = "succeeded" THEN "decide" ELSE "attempt"
                /\ fakeAt' = IF outcome[1] = "succeeded" THEN [fakeAt EXCEPT !.completed = @ + 1]
                             ELSE IF after = Ongoing THEN [fakeAt EXCEPT !.attempt = @ + 1] ELSE fakeAt
        /\ UNCHANGED <<fakeRun, fakeCancelled, fakeLifecycle>>

\* After an operation: the replan of the scenarios that have one, the limit, the interruption.
Replans == fakeAt.index = 1 /\ fakeRun.scenario \in {"insufficient_evidence", "single_replan_success", "replan_limit_exceeded"}
FakeDecides ==
    LET admitted == Replans /\ fakeRun.spec.maxReplans >= 1
        end == CASE Replans /\ ~admitted -> End("insufficient_evidence", "budget_exhausted")
                 [] admitted /\ fakeRun.scenario = "insufficient_evidence" -> End("insufficient_evidence", "grounding_rejected")
                 [] ~Replans /\ fakeRun.scenario = "replan_limit_exceeded" -> End("insufficient_evidence", "budget_exhausted")
                 [] OTHER -> Ongoing
        interrupted == fakeRun.interrupt # 0 /\ fakeAt.completed >= fakeRun.interrupt
    IN  /\ fakePc = "decide" /\ fakeEnd' = end
        /\ fakeLedger' = IF admitted THEN Budget!RecordReplan(fakeLedger) ELSE fakeLedger
        /\ fakeEvents' = IF admitted THEN Append(fakeEvents, PolicyEvent("replan_decided", "admitted", "none")) ELSE fakeEvents
        /\ fakePc' = IF end # Ongoing THEN "finish" ELSE IF interrupted THEN "interrupted" ELSE "operation"
        /\ fakeAt' = [fakeAt EXCEPT !.index = @ + 1, !.attempt = 1]
        /\ UNCHANGED <<fakeRun, fakeCancelled, fakeClock, fakeJournal, fakeLifecycle, fakeCalls>>

\* Mutant: the run resumes at the operation it was interrupted after.
ResumeIndexAgain == fakeAt.index - 1
ResumeIndex == fakeAt.index

\* A new harness with the spec of the scenario and a token of its own takes the snapshot over.
FakeResumes ==
    /\ fakePc = "interrupted" /\ fakePc' = "operation"
    /\ fakeRun' = [fakeRun EXCEPT !.spec = SpecFor(fakeRun.scenario), !.interrupt = 0, !.kept = @ /\ fakeRun.spec = SpecFor(fakeRun.scenario)]
    /\ fakeCancelled' = FALSE /\ fakeAt' = [index |-> ResumeIndex, attempt |-> 1, completed |-> 0]
    /\ UNCHANGED <<fakeClock, fakeLedger, fakeJournal, fakeEvents, fakeLifecycle, fakeCalls, fakeEnd>>

FakeFinishes ==
    /\ fakePc = "finish" /\ fakePc' = "done"
    /\ fakeLifecycle' = fakeLifecycle \o
        (IF fakeEnd.terminal = "complete" THEN <<"validating", "complete">> ELSE <<fakeEnd.terminal>>)
    /\ UNCHANGED <<fakeRun, fakeAt, fakeCancelled, fakeClock, fakeLedger, fakeJournal, fakeEvents, fakeCalls, fakeEnd>>

FakeNext ==
    \/ FakeBegins \/ FakeCancels \/ FakePlans \/ FakeRefused \/ FakeAttempts
    \/ FakeDecides \/ FakeResumes \/ FakeFinishes

---------------------------------------------------------------------------
(* Replay *)

\* replay_policy_events: ledger and journal out of the events; ok is FALSE where it raises.
ReplayStep(at, e, spec) ==
    LET charge == [op |-> e.op, attempt |-> e.attempt, kind |-> e.kind, usage |-> e.usage, outcome |-> e.outcome]
        moved == IF at.journal[e.op].attempt = e.attempt THEN at.journal
                 ELSE Journal!NewAttempt(at.journal, e.op, e.attempt, "planned", at.journal[e.op].error)
    IN  CASE e.type = "operation_planned" -> [at EXCEPT !.journal = Journal!Add(@, e.op, e.attempt)]
          [] e.type = "operation_started" ->
                [at EXCEPT !.journal = Journal!StartOp(moved, e.op, e.attempt), !.ok = @ /\ Journal!CanStart(moved, e.op, e.attempt)]
          [] e.type \in {"operation_succeeded", "operation_failed", "operation_unknown"} ->
                [at EXCEPT !.journal = Journal!SetStatus(@, e.op, e.outcome, e.code),
                           !.ok = @ /\ Journal!CanMark(at.journal, e.op, e.attempt)]
          [] e.type = "attempt_charged" ->
                [at EXCEPT !.ledger = Budget!Reconcile(@, charge),
                           !.ok = @ /\ Budget!CanReconcile(at.ledger, spec, charge)]
          [] e.type = "replan_decided" ->
                [at EXCEPT !.ledger = Budget!RecordReplan(@), !.ok = @ /\ Budget!CanRecordReplan(at.ledger, spec)]
ReplayStart == [ledger |-> Budget!EmptyLedger, journal |-> EmptyJournal, ok |-> TRUE]
ReplayOf(events, spec) ==
    LET after[i \in 0..Len(events)] == IF i = 0 THEN ReplayStart ELSE ReplayStep(after[i - 1], events[i], spec)
    IN  after[Len(events)]
Replayed == ReplayOf(fakeEvents, fakeRun.spec)

\* replay_events and recover_state: from a state known to be that of the first n events, or
\* from the beginning; "raises" when an event does not follow from the state before it.
ReplayLifecycle(from, statuses) ==
    LET steps == <<from>> \o statuses
    IN  IF \A i \in 1..Len(statuses) : Lifecycle!CanTransition(steps[i], steps[i + 1])
        THEN steps[Len(steps)] ELSE "raises"
RecoverState(checkpoint, statuses) ==
    IF ReplayLifecycle("brief_pending", SubSeq(statuses, 1, checkpoint.applied)) # checkpoint.status THEN "raises"
    ELSE ReplayLifecycle(checkpoint.status, SubSeq(statuses, checkpoint.applied + 1, Len(statuses)))

---------------------------------------------------------------------------
(* Properties *)

\* What the harness hands out is what happened: at every point the policy events replay into
\* its own ledger and journal, but for a retry that was planned and refused, and under the
\* budget of the run unless a resumption replaced it by another; the lifecycle is recovered from a checkpoint taken at any of its events; no attempt
\* is called twice, interrupted and resumed or not, and each call is charged, but for one whose
\* charge raised; what succeeded is not asked for again; and a run is complete only with every operation succeeded.
FakeRunReplays ==
    LET replayed == Replayed
        statuses == Tail(fakeLifecycle)
        last == fakeLifecycle[Len(fakeLifecycle)]
    IN  /\ (fakeRun.kept => replayed.ok) /\ replayed.ledger = fakeLedger
        /\ \A op \in DOMAIN fakeJournal :
            \/ replayed.journal[op] = fakeJournal[op]
            \/ /\ fakeEnd.error = "budget_exhausted" /\ fakeJournal[op].status = "planned"
               /\ replayed.journal[op].status = "failed_known"
        /\ \A n \in 0..Len(statuses) : RecoverState([applied |-> n, status |-> fakeLifecycle[n + 1]], statuses) = last
        /\ Cardinality({fakeCalls[i] : i \in DOMAIN fakeCalls}) = Len(fakeCalls)
        /\ Cardinality(fakeLedger.charges) = IF fakePc = "raised" THEN Len(fakeCalls) - 1 ELSE Len(fakeCalls)
        /\ (fakeEnd.error = "budget_exhausted" /\ fakeAt.index \in DOMAIN Operations)
                => fakeJournal[fakeAt.index].status # "succeeded"
        /\ last = "complete" => \A op \in DOMAIN Operations : fakeJournal[op].status = "succeeded"
=============================================================================
