--------------------------- MODULE ResearchPipeline ---------------------------
(***************************************************************************)
(* The composed research run: planner, local executor, gap assessment and  *)
(* single writer share one durable stream (e2e.py, executor.py, writer.py, *)
(* gap_replan.py). A handler is a list of writes, done one by one, so that *)
(* the process may die between any two of them; the next call of run()     *)
(* starts from what is durable. The same process can also be entered at    *)
(* the executor or at the writer, as the offline callers do.               *)
(***************************************************************************)
EXTENDS RuntimeReducer, ReportValidation

CONSTANTS
    MaxSubtasks,    \* subtasks of a plan
    Configs,        \* the calls that are made: entry point, scope, budget...
    Drafts,         \* what the writer's model may answer
    Usages,         \* the usage a provider may report
    ReservedUsage,  \* what is reserved for a provider call
    MaxRuns,        \* calls of run(), the first one included
    Nothing         \* no file, no candidate

\* What a caller may ask for: one of the three entry points, a plan that keeps
\* to the limit of subtasks, candidates that name passages, a limit on replans.
ASSUME PipelineAssumption ==
    /\ MaxSubtasks \in Nat
    /\ \A c \in Configs :
          /\ c.entry \in {"runner", "executor", "writer"}
          /\ c.plan \in Seq(Sources \cup {Nothing}) /\ Len(c.plan) <= MaxSubtasks
          /\ \A s \in DOMAIN c.candidates :
                c.candidates[s] \in Seq([passage : Passages, exact : BOOLEAN])
          /\ c.spec.maxReplans \in Nat
    /\ \A c \in Configs :    \* the composed run chooses no candidates
          c.entry = "runner" => DOMAIN c.candidates = {}
    /\ Nothing \notin [passage : Passages, exact : BOOLEAN]

VARIABLES
    config,         \* the configuration of the run, chosen once
    stream,         \* the durable runtime stream
    view,           \* what reducing the stream gives
    disk,           \* the artifact files
    proc,           \* the running process: writes to do, then a place to go on
    calls,          \* how many times each operation was really invoked
    returned,       \* what the calls of run() gave their caller
    runs            \* calls of run() so far
vars == <<config, stream, view, disk, proc, calls, returned, runs>>

---------------------------------------------------------------------------
(* Operations of the stream. A tool operation is identified by its subtask *)
(* and its request; the search of a subtask asks its question.             *)

Planner == <<"planner">>
Writer == <<"writer">>
Search(s) == <<"search", s>>
Read(s, p) == <<"read", s, p>>

PipelineOps ==
    {Planner, Writer} \cup {Search(s) : s \in 1..MaxSubtasks}
        \cup {Read(s, p) : s \in 1..MaxSubtasks, p \in Passages}

\* The journal has an entry for each of them.
ASSUME OpsAssumption == PipelineOps \subseteq Ops

NoUsage == [input |-> 0, output |-> 0]
Reserve1(op) ==
    OperationReserved(op, 1, IF op \in {Planner, Writer} THEN "provider" ELSE "tool",
                      IF op \in {Planner, Writer} THEN ReservedUsage ELSE NoUsage)

\* The elapsed_recorded event that refers to the artifacts of the run.
ArtifactsRecorded(refs) ==
    [type |-> "elapsed_recorded", elapsed |-> 1, backoff |-> 0, artifacts |-> refs]

Events == {stream[i] : i \in DOMAIN stream}
SucceededIn(op) == {e \in Events : e.type = "operation_succeeded" /\ e.op = op}
ArtifactRefs == {e.artifacts : e \in {f \in Events : "artifacts" \in DOMAIN f}}

\* replay_runtime_events finds an operation that is started or unknown.
NeedsManualReview == \E op \in Ops : view.journal[op].status \in {"started", "outcome_unknown"}

---------------------------------------------------------------------------
(* The process. Besides events, a handler writes files, reduces the stream *)
(* it has just extended, and replays it into a checkpoint.                 *)

File(name, content) == [type |-> "file", name |-> name, content |-> content]
Reduce(code) == [type |-> "reduce", code |-> code]
Checkpoint == Reduce("rejected")

Idle == [todo |-> <<>>, next |-> "idle", subtask |-> 0, plan |-> <<>>, graph |-> <<>>,
         reads |-> <<>>, last |-> Nothing, result |-> "none"]

At(place) == proc.next = place /\ proc.todo = <<>>
Goto(todo, place) == proc' = [proc EXCEPT !.todo = todo, !.next = place]

Report(status) == [kind |-> "report", value |-> status]
Error(code) == [kind |-> "error", value |-> code]
Give(answer) == returned' = returned \cup {answer} /\ proc' = Idle

Raise(todo, code) == proc' = [proc EXCEPT !.todo = todo, !.next = "raise", !.result = code]

\* Mutant of Dispatch: the reservation is not reduced before the dispatch.
DispatchUnchecked(op, code) == <<Reserve1(op), OperationDispatched(op, 1)>>

Dispatch(op, code) == <<Reserve1(op), Reduce(code), OperationDispatched(op, 1)>>

\* A refused tool is a stage failure of the composed run, and the reduction
\* that would record it raises on the reservation that was refused.
DispatchTool(op) ==
    Dispatch(op, IF config.entry = "runner" THEN "rejected" ELSE "budget_exhausted")

Elapsed == ElapsedRecorded(1, 0)
Failed == Lifecycle("researching", "failed")

\* Mutant of Terminalize: the run is left researching.
TerminalizeQuietly == <<Reduce("rejected"), Checkpoint>>

\* _terminalize_stage_failure, for the stages between the providers. The
\* offline callers of the executor get the exception and nothing is written.
Terminalize ==
    IF config.entry # "runner" THEN <<>>
    ELSE <<Reduce("rejected")>>
         \o (IF view.status \in TERMINAL THEN <<>> ELSE <<Elapsed, Failed>>)
         \o <<Checkpoint>>

Stage(todo, code) == Raise(todo \o Terminalize, code)

---------------------------------------------------------------------------
(* Doing the writes *)

Work == Head(proc.todo)
Done == proc' = [proc EXCEPT !.todo = Tail(@)]

Write(event) ==
    /\ stream' = Append(stream, event)
    /\ view' = ReduceEvent(view, event, config.spec)

AppendEvent ==
    /\ proc.todo # <<>> /\ Work.type \notin {"file", "reduce"}
    /\ Write(Work)
    /\ Done
    /\ UNCHANGED <<config, disk, calls, returned, runs>>

\* _write_json_artifact replaces the file in one step.
WriteArtifact ==
    /\ proc.todo # <<>> /\ Work.type = "file"
    /\ disk' = [disk EXCEPT ![Work.name] = Work.content]
    /\ Done
    /\ UNCHANGED <<config, stream, view, calls, returned, runs>>

\* reduce_runtime_events and replay_runtime_events raise on a stream they do
\* not accept, and the exception leaves run().
ReduceStream ==
    /\ proc.todo # <<>> /\ Work.type = "reduce"
    /\ IF view.ok THEN Done /\ UNCHANGED returned ELSE Give(Error(Work.code))
    /\ UNCHANGED <<config, stream, view, disk, calls, runs>>

Return ==
    /\ \/ At("return") /\ Give(Report(proc.result))
       \/ At("raise") /\ Give(Error(proc.result))
    /\ UNCHANGED <<config, stream, view, disk, calls, runs>>

---------------------------------------------------------------------------
(* run(): what the durable stream says decides where a call starts.        *)

RunStartedEvents == <<RunStarted, Lifecycle("brief_pending", "brief_approved"),
                      Lifecycle("brief_approved", "researching")>>

Enter(todo, place) == proc' = [Idle EXCEPT !.todo = todo, !.next = place]
Refuse(code) == Give(Error(code))

StoredPlan == (CHOOSE e \in SucceededIn(Planner) : TRUE).status
StoredReport == (CHOOSE e \in SucceededIn(Writer) : TRUE).status

\* _read_hashed_json, for the three files the writer is given again.
ArtifactsIntact ==
    \A refs \in ArtifactRefs :
        /\ disk["plan"] = StoredPlan
        /\ disk["graph"] = refs.graph
        /\ disk["assessment"] = refs.assessment

\* The planner's result is durable and the writer's is not.
ResumeAtWriter ==
    \/ /\ ArtifactRefs = {} \/ ~ArtifactsIntact
       /\ Refuse("artifacts_missing")
    \/ /\ ArtifactRefs # {} /\ ArtifactsIntact
       /\ IF config.allowed = {} \/ MatchesAllowlist(disk["graph"], config.allowed)
          THEN proc' = [Idle EXCEPT !.next = "writer", !.plan = StoredPlan,
                                    !.graph = disk["graph"]]
          ELSE Stage(<<>>, "cross_paper_source_selection_mismatch")
       /\ UNCHANGED returned

RunComposed ==
    /\ config.entry = "runner"
    /\ \/ /\ SucceededIn(Planner) # {} /\ SucceededIn(Writer) # {}
          /\ Give(Report(StoredReport))
       \/ /\ SucceededIn(Planner) # {} /\ SucceededIn(Writer) = {}
          /\ ResumeAtWriter
       \/ /\ stream # <<>> /\ SucceededIn(Planner) = {}
          /\ Refuse(IF ~view.ok THEN "rejected" ELSE IF NeedsManualReview
                    THEN "outcome_unknown" ELSE "unexpected_nonempty_stream")
       \/ /\ stream = <<>>
          /\ Enter(RunStartedEvents \o Dispatch(Planner, "rejected"), "planning")
          /\ UNCHANGED returned

\* execute, called on its own or by the composed run (StartExecution).
ExecutionWrites == IF stream = <<>> THEN RunStartedEvents ELSE <<>>
Executable == stream = <<>> \/ (view.ok /\ view.status = "researching")

RunExecutor ==
    /\ config.entry = "executor"
    /\ IF Executable
       THEN /\ proc' = [Idle EXCEPT !.todo = ExecutionWrites, !.next = "subtask",
                                    !.subtask = 1, !.plan = config.plan]
            /\ UNCHANGED returned
       ELSE Refuse(IF view.ok THEN "plan_not_executable" ELSE "rejected")

RunWriter ==
    /\ config.entry = "writer"
    /\ proc' = [Idle EXCEPT !.next = "writer", !.plan = config.plan, !.graph = config.graph]
    /\ UNCHANGED returned

Run ==
    /\ proc = Idle /\ runs < MaxRuns
    /\ runs' = runs + 1
    /\ RunComposed \/ RunExecutor \/ RunWriter
    /\ UNCHANGED <<config, stream, view, disk, calls>>

---------------------------------------------------------------------------
(* Planner *)

Called(op) == calls' = [calls EXCEPT ![op] = @ + 1]

FailedTail == <<Elapsed, Failed, Checkpoint>>

\* Sources a routed plan may name, Nothing for a subtask without a route.
Routes == IF config.allowed = {} THEN {Nothing} ELSE SourcesOf(config.allowed) \cup {Nothing}
Plans == UNION {[1..n -> Routes] : n \in 1..MaxSubtasks}
Unrouted(plan) == config.allowed # {} /\ \E s \in DOMAIN plan : plan[s] = Nothing

PlannerFails ==
    \/ \E usage \in Usages :
          Raise(<<OperationFailed(Planner, 1, usage, "planner_failed")>> \o FailedTail,
                "planner_failed")
    \/ Raise(<<OperationUnknown(Planner, 1)>> \o FailedTail, "outcome_unknown")

PlannerReturns ==
    \E plan \in Plans, usage \in Usages :
        IF Unrouted(plan)
        THEN Stage(<<File("plan", plan)>>, "cross_paper_source_selection_mismatch")
        ELSE proc' = [proc EXCEPT
                !.todo = <<File("plan", plan)>>
                         \o (IF config.allowed = {} THEN <<>> ELSE <<File("routing", plan)>>)
                         \o <<OperationSucceeded(Planner, 1, usage, plan), Elapsed, Checkpoint>>,
                !.next = "execute", !.plan = plan]

PlannerAnswers ==
    /\ At("planning")
    /\ Called(Planner)
    /\ PlannerFails \/ PlannerReturns
    /\ UNCHANGED <<config, stream, view, disk, returned, runs>>

---------------------------------------------------------------------------
(* Executor *)

StartExecution ==
    /\ At("execute")
    /\ IF Executable THEN proc' = [proc EXCEPT !.next = "subtask", !.subtask = 1]
       ELSE Stage(<<>>, "plan_not_executable")
    /\ UNCHANGED <<config, stream, view, disk, calls, returned, runs>>

\* Dependencies come first in the plan's order, so the refusal of an
\* unsatisfied one is never met. A finished execution is replayed and
\* checkpointed before its graph is built.
StartSubtask ==
    /\ At("subtask")
    /\ \/ /\ proc.subtask > Len(proc.plan)
          /\ Goto(<<Checkpoint>>, "graph")
       \/ /\ proc.subtask <= Len(proc.plan) /\ config.cancelled
          /\ Stage(<<>>, "cancelled")
       \/ /\ proc.subtask <= Len(proc.plan) /\ ~config.cancelled
          /\ Goto(DispatchTool(Search(proc.subtask)), "search")
    /\ UNCHANGED <<config, stream, view, disk, calls, returned, runs>>

\* _tool: a known failure, or a timeout after the dispatch.
ToolFails(op) ==
    \/ Stage(<<OperationFailed(op, 1, NoUsage, "tool_failure")>>, "tool_failure")
    \/ Stage(<<OperationUnknown(op, 1)>>, "unknown_outcome")

ToolSucceeded(op) == <<OperationSucceeded(op, 1, NoUsage, "success")>>

Candidate(p, exact) == [passage |-> p, exact |-> exact]
Chosen(hit) ==
    IF proc.subtask \in DOMAIN config.candidates THEN config.candidates[proc.subtask]
    ELSE <<Candidate(hit, TRUE)>>

\* Passages a scoped search can find, and those of its hits that remain.
InScope == {p \in Passages : proc.plan[proc.subtask] \in {Nothing, SourceOf[p]}}
Kept(hits) == IF config.allowed = {} THEN hits ELSE hits \cap config.allowed

\* Mutant of SearchFinds: a subtask without a hit keeps the evidence of the last one.
SearchFindsAnything(hits) ==
    \/ hits = {} /\ Goto(ToolSucceeded(Search(proc.subtask)), "anchor")
    \/ \E hit \in Kept(hits) :
          proc' = [proc EXCEPT !.todo = ToolSucceeded(Search(proc.subtask)),
                               !.next = IF Chosen(hit) = <<>> THEN "anchor" ELSE "read",
                               !.reads = Chosen(hit)]

\* What the executor does with the hits of a search.
SearchFinds(hits) ==
    \/ /\ hits = {}
       /\ Stage(ToolSucceeded(Search(proc.subtask)), "source_not_found")
    \/ /\ hits # {} /\ Kept(hits) = {}
       /\ Stage(ToolSucceeded(Search(proc.subtask)), "selected_source_evidence_missing")
    \/ \E hit \in Kept(hits) :
          proc' = [proc EXCEPT !.todo = ToolSucceeded(Search(proc.subtask)),
                               !.next = IF Chosen(hit) = <<>> THEN "anchor" ELSE "read",
                               !.reads = Chosen(hit)]

SearchAnswers ==
    /\ At("search")
    /\ Called(Search(proc.subtask))
    /\ ToolFails(Search(proc.subtask)) \/ \E hits \in SUBSET InScope : SearchFinds(hits)
    /\ UNCHANGED <<config, stream, view, disk, returned, runs>>

Reading == Read(proc.subtask, Head(proc.reads).passage)

StartRead ==
    /\ At("read")
    /\ IF config.allowed # {} /\ Head(proc.reads).passage \notin config.allowed
       THEN Stage(<<>>, "cross_paper_source_selection_mismatch")
       ELSE Goto(DispatchTool(Reading), "reading")
    /\ UNCHANGED <<config, stream, view, disk, calls, returned, runs>>

\* The candidates are read one after the other, and what is left in the
\* variables of the loop is the last of them.
ReadAnswers ==
    /\ At("reading")
    /\ Called(Reading)
    /\ \/ ToolFails(Reading)
       \/ proc' = [proc EXCEPT !.todo = ToolSucceeded(Reading), !.reads = Tail(@),
                               !.last = Head(proc.reads),
                               !.next = IF Len(proc.reads) = 1 THEN "anchor" ELSE "read"]
    /\ UNCHANGED <<config, stream, view, disk, returned, runs>>

\* The evidence build_evidence makes of a candidate that resolves.
Unit(candidate) == {candidate.passage}

\* Mutant of Anchor: an empty list of candidates is not met.
AnchorBound ==
    /\ At("anchor") /\ proc.last # Nothing
    /\ IF proc.last.exact
       THEN proc' = [proc EXCEPT !.next = "subtask", !.subtask = @ + 1,
                                 !.graph = Append(@, Unit(proc.last))]
       ELSE Stage(<<>>, "evidence_anchor_not_found")
    /\ UNCHANGED <<config, stream, view, disk, calls, returned, runs>>

\* build_evidence on that last candidate only: an empty list of candidates
\* finds the one of the subtask before, or an unbound variable.
Anchor ==
    /\ At("anchor")
    /\ \/ /\ proc.last = Nothing
          /\ Raise(<<>>, "unbound_local")
       \/ /\ proc.last # Nothing /\ ~proc.last.exact
          /\ Stage(<<>>, "evidence_anchor_not_found")
       \/ /\ proc.last # Nothing /\ proc.last.exact
          /\ proc' = [proc EXCEPT !.next = "subtask", !.subtask = @ + 1,
                                  !.graph = Append(@, Unit(proc.last))]
    /\ UNCHANGED <<config, stream, view, disk, calls, returned, runs>>

---------------------------------------------------------------------------
(* Assessment *)

\* Mutant of Assessed: the files are referred to before they are written.
AssessedEarly(gaps) ==
    <<ArtifactsRecorded([graph |-> proc.graph, assessment |-> gaps]),
      File("graph", proc.graph), File("assessment", gaps)>>

Assessed(gaps) ==
    <<File("graph", proc.graph), File("assessment", gaps),
      ArtifactsRecorded([graph |-> proc.graph, assessment |-> gaps])>>

\* The graph is built after the last checkpoint of the executor, which is all
\* its direct callers ask for.
Assess ==
    /\ At("graph")
    /\ \/ /\ config.entry = "executor"
          /\ Give([kind |-> "graph", value |-> proc.graph])
       \/ /\ config.entry = "runner"
          /\ IF config.allowed # {} /\ ~MatchesAllowlist(proc.graph, config.allowed)
             THEN Stage(<<>>, "cross_paper_source_selection_mismatch")
             ELSE IF ~config.requirementsKnown THEN Stage(<<>>, "assessment_invalid")
             ELSE Goto(Assessed(Gaps(proc.graph, config.minSources)), "writer")
          /\ UNCHANGED returned
    /\ UNCHANGED <<config, stream, view, disk, calls, runs>>

\* decide_replan: the admission that is asked for has the number of replans
\* recorded when it was decided.
ReplanAllowed(ordinal) ==
    /\ \E answer \in returned : /\ answer.kind = "graph"
                                /\ Gaps(answer.value, config.minSources) # {}
    /\ ordinal < config.spec.maxReplans
Decided(ordinal) == \E e \in Events : e.type = "replan_decided" /\ e.attempt = ordinal

\* apply_bounded_replan, by a caller that may hold an earlier decision and
\* may apply it more than once. The other branches change nothing: a known
\* decision is returned as it is, an inadmissible one raises.
ApplyReplan ==
    /\ proc = Idle /\ view.ok /\ ~NeedsManualReview
    /\ \E ordinal \in 0..view.ledger.replans :
        /\ ReplanAllowed(ordinal) /\ ~Decided(ordinal)
        /\ CanRecordReplan(view.ledger, config.spec)
        /\ Write(ReplanDecided(Planner, ordinal, TRUE))
    /\ UNCHANGED <<config, disk, proc, calls, returned, runs>>

---------------------------------------------------------------------------
(* Writer *)

Admissible == {"brief_pending", "brief_approved", "researching"}

\* What is missing before the writer's operation in the stream it finds.
WriterPreamble ==
    (IF stream = <<>> THEN <<RunStarted>> ELSE <<>>)
    \o (IF view.status = "brief_pending" THEN Tail(RunStartedEvents)
        ELSE IF view.status = "brief_approved" THEN <<RunStartedEvents[3]>> ELSE <<>>)

\* Mutant of WriterAdmitted: a run that has failed is written for.
WriterAdmittedAnyway == Goto(WriterPreamble \o Dispatch(Writer, "budget_exhausted"), "writing")

WriterAdmitted ==
    IF view.status \in Admissible
    THEN Goto(WriterPreamble \o Dispatch(Writer, "budget_exhausted"), "writing")
    ELSE Raise(<<>>, "writer_not_admissible")

\* _resume, then the token and the preconditions of SingleWriterRunner.run.
EnterWriter ==
    /\ At("writer")
    /\ IF ~view.ok THEN Refuse("rejected")
       ELSE IF SucceededIn(Writer) # {} THEN Give(Report(StoredReport))
       ELSE IF NeedsManualReview \/ config.cancelled
       THEN Give(Report("manual_review_required"))
       ELSE WriterAdmitted /\ UNCHANGED returned
    /\ UNCHANGED <<config, stream, view, disk, calls, runs>>

WriterFails ==
    \/ \E usage \in Usages :
          Raise(<<OperationFailed(Writer, 1, usage, "writer_failed")>> \o FailedTail,
                "writer_failed")
    \/ proc' = [proc EXCEPT !.todo = <<OperationUnknown(Writer, 1)>> \o FailedTail,
                            !.next = "return", !.result = "manual_review_required"]

Conclusion(status) ==
    IF status = "insufficient_evidence" THEN "insufficient_evidence" ELSE "complete"

\* Mutant of WriterSettled: the run concludes before the report is durable.
WriterSettledLast(usage, status) ==
    <<Elapsed, Lifecycle("researching", "validating"),
      Lifecycle("validating", Conclusion(status)),
      OperationSucceeded(Writer, 1, usage, status), Checkpoint>>

WriterSettled(usage, status) ==
    <<OperationSucceeded(Writer, 1, usage, status), Elapsed,
      Lifecycle("researching", "validating"),
      Lifecycle("validating", Conclusion(status)), Checkpoint>>

DraftCode(draft) ==
    IF config.compare /\ ~Compares(proc.graph, draft) THEN "cross_paper_comparison_invalid"
    ELSE IF DraftRejected(proc.graph, draft) THEN "writer_draft_invalid" ELSE "none"

WriterReturns ==
    \E draft \in Drafts, usage \in Usages :
        LET status == ReportStatus(proc.graph, Gaps(proc.graph, config.minSources),
                                   config.conflicts, draft)
        IN  IF DraftCode(draft) # "none"
            THEN Raise(<<OperationFailed(Writer, 1, usage, DraftCode(draft))>> \o FailedTail,
                       DraftCode(draft))
            ELSE proc' = [proc EXCEPT !.todo = WriterSettled(usage, status),
                                      !.next = "return", !.result = status]

WriterAnswers ==
    /\ At("writing")
    /\ Called(Writer)
    /\ WriterFails \/ WriterReturns
    /\ UNCHANGED <<config, stream, view, disk, returned, runs>>

---------------------------------------------------------------------------
(* Specification *)

\* The process dies; what is durable stays.
Crash ==
    /\ proc # Idle /\ proc' = Idle
    /\ UNCHANGED <<config, stream, view, disk, calls, returned, runs>>

Init ==
    /\ config \in Configs
    /\ stream = <<>>
    /\ view = InitialView
    /\ disk = [name \in {"plan", "routing", "graph", "assessment"} |-> Nothing]
    /\ proc = Idle
    /\ calls = [op \in Ops |-> 0]
    /\ returned = {}
    /\ runs = 0

Step ==
    \/ AppendEvent \/ WriteArtifact \/ ReduceStream \/ Return
    \/ PlannerAnswers
    \/ StartExecution \/ StartSubtask \/ SearchAnswers \/ StartRead \/ ReadAnswers \/ Anchor
    \/ Assess \/ EnterWriter \/ WriterAnswers

Next == Run \/ Step \/ ApplyReplan \/ Crash

Spec == Init /\ [][Next]_vars
FairSpec == Spec /\ WF_vars(Step)

---------------------------------------------------------------------------
(* Properties *)

Answered(kind) == {a \in returned : a.kind = kind}

\* "A persisted successful Planner/Writer result is resumed without calling
\* either component; an incomplete durable stream fails closed rather than
\* repeating a component" (GLM_DEEP_RESEARCH_E2E_PREP_V1.md): no provider and
\* no tool is called twice, wherever run() dies and however often it is called.
\* Nor is a replan admitted twice by a caller that applies a decision again,
\* and there are no more of them than the spec allows.
NothingDoneTwice ==
    LET Admissions == {i \in DOMAIN stream : stream[i].type = "replan_decided"}
    IN  /\ \A op \in Ops : calls[op] <= 1
        /\ \A i, j \in Admissions : stream[i].attempt = stream[j].attempt => i = j
        /\ Cardinality(Admissions) <= config.spec.maxReplans

\* The writer is given, for every subtask of the plan, what the stream says
\* was read for that subtask, also when the graph comes back from a file.
EvidenceIsRead ==
    config.entry = "runner" /\ proc.next = "writing" =>
        /\ DOMAIN proc.graph = DOMAIN proc.plan
        /\ \A s \in DOMAIN proc.plan :
              proc.graph[s] = {p \in Passages : SucceededIn(Read(s, p)) # {}}

\* What the stream says is backed by something else that lasts: an event that
\* refers to artifacts is only durable when they are, and the callers of one
\* run, whichever of them wrote the report, are never given two different ones.
ArtifactsBackTheStream ==
    /\ ArtifactRefs # {} => ArtifactsIntact
    /\ Cardinality(Answered("report")) <= 1

\* A replayable run that has concluded owes nothing: no reservation is left
\* and every operation of the journal has succeeded.
ConcludedIsSettled ==
    view.ok /\ view.status \in {"complete", "insufficient_evidence"} =>
        /\ view.ledger.reservations = {}
        /\ \A op \in Ops : view.journal[op].status \in {"absent", "succeeded"}

\* Failures that a stage of the composed run has given its caller. The code
\* of a lost outcome is left out: a later call gives it as well.
StageCodes == {"planner_failed", "cross_paper_source_selection_mismatch", "cancelled",
               "tool_failure", "unknown_outcome", "source_not_found",
               "selected_source_evidence_missing", "evidence_anchor_not_found",
               "assessment_invalid", "writer_failed", "cross_paper_comparison_invalid",
               "writer_draft_invalid"}

\* A stage failure reaches the caller only after the run is durably failed.
StageFailuresPersist ==
    config.entry = "runner" /\ (\E a \in Answered("error") : a.value \in StageCodes) =>
        view.ok /\ view.status = "failed"

\* A caller is told of a refused budget, or of a stream that does not reduce,
\* only when the stream is refused, and it stays so: no later write, call or
\* replan makes that run replayable again.
RefusalsStand ==
    \A a \in Answered("error") : a.value \in {"rejected", "budget_exhausted"} => ~view.ok

\* What a caller is told of a failure is what the stream says from then on.
FailuresArePersisted == StageFailuresPersist /\ RefusalsStand

\* The last event of a stream that does not reduce is a reservation: what the
\* budget or the journal refused is in the stream, with nothing after it.
ReservationRefused ==
    ~view.ok /\ stream # <<>> /\ stream[Len(stream)].type = "operation_reserved"

\* A run in a terminal status is never written to again. Nor is one that was
\* refused a reservation, by the handler that asked for it, the helper that
\* then cannot record the failure, or a later call: neither what was refused
\* is dispatched, nor anything else.
TerminalStreamIsFinal ==
    [][(view.ok /\ view.status \in TERMINAL) \/ ReservationRefused => stream' = stream]_vars

\* Every call of run() comes back, unless its process dies.
RunReturns == proc # Idle ~> proc = Idle

\* "A missing, ambiguous or cross-passage anchor is rejected"
\* (LOCAL_RESEARCH_EXECUTOR_V1.md): an execution that returns a graph was
\* given candidates that resolve, all of them.
RejectsBadAnchors ==
    Answered("graph") # {} =>
        \A s \in DOMAIN config.candidates :
            \A i \in DOMAIN config.candidates[s] : config.candidates[s][i].exact

=============================================================================
