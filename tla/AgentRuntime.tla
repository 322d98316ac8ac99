----------------------------- MODULE AgentRuntime -----------------------------
(***************************************************************************)
(* The bounded research agent (agent/runtime.py) with its native-tool      *)
(* planner, its tools (agent/live.py) and the durable trace the pilot      *)
(* gives it (agent/durable_events.py, agent/progress.py). A graph of nodes *)
(* passes one state along; the trace is the authority a resumption checks  *)
(* the state against. The hash chain of the trace is abstracted: nothing   *)
(* here tampers with the file.                                             *)
(***************************************************************************)
EXTENDS Integers, Sequences, FiniteSets

CONSTANTS
    AgentTasks,         \* [category, entities, forbidden]: the tasks of a pilot
    AgentReplies,       \* the batches of tool calls a model may answer with
    MaxModelTurns,      \* AgentRunConfig
    MaxToolCalls,
    MaxRetrievalCalls

ASSUME AgentAssumption ==
    /\ MaxModelTurns \in Nat /\ MaxToolCalls \in Nat /\ MaxRetrievalCalls \in Nat
    /\ AgentReplies \subseteq Seq([tool : STRING, args : STRING, id : Seq(STRING)])

VARIABLES
    agentTask,      \* the task, chosen when the run starts
    agentNode,      \* the node of the graph that runs next
    agentState,     \* ResearchAgentState
    agentQueue,     \* calls of the last batch not taken yet (NativeToolPlanner.pending_calls)
    agentTop,       \* LiveAgentTools._last_top is not empty
    agentLog        \* the durable events
agentVars == <<agentTask, agentNode, agentState, agentQueue, agentTop, agentLog>>

AgentTools ==
    {"list_papers", "retrieve_evidence", "inspect_passages", "answer_grounded",
     "query_evidence_matrix", "stage_writing_draft"}
NeedsApproval(tool) == tool = "stage_writing_draft"
InvalidArgs == "invalid"
LastTools == {"answer_grounded", "stage_writing_draft"}
AgentFinal == {"done", "raised"}

---------------------------------------------------------------------------
(* The durable trace. *)

AgentEvents == {agentLog[i] : i \in DOMAIN agentLog}
Recorded(type) == {e \in AgentEvents : e.type = type}
ToolCallEvent(call) == [type |-> "tool_call", id |-> call.id, tool |-> call.tool]
ToolResult(id, status, found, missing) ==
    [type |-> "tool_result", id |-> id, status |-> status, found |-> found, missing |-> missing]

Answered == {e.id : e \in Recorded("tool_result")}

Latest(places) == CHOOSE i \in places : \A j \in places : j <= i

\* The last tool_call event of an id is the one project_events finds.
ToolOf(log, id) ==
    log[Latest({i \in DOMAIN log : log[i].type = "tool_call" /\ log[i].id = id})].tool

\* What the state repeats of the trace, and the coverage routes are taken from.
Projection(log) ==
    LET results == {i \in DOMAIN log : log[i].type = "tool_result"}
        good == {i \in results : log[i].status = "success"}
        Good(tool) == {i \in good : ToolOf(log, log[i].id) = tool}
    IN  [completed |-> {log[i].id : i \in results},
         retrieved |-> UNION {log[i].found : i \in Good("retrieve_evidence")},
         matrixLoaded |-> Good("query_evidence_matrix") # {},
         \* every success says what is missing: the tools other than the answer say nothing is
         missing |-> IF good = {} THEN agentTask.entities > 0 ELSE log[Latest(good)].missing,
         retrievals |-> Cardinality({i \in DOMAIN log :
             /\ log[i].type = "tool_call" /\ log[i].tool = "retrieve_evidence"
             /\ \E j \in good : log[j].id = log[i].id})]
Projected(log) ==
    LET p == Projection(log)
    IN  [completed |-> p.completed, retrieved |-> p.retrieved, matrixLoaded |-> p.matrixLoaded]

\* record_tool_result refuses a call that was never proposed, or was answered.
MayAnswer(id) == id \in {e.id : e \in Recorded("tool_call")} \ Answered

---------------------------------------------------------------------------
(* Progress policy: how many retrievals are enough for the entities asked. *)

RetrievalLimit(entities) ==
    IF entities <= 2 THEN 2 ELSE 3
CoverageRoute(p) ==
    IF p.retrieved = {} THEN "none" ELSE IF p.missing THEN "partial" ELSE "complete"

---------------------------------------------------------------------------
\* An action of the control plane has no id of a call.
Internal == <<>>
NoAction == [tool |-> "none", args |-> "none", id |-> Internal]
Finish == [NoAction EXCEPT !.tool = "finish"]
StageDraft == [tool |-> "stage_writing_draft", args |-> "records", id |-> Internal]

InitialAgentState ==
    [turns |-> 0, tools |-> <<>>, signatures |-> {}, coverage |-> "none", pending |-> "none",
     status |-> "none", action |-> NoAction, lastTool |-> "none",
     decision |-> "none", checked |-> [completed |-> {}, retrieved |-> {}, matrixLoaded |-> FALSE]]

AgentInit ==
    /\ agentTask = [category |-> "none", entities |-> 0, forbidden |-> FALSE]
    /\ agentNode = "idle"
    /\ agentState = InitialAgentState
    /\ agentQueue = <<>>
    /\ agentTop = FALSE
    /\ agentLog = <<>>

Goto(node, state) == agentNode' = node /\ agentState' = state
Stop(state) == [state EXCEPT !.status = "execution_failed"]
\* Mutant: the state keeps what it knew of the trace.
ProjectingLate(state) == [state EXCEPT !.checked = Projected(agentLog)]
Projecting(state) == [state EXCEPT !.checked = Projected(agentLog')]

\* _run_task: a forbidden goal is rejected before anything else is built.
AgentStart ==
    /\ agentNode = "idle"
    /\ \E task \in AgentTasks :
        /\ agentTask' = task
        /\ IF task.forbidden
           THEN Goto("done", [InitialAgentState EXCEPT !.status = "policy_rejected"])
           ELSE Goto("planner", InitialAgentState)
    /\ agentLog' = <<[type |-> "turn_started"]>>
    /\ UNCHANGED <<agentQueue, agentTop>>

\* The turn budget is checked before the queue is looked at.
PlanRefused ==
    /\ agentNode = "planner" /\ agentState.turns >= MaxModelTurns
    /\ Goto("policy_gate", Stop(agentState))
    /\ UNCHANGED <<agentTask, agentQueue, agentTop, agentLog>>

PlanQueued ==
    /\ agentNode = "planner" /\ agentState.turns < MaxModelTurns /\ agentQueue # <<>>
    /\ Goto("policy_gate", [agentState EXCEPT !.action = Head(agentQueue)])
    /\ agentQueue' = Tail(agentQueue)
    /\ UNCHANGED <<agentTask, agentTop, agentLog>>

\* The provider is asked: every call of its batch is logged before one is looked at.
PlanAsked ==
    /\ agentNode = "planner" /\ agentState.turns < MaxModelTurns /\ agentQueue = <<>>
    /\ \E reply \in AgentReplies :
        LET \* an id the provider gives is kept, any other is made from the step and the place
            calls == [i \in DOMAIN reply |->
                [reply[i] EXCEPT !.id = IF @ = <<>> THEN <<agentState.turns + 1, i>> ELSE @]]
            known == \A i \in DOMAIN calls : calls[i].tool \in AgentTools
        IN  /\ agentLog' = agentLog \o <<[type |-> "provider_request"], [type |-> "provider_step"]>>
                              \o [i \in DOMAIN calls |-> ToolCallEvent(calls[i])]
            /\ agentQueue' = IF known /\ calls # <<>> THEN Tail(calls) ELSE <<>>
            /\ Goto("policy_gate",
                    [agentState EXCEPT !.action = IF known /\ calls # <<>> THEN Head(calls) ELSE Finish,
                                       !.turns = @ + 1])
    /\ UNCHANGED <<agentTask, agentTop>>

\* The provider cannot be reached: the request is logged and the exception ends the run.
PlanRaises ==
    /\ agentNode = "planner" /\ agentState.turns < MaxModelTurns /\ agentQueue = <<>>
    /\ Goto("raised", agentState)
    /\ agentLog' = Append(agentLog, [type |-> "provider_request"])
    /\ UNCHANGED <<agentTask, agentQueue, agentTop>>

---------------------------------------------------------------------------
(* The policy gate. *)

Signature(action) == <<action.tool, action.args>>
Successes(tool) == Cardinality({i \in DOMAIN agentState.tools : agentState.tools[i] = tool})

\* Mutant: the gate forgets the budgets.
GateVerdictUnbounded ==
    IF agentState.action.args = InvalidArgs THEN "invalid_arguments"
    ELSE IF Signature(agentState.action) \in agentState.signatures THEN "denied" ELSE "allowed"

GateVerdict ==
    LET action == agentState.action
    IN  IF action.args = InvalidArgs THEN "invalid_arguments"
        ELSE IF \/ Len(agentState.tools) >= MaxToolCalls
                \/ action.tool = "retrieve_evidence" /\ Successes(action.tool) >= MaxRetrievalCalls
        THEN "skipped_due_to_budget"
        ELSE IF Signature(action) \in agentState.signatures THEN "denied" ELSE "allowed"

GateEnds ==
    /\ agentNode = "policy_gate"
    /\ agentState.status = "execution_failed" \/ agentState.action = Finish
    /\ Goto("finalizer", agentState)
    /\ UNCHANGED <<agentTask, agentQueue, agentTop, agentLog>>

AtGate ==
    agentNode = "policy_gate" /\ agentState.status # "execution_failed" /\ agentState.action # Finish

GateRefuses ==
    /\ AtGate /\ GateVerdict # "allowed"
    /\ IF MayAnswer(agentState.action.id)
       THEN /\ agentLog' = Append(agentLog, ToolResult(agentState.action.id, GateVerdict, {}, FALSE))
            /\ Goto("finalizer", Projecting(Stop(agentState)))
       ELSE Goto("raised", agentState) /\ UNCHANGED agentLog
    /\ UNCHANGED <<agentTask, agentQueue, agentTop>>

GateAllows ==
    /\ AtGate /\ GateVerdict = "allowed"
    /\ LET asks == NeedsApproval(agentState.action.tool)
       IN  Goto(IF asks THEN "human_approval" ELSE "tool_executor",
                [agentState EXCEPT !.signatures = @ \cup {Signature(agentState.action)},
                                   \* a draft the model asks for has no approval id
                                   !.pending = IF asks THEN "unregistered" ELSE "none"])
    /\ UNCHANGED <<agentTask, agentQueue, agentTop, agentLog>>

---------------------------------------------------------------------------
(* The tools. *)

\* Mutant: an answer is given before anything was found.
CanRunBlindly(tool) == TRUE
\* An answer needs a retrieval that found something.
CanRun(tool) == tool = "answer_grounded" => agentTop

\* The coverage an answer may report; an invalid one reports a failed execution.
AnswerCoverages == {"complete", "partial", "none", "execution_failed"}

\* _durable_success: the draft is answered as an internal action, a call as a call.
SuccessEvent(found, missing) ==
    IF agentState.action.id = Internal
    THEN [type |-> "internal_action_result"]
    ELSE ToolResult(agentState.action.id, "success", found, missing)
ToolSucceeds ==
    /\ agentNode = "tool_executor" /\ CanRun(agentState.action.tool)
    /\ LET tool == agentState.action.tool
           done == [agentState EXCEPT !.tools = Append(@, tool), !.lastTool = tool, !.pending = "none"]
           \* evidence_verifier: only an answer that was verified changes the coverage
           Succeed(found, missing, coverage) ==
               IF agentState.action.id = Internal \/ MayAnswer(agentState.action.id)
               THEN /\ agentLog' = Append(agentLog, SuccessEvent(found, missing))
                    /\ Goto("coverage_router", Projecting([done EXCEPT !.coverage = coverage]))
               ELSE UNCHANGED agentLog /\ Goto("raised", agentState)
       IN  \/ /\ tool = "retrieve_evidence"
              /\ \E found \in {{}, {agentState.action.args}} :
                    agentTop' = (found # {}) /\ Succeed(found, FALSE, agentState.coverage)
           \/ /\ tool = "answer_grounded"
              /\ \E answer \in AnswerCoverages :
                    Succeed({}, answer \in {"partial", "none"},
                            IF answer = "execution_failed" THEN agentState.coverage ELSE answer)
              /\ UNCHANGED agentTop
           \/ /\ tool \notin {"retrieve_evidence", "answer_grounded"}
              /\ Succeed({}, FALSE, agentState.coverage)
              /\ UNCHANGED agentTop
    /\ UNCHANGED <<agentTask, agentQueue>>

\* Any tool may raise; an internal action leaves nothing in the trace.
ToolFails ==
    /\ agentNode = "tool_executor"
    /\ LET failed == [Stop(agentState)
                        EXCEPT !.lastTool = agentState.action.tool]
       IN  IF agentState.action.id = Internal
           THEN UNCHANGED agentLog /\ Goto("coverage_router", Projecting(failed))
           ELSE IF MayAnswer(agentState.action.id)
           THEN /\ agentLog' = Append(agentLog, ToolResult(agentState.action.id, "execution_error", {}, FALSE))
                /\ Goto("coverage_router", Projecting(failed))
           ELSE UNCHANGED agentLog /\ Goto("raised", agentState)
    \* a search that fails late has replaced the passages it found before
    /\ agentTop' \in IF agentState.action.tool = "retrieve_evidence" THEN BOOLEAN ELSE {agentTop}
    /\ UNCHANGED <<agentTask, agentQueue>>

---------------------------------------------------------------------------
(* The coverage router. *)

AtRouter == agentNode = "coverage_router"
AsksDraft ==
    agentState.lastTool = "query_evidence_matrix" /\ agentTask.category = "writing_approval"
SoftBudgetReached ==
    /\ agentState.lastTool = "retrieve_evidence"
    /\ Projection(agentLog).retrievals >= RetrievalLimit(agentTask.entities)

\* The request is logged even after the query failed; the failure then ends the run.
RouteToApproval ==
    /\ AtRouter /\ AsksDraft
    /\ agentLog' = IF Recorded("approval_requested") = {}
                   THEN Append(agentLog, [type |-> "approval_requested"]) ELSE agentLog
    /\ Goto(IF agentState.status = "execution_failed" THEN "finalizer" ELSE "human_approval",
            [agentState EXCEPT !.action = NoAction, !.pending = "registered"])
    /\ UNCHANGED <<agentTask, agentQueue, agentTop>>

\* Enough was retrieved: the coverage is what the trace says, and the model is steered once.
RouteOnBudget ==
    /\ AtRouter /\ ~AsksDraft /\ SoftBudgetReached
    /\ LET route == CoverageRoute(Projection(agentLog))
           failed == agentState.status = "execution_failed"
       IN  IF route = "none"
           THEN /\ Goto("finalizer",
                        [agentState EXCEPT !.coverage = "none", !.status = "insufficient_evidence"])
                /\ UNCHANGED agentLog
           ELSE /\ Goto(IF failed THEN "finalizer" ELSE "planner", [agentState EXCEPT !.coverage = route])
                /\ agentLog' = IF Recorded("steering") = {}
                               THEN Append(agentLog, [type |-> "steering"]) ELSE agentLog
    /\ UNCHANGED <<agentTask, agentQueue, agentTop>>

RouteOn ==
    /\ AtRouter /\ ~AsksDraft /\ ~SoftBudgetReached
    /\ Goto(IF agentState.status = "execution_failed" \/ agentState.lastTool \in LastTools
            THEN "finalizer" ELSE "planner", agentState)
    /\ UNCHANGED <<agentTask, agentQueue, agentTop, agentLog>>

---------------------------------------------------------------------------
(* The interruption: the run returns pending_approval; resume() re-enters. *)

Agrees == agentState.checked = Projected(agentLog)
Decided == Recorded("approval_decision") # {}

ResumeRaises ==
    /\ agentNode = "human_approval"
    /\ Agrees => agentState.pending = "unregistered"
    /\ Goto("raised", agentState)
    /\ UNCHANGED <<agentTask, agentQueue, agentTop, agentLog>>

\* Mutant: a rejection only ends the pause.
ResumeAnyway(approved) ==
    /\ agentNode = "human_approval" /\ Agrees /\ agentState.pending = "registered" /\ ~Decided
    /\ agentLog' = agentLog \o <<[type |-> "approval_decision", approved |-> approved],
                                 [type |-> "internal_action_scheduled"]>>
    /\ Goto("tool_executor", [agentState EXCEPT !.action = StageDraft])
    /\ UNCHANGED <<agentTask, agentQueue, agentTop>>

Resume(approved) ==
    /\ agentNode = "human_approval" /\ Agrees /\ agentState.pending = "registered" /\ ~Decided
    /\ IF approved
       THEN /\ agentLog' = agentLog \o <<[type |-> "approval_decision", approved |-> TRUE],
                                         [type |-> "internal_action_scheduled"]>>
            /\ Goto("tool_executor", [agentState EXCEPT !.action = StageDraft, !.decision = "approved"])
       ELSE /\ agentLog' = Append(agentLog, [type |-> "approval_decision", approved |-> FALSE])
            /\ Goto("finalizer", [agentState EXCEPT !.decision = "rejected", !.status = "author_rejected"])
    /\ UNCHANGED <<agentTask, agentQueue, agentTop>>

FinalStatus ==
    CASE agentState.status # "none" -> agentState.status
      [] agentState.status = "none"
            /\ (agentState.lastTool = "stage_writing_draft" \/ agentState.coverage = "complete")
            -> "complete"
      [] OTHER -> IF agentState.coverage = "partial" THEN "partial" ELSE "insufficient_evidence"

Finalize ==
    /\ agentNode = "finalizer"
    /\ Goto("done", [agentState EXCEPT !.status = FinalStatus])
    /\ UNCHANGED <<agentTask, agentQueue, agentTop, agentLog>>

AgentNext ==
    \/ AgentStart
    \/ PlanRefused
    \/ PlanQueued
    \/ PlanAsked
    \/ PlanRaises
    \/ GateEnds
    \/ GateRefuses
    \/ GateAllows
    \/ ToolSucceeds
    \/ ToolFails
    \/ RouteToApproval
    \/ RouteOnBudget
    \/ RouteOn
    \/ ResumeRaises
    \/ \E approved \in BOOLEAN : Resume(approved)
    \/ Finalize

---------------------------------------------------------------------------
(* Properties. *)

\* A draft is staged only behind a complete approval: the matrix was read, the draft was
\* requested, the author approved, and nothing else was staged (human_approval and
\* decide_approval against the two ways a draft can be asked for).
DraftsAreApproved ==
    LET At(type) == {i \in DOMAIN agentLog : agentLog[i].type = type}
    IN  /\ Cardinality(At("internal_action_result")) <= 1
        /\ Cardinality(At("approval_decision")) <= 1
        /\ Successes("stage_writing_draft") = Cardinality(At("internal_action_result"))
        /\ \A staged \in At("internal_action_result") :
            \E matrix \in At("tool_result"), asked \in At("approval_requested"),
               decided \in At("approval_decision") :
                /\ matrix < asked /\ asked < decided /\ decided < staged
                /\ agentLog[decided].approved /\ agentLog[matrix].status = "success"

\* The state never runs ahead of the trace or behind it: no call is answered twice, every
\* success the state counts is in the trace, and a paused run with a registered approval can
\* be resumed (verify_projection never meets the mismatch it looks for).
TraceIsAuthority ==
    /\ \A i, j \in DOMAIN agentLog :
        agentLog[i].type = "tool_result" /\ agentLog[j].type = "tool_result"
            /\ agentLog[i].id = agentLog[j].id => i = j
    /\ agentNode # "raised" =>
        Len(agentState.tools) =
            Cardinality({i \in DOMAIN agentLog :
                \/ agentLog[i].type = "internal_action_result"
                \/ agentLog[i].type = "tool_result" /\ agentLog[i].status = "success"})
    /\ agentNode = "human_approval" /\ agentState.pending = "registered" => Agrees /\ ~Decided

\* The budgets of AgentRunConfig hold over every route, batches included: the draft that
\* follows an approval is the only call that may come on top of them.
AgentWithinBudget ==
    /\ agentState.turns <= MaxModelTurns
    /\ Len(agentState.tools) - Successes("stage_writing_draft") <= MaxToolCalls
    /\ Successes("retrieve_evidence") <= MaxRetrievalCalls

\* A run that reports an answer, whole or in part, staged a draft or found evidence: it never
\* ends complete or partial on nothing (finalizer, against batches that go on after a failure).
OutcomesAreBacked ==
    agentNode = "done" /\ agentState.status \in {"complete", "partial"} =>
        \/ Successes("stage_writing_draft") = 1
        \/ /\ Successes("retrieve_evidence") >= 1
           /\ \E e \in Recorded("tool_result") : e.status = "success" /\ e.found # {}

=============================================================================
