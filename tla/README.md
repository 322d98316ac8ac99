# TLA+ models of LitFlow Research Copilot

This directory models the durable research runtime of LitFlow, checks it with
TLC on small instances and proves its central properties with TLAPS. It is
written from the code under `src/litflow` and `src/litflow_api`; where a
document of the repository says something else, a run shows it (see
"Disagreements").

## The system

| part | state it keeps | operations | what is hard |
| --- | --- | --- | --- |
| run lifecycle (`deep_research/state.py`) | status of a run | `next_state`, `transition` | nothing alone |
| operation journal (`operations.py`) | one record per operation: attempt, status, error | plan, add, reserve, start, mark_*, cancel | which calls are legal after a resumption |
| budget ledger (`budgets.py`) | calls, tokens, retries, replans, elapsed time, reservations, charges | reserve, reconcile, charge_attempt, record_* | limits over reservations and charges, lost attempts |
| policies and errors (`policies.py`, `errors.py`) | cancellation token | allows, delay_for, admit, request | deadlines at the boundary, cancellation at any time |
| unified event stream (`runtime_v2.py`) | append-only file, reduced state, checkpoint | append, reduce, replay, finalize, checkpoint | torn appends, a reduction that rejects what was written |
| crash-safe harness (`runtime_v2.py`) | memory of the running process | `run`, `resume` | crash between any two appends, resumption from any prefix |
| scripted fakes and `FakeExecutionHarness`, v1 log (`fake_runtime.py`, `replay.py`, `persistence.py`) | clock, snapshot, events handed out | `call`, nine scenarios, run, interrupt, resume | events that agree with the ledger, resumption from a snapshot |
| planner, executor, writer, gap and replan, end-to-end runner (`planner.py`, `executor.py`, `writer.py`, `gap_replan.py`, `e2e.py`, `contracts.py`) | one stream per run, artifacts | stages in order, each reserved, dispatched, settled | a crash between stages; artifacts and events written separately |
| provider clients and canaries (`canary.py`, `deepseek_canary.py`, `e2e.py`, `deepseek_e2e.py`, `llm/client.py`) | one stream per canary | one call behind a durable dispatch | one call at most; checks of a reply in the right order |
| job service (`litflow_api/mvp.py`) | jobs in memory, `job.json`, `result.json` | create, run in a thread, read, reload | threads, restarts between two files |
| agent runtime (`agent/`) | graph state, durable trace | plan, gate, act, route, approve, finish | budgets over batches, resumption of a paused run |
| retrieval (`rag/bm25.py`, `dense.py`, `windowed.py`, `retrieval_quality_r1.py`) | corpus, caches of embeddings | build, index, search, fuse, calibrate the gate | caches that outlive their corpus or were cut short; windows that do not fit |
| question answering (`rag/qa.py`) | responses and checkpoints of a run | ask, verify, checkpoint, replay | three versions of the verdict; resumption |
| readings (`llm/structured_reader.py`, `deep_reading.py`, `evidence_registry.py`, `span_mapping.py`) | files of a run, registry of quotes | ask, normalize, anchor, assemble, resume, replay | quotes that must stand in the text; files written one by one |
| evaluation (`evaluation_runner.py`, `evaluation_aggregate.py`) | directories of runs | execute, resume, aggregate | checkpoints that fit a prompt; several aggregations of one output |
| Obsidian export (`obsidian/`) | notes, backups | create, preview, apply | a reader edits the same files |

How they interact. Everything in `deep_research/` writes the one kind of stream
and shares reducer, ledger and journal. The clients are called by the runner,
the canaries, the agent, the question sets and the readings; the job service
calls the batch functions of `rag/` and the composed run as one step. The agent,
the evaluation, the question sets, the readings and the vault share no state with each other or
with the runtime, only pure functions (`map_verbatim_span`).

The crash-safe runtime is the core: the executor, the writer and the
end-to-end runner use its stream, reducer, ledger and journal, and their model,
`ResearchPipeline`, extends the same `RuntimeReducer`.

How the core's parts interact: `run()` decides on the state it holds in memory,
appends an event, and then updates that memory; the reducer computes the same
state from the file when a later process resumes. `AppendEvent` of the model
couples the two: it extends `stream` and `view`, the reduction, in one step,
while the memory `mem` is updated by each action as `run()` does it.

## Modules

| module | code | content |
| --- | --- | --- |
| `RunLifecycle` | `state.py` | statuses and allowed transitions |
| `OperationJournal` | `operations.py` | journal as a function from operations to records; a `Can...` operator per refusal |
| `BudgetLedger` | `budgets.py` | ledger, limits, reserve and reconcile |
| `ExecutionPolicies` | `policies.py`, `errors.py` | retry and replan admission |
| `RuntimeReducer` | `runtime_v2.py` 232-402 | events, `ReduceEvent`, `Finalize` |
| `FakeScenarios` | `fake_runtime.py` 143-163 | the nine scripts |
| `CrashSafeHarness` | `runtime_v2.py` 437-834, fakes | the process, its crashes, the properties |
| `DurableDispatch` | (abstract) | what the protocol promises: one attempt at a time, in order, called at most once, nothing after a lost outcome |
| `MCCrashSafeHarness` | tests and defaults | instances for TLC |
| `CrashSafeHarness_proofs` | | type correctness, at most one call per attempt; the books: memory, replayability, completion |
| `StreamHistory_proofs` | | what the stream tells: budgets, replans, backoffs, checkpoint; the harness implements `DurableDispatch` |
| `MvpJobs` | `litflow_api/mvp.py` 130-138, 224-263, 305-341, 429-454, 519-552, 688-691 | jobs, their threads, files and reloads, restarts; the properties |
| `MCMvpJobs` | | instances for TLC |
| `MvpJobs_proofs` | | files, answers, executions and events of jobs; a job only moves forward |
| `ReportValidation` | `gap_replan.py`, `writer.py` | evidence graph, gaps, the verdict on a draft |
| `ResearchPipeline` | `e2e.py`, `executor.py`, `writer.py`, `gap_replan.py` | the composed run, its stages, artifacts, crashes and later calls |
| `MCResearchPipeline` | | instances for TLC |
| `ResearchPipeline_proofs` | | the scripts of the handlers and what each of their writes does; calls and replans, failures, the end of a stream, what is settled |
| `PipelineEvidence_proofs` | | the evidence of the report, its artifacts, what callers are told |
| `AgentRuntime` | `agent/` | the graph, the planner's queue of calls, gate, tools, router, approval, trace and projection |
| `ProviderAdapters` | the provider clients | what each client makes of each reply |
| `ProviderCanary` | `canary.py`, `deepseek_canary.py` | `execute()` of both canaries, extends the clients |
| `Workflow_proofs` | | the agent's invariant and its four properties; the one call of a canary; the clients' contract; the first harness |
| `Evaluation` | `evaluation_runner.py` | executions in one run directory |
| `EvaluationAggregate` | `evaluation_aggregate.py` | aggregations with one output directory |
| `SpanMapping` | `llm/span_mapping.py` | `map_verbatim_span` on what is counted of a quote |
| `VerbatimSpan` | `llm/span_mapping.py` | the same on texts, with the safe normalization |
| `PassageWindows` | `rag/windowed.py` 98-110 | which ranges of the tokens of a passage are encoded |
| `Retrieval` | `rag/` retrievers, `retrieval_quality_r1.py` | corpus, caches, windows, the rankings and their fusion, the calibrated gate |
| `VerifiedQA`, `QAReplay` | `rag/qa.py` | three versions of verified answering; the offline replays |
| `DeepReading` | `llm/` readers, `evidence_registry.py` | notes, deep reading, its files, resumption and replay |
| `ObsidianVault` | `obsidian/` | notes, backups, the program and a reader |
| `FakeRuntime` | `fake_runtime.py`, `replay.py`, `persistence.py` | the first harness, over `OperationJournal`, `BudgetLedger`, `ExecutionPolicies` |
| `PlanContracts` | `planner.py`, `contracts.py`, `gap_replan.py` | from a draft to an ordered plan, its assessment and replan; shapes of locators |
| `PaperWorkflow_proofs` | | evaluation and its aggregation, question answering and its replays, the vault, the readings, the windows |
| `PlanContracts_proofs` | | rounds and cycles, plans, replans, gaps, shapes |
| `MCWorkflows` | | the workflow modules, from `AgentRuntime` to `PlanContracts`, side by side in one instance |

`CrashSafeHarness` in detail. `pc` is the place in `run()`: `approve` and
`research` (546-548), `loop` (the head, 552-617), `backoff`, `rereserve`,
`attempt` (713), `dispatched`, `answered` (730), `settle`, `replan`, `schedule`,
`finish` (816), `validated`, `checkpoint`; `down` before a process and after a
crash, `raised` after an exception, `done` after a return. One action is one
append with the updates that follow it, the external call, or a branch that
writes nothing; so a crash can fall between any two durable effects. The events
keep operation, attempt and what the reducer reads; hash chains, stable ids and
sequence numbers are left out, because the stream has a single writer by
contract (`RUNTIME_KERNEL_V1.md`). `attempt_id` is a hash of operation and
number, and is the number here. Ledger cost is left out: it is compared like
the token counts and is 0 in every script. Times are whole seconds; the clock
is the `FakeClock`. `torn` is the incomplete last line.

`ResearchPipeline` in detail. A handler of the code is a queue of writes (`work`),
done one by one: an event, an artifact, a transition, the checkpoint; a crash
empties the queue, and the next call of `run()` starts from the stream and the
files. The entry point may also be the executor or the writer, as in the offline
callers. Providers and tools answer with any reply of a small set; a reported
usage may be more than the run can pay. A configuration is a plan that passed
the preflight.

The workflow modules in detail. Each keeps the state its component keeps, one
action per handler or per durable write, and the component's own choices as
inputs: the replies of a model, what a reader types, when a process dies.
`AgentRuntime` follows the nodes of the graph (`agentNode` is the next node), with
the trace as a sequence of events; the projection is computed from it as in
`project_events`. A call id is a sequence, empty where the harness acts itself. In `Evaluation`, `VerifiedQA`, `DeepReading` and
`ProviderCanary` a response, its checkpoint and the report are separate writes,
the process may die before each, and a later execution of the same directory
resumes or does not. A quote is a record of counts in `VerifiedQA` and
`DeepReading` (how often it stands in the passage letter by letter, word by
word, normalized); `VerbatimSpan` works on character sequences and checks that
this view of quotes gives the same status as the text does. In
`ObsidianVault` the program and the reader take turns at any file operation. In
`EvaluationAggregate` several processes publish into one directory. An identity
that the code computes as a hash is the content itself (`PlanContracts`) or a
name (`Evaluation`, `DeepReading`).

`MvpJobs` in detail. The core and the job service share nothing and are not
composed. `jobs` is `_jobs`, `jobFile` and `resultFile` are the two files read
back by `_load_persisted_job`, and `worker[j]` is the place in `_run_job` of the
job's thread, one step per line from 432 to 447, `failing` being the exception
handler. A section under the service's lock is one step, writes included, since
every reader takes the lock; events noted without the lock are steps of their
own. Every write may fail, the retrieval and the executor may raise, and the
process may stop anywhere, with all its threads, and start again. `Visible(j)`
is what any request for `j` would be answered from now, so the properties speak
of every moment a client might choose. Left out: what the executor writes for
itself (nothing reads it back), the demo views (no state), `run_jobs_inline`
(the same steps, taken by the request), and a crash between persisting a new
job and starting its thread (its identifier is unknown to everyone and cannot
be guessed). One process serves the jobs, as in the Dockerfile.

Definitions whose comment starts with "Mutant" are wrong variants of the definition
below them, each named after a mistake; they are used by no action and exist to
confirm that a property notices the mistake.

## What is checked

The instance has the nine scenarios of the repository with their one to three
operations and at most two attempts (`RetryPolicy(max_attempts=2)`), so no
operation or attempt is bounded away.

| run | what it asks | bounds |
| --- | --- | --- |
| `safety` | nine safety invariants and the refinement of `DurableDispatch` | seven budgets (the default, none at all, one call, four tokens, no replans, deadlines of 2 and 4 s), backoff none or 2 s, three processes, a crash at every control point, a torn append at every appending one, one cancellation |
| `liveness` | every process ends, every run terminates | five budgets, three processes, crashes in the windows `CrashPoint` names and at the loop head |
| `jobs` | consistency and progress of what clients are shown | two question answering jobs and one deep research job, one restart, two failed writes |
| `pipeline` | one call per stage, artifacts, terminal failures, over all crashes and later calls | fifteen configurations (`PipelineConfigs`): single and cross-paper runs, tight budgets, a cancelled token, the executor with good, bad, doubled and no candidates, the writer with and without a conflict; two subtasks, three calls of `run()`, five drafts, two usages |
| `dropped_candidate` | see "Disagreements" | the executor with a bad candidate followed by a good one |
| `workflows` | the property of each workflow module | `MCWorkflows` and `Workflows.cfg`, see below |
| `answer_after_restart` | see "Disagreements" | one job, one restart, no failed write |
| `missing_decision`, `crash_between_transitions`, `retry_limit_zero`, `refused_replan`, `cancelled_replan` | see "Disagreements" | the default budget (or `max_retries = 0`), one to three processes |

Three processes are two crashes: enough for a crash, a crash in the recovery,
and a last process that survives; a fourth finds a stream of the same kinds.
Deadlock is not checked in any run, since a model that has used up its processes,
calls or executions stops.

The invariants, and what would break them:

- `AtMostOneCall`: a call repeated, or made before its dispatch is on disk.
- `CallsWithinBudget`: the limits on calls and tokens over all processes, lost
  attempts included, against dispatches on the stream and not the ledger's own
  counters.
- `MemoryAgreesWithStream`: some append whose memory update differs from the
  reduction. Two differences that nothing reads are allowed and named: the
  elapsed time, and the error code left in the record of an attempt in progress.
- `StreamStaysReplayable`: an event the reducer rejects. It does not hold for
  every budget: with a finite `max_retries` that the script exceeds the charge
  is refused after the event is written (`retry_limit_zero`), so the budgets of
  the safety run have no retry limit or one the scripts do not exceed.
- `CheckpointAccepted`: a checkpoint that the next replay would refuse.
- `CompleteOnlyIfAllSucceeded`: completion over a lost or failed operation.
- `ReplanDecidedOnce`: a decision lost, repeated or counted twice.
- `DispatchedInTime`: a retry dispatched before the recorded time has moved by
  its backoff (`RetriesWaitOut`), or any attempt dispatched when it has reached the
  deadline (`NoneDispatchedTooLate`): a retry decided on resumption may end its
  backoff exactly at it, and a reserved attempt may be taken up by a later process.
- `DispatchProtocol`: the refinement. Its mapping derives `done`, `tries` and
  `phase` from the stream and the place of the process; a started attempt
  without a process at work on it is `lost`.

The properties of the pipeline:

- `NothingDoneTwice`: a provider or a tool called again by a later call of `run()`;
  a decision applied twice, or more replans than the spec allows.
- `EvidenceIsRead`: a graph given to the writer that says of a subtask what the
  stream does not.
- `ArtifactsBackTheStream`: an event whose artifacts are not on disk, or two
  different reports given to the callers of one run.
- `ConcludedIsSettled`: a run that concluded `complete` or `insufficient_evidence`
  with a reservation or an operation open. It says nothing of a failed run, which
  may hold one: a plan without routes fails after the planner's dispatch and
  before its outcome is written (`e2e.py:766-768`).
- `FailuresArePersisted`: a stage failure of the composed run raised while the stream
  still says researching (`StageFailuresPersist`), or a refused budget or stream
  reported of a stream that reduces, then or after any later write or call
  (`RefusalsStand`).
- `TerminalStreamIsFinal`: a write after the terminal status, or after a reservation
  that was refused (`ReservationRefused`), by the handler, the helper for stage
  failures, a later call or a replan.
- `RunReturns`: liveness of a call of `run()` whose process does not die.

The properties of the workflows, one or a few per module, are stated above each
definition in its module: `DraftsAreApproved`, `TraceIsAuthority`,
`AgentWithinBudget` and `OutcomesAreBacked` (agent), `AcceptsOnlyTheContract`
(clients), `CanaryCallsOnce`, `EvaluationResumable`, `AggregatesAreWhole` and
`AggregatesAddUp` (who publishes what; its sums and percentiles),
`AnswersAreGrounded` and `QAPaysOnce` (question answering and its replays),
`ReaderTextSurvives` (vault), `FakeRunReplays`, `ReadingsAreBacked` (notes,
objects with their evidence, manifests), `QuotesReadBack` (spans), `PlansAreSound`,
`RetrievalIsSound`. Where the code breaks the plain form of one, the
exceptions are part of the property, named, and listed under "Known behaviour".

`workflows` chooses one workflow at the start and leaves the variables of the
others alone: they share nothing in the program, so their product would add
states and no behaviour. Its bounds:

| workflow | bounds | why enough |
| --- | --- | --- |
| agent | 4 tasks, 15 replies (batches of up to three calls, named or not), 2 model turns, 3 tool calls, 2 retrievals | every limit is reached, by one call and within a batch; every tool, refused, failed and successful |
| adapters, canary | every combination of status, body, model, usage; 7 replies, 2 executions | a client looks at a reply once; a third execution finds a directory of the same kinds |
| evaluation | one paper, two identities, 3 calls, 3 executions, two windows | papers only share the call limit; a run, a run begun over it or resumed, and a resumption of the mixture |
| aggregation | 2 processes, 7 requests that fit and 12 that differ in one thing | each check refuses one of them; two processes race for one directory |
| qa, replay | 3 passages of 2 papers, 4 entities, 4 questions, 11 quotes, 2-4 questions per run, 3 executions, 2 replays | circuit breakers are reached; every verdict on a citation, claim and answer |
| retrieval | 4 corpora (one refused), windows of 3 tokens overlapping by 1, 3 queries, 2 results, 5 operations; 1470 requests for a gate | a cache of a corpus that was replaced; windows cut once and twice; ties; every refusal of the gate |
| vault | 3 files, 3 lists, 2 sections, 1 edit, 4 operations, 1 second | an update, a stale text, a rename and a second update |
| fake | nine scenarios, 5 budgets, an interruption after any operation | all inputs of the harness |
| reading, note | 2 chunks, 4 banks, 8 notes, 8 replies, 4 identities, 3 executions | every status of a value and of a link; run, resume, replay |
| span | all texts of up to four of {a, b, newline, hyphen} and up to three of {a, A, ligature, space, NUL}, and four longer; quotes of up to three | overlaps, hyphenated words, dropped and doubled characters at both ends |
| plan | all dependency relations of three subtasks (unknown and own keys included), doubled keys and questions, 13 proposals (a dependency named twice, an unknown one), all shapes of a locator of each of the three modalities | cycles, layers, joins |

The properties of the job service:

- `RecordsAgree` (`FilesAgree`, `AnswersAreCompleted`, `FileIsAPastOfMemory`): two files written
  one after the other, a handler that overrides a conclusion already visible,
  and a loader that fills the dictionary the threads write to.
- `SingleExecution`: nothing starts a job twice, restarts included.
- `NeverBackwards`: as long as the process lives, what is shown of a job is not
  taken back. It allows a completed job to become failed, which the code does
  when its last write fails (446-447): an answer can be read for a moment.
- `EveryJobConcludes`: a thread ends with its job completed or failed. It says
  nothing of a job whose process stopped: that one keeps its status for good.

Jobs share the lock, the failing writes and the restart only, so two of a kind
show every interplay. Two failed writes are a failed step and a failed handler.
After a restart no thread takes up an old job, so a second restart adds only a
second reload of the same files.

Fairness. In `CrashSafeHarness`, `FairSpec` has weak fairness for the steps of a process as a whole
(nothing in `run()` waits for anything outside it: the fakes answer at once)
and for starting the next process, that is, the operator resumes a run that was
left. Crashes and cancellations have none. A process may die, but the last one
the bound allows does not; without that a run could be crashed forever and no
liveness would hold. The budgets that refuse a reservation are not in the
liveness run: a refusal raises out of `run()` and leaves the run researching.
In `ResearchPipeline` a call of `run()` has weak fairness for its steps: nothing
in it waits for another process, and every provider and tool call ends with an
answer or a timeout. In `MvpJobs` each thread has weak fairness: it waits for the lock, which every
holder leaves, and for calls with a timeout (`llm/client.py:81, 148`). Clients
and restarts have none.

## Disagreements

- `missing_decision`: a resumed `insufficient_evidence` run completes without
  the decision `B03R2_REPLAY_BOUNDARIES.md:19` promises
  (`runtime_v2.py:567` tests a hash where line 743 tests the content).
- `refused_replan`: a run that dies after its refused replan decision is resumed
  to `complete` (`runtime_v2.py:574`), against
  `test_replan_limit_remains_fail_closed_after_resume`, which never resumes.
- `crash_between_transitions`: a crash between the two transitions at the start
  or the end of a run leaves it in `brief_approved` or `validating` for good
  (`ROADMAP.md:241`).
- `retry_limit_zero`: `max_retries` is not looked at before dispatch
  (`EXECUTION_POLICIES_V1.md:11-13`).
- `cancelled_replan`: the token is not checked before a replan
  (`EXECUTION_POLICIES_V1.md:17`).
- `answer_after_restart`: a restart between `job.json` and `result.json` leaves
  a completed job without the answer that clients could read (`mvp.py:447`),
  against "new jobs survive container restarts" (`DOCKER_DEMO.md:9`).
- `dropped_candidate`: the executor anchors the candidate its loop ends with, so
  a bad candidate before a good one is dropped without a refusal
  (`LOCAL_RESEARCH_EXECUTOR_V1.md`).

## Known behaviour

What the models do because the code does it, and a reader might not expect.
Properties allow it by name, or do not speak of it.

Runtime. An append cut short leaves an incomplete last line, on which every
later `run()` raises (`runtime_v2.py:126`). A run cancelled before its first
dispatch raises when it is run again (713). A second `run()` of a run that ended
`insufficient_evidence` dispatches what is left (552). A budget refusal raises
out of `run()` and leaves the run researching (698). In the job service a
restart leaves unfinished jobs in their status for good (`mvp.py:429`), and
`create_deep_research_job` ignores a job file that cannot be written (325).
These are modelled; no property forbids them, so they are told here.

Pipeline. A usage of planner or writer over the budget, and a crash between
`operation_failed` and the failed transition, leave a stream that every later
reduction refuses. A crash between the planner's success and its artifacts makes
every later call refuse; one between the writer's success and the lifecycle
leaves "researching" while the result says complete. `budget_exhausted` in the
executor raises a bare `ValueError` and the run never becomes terminal. The
command line refuses an existing directory, so a resumption is through the API.

Agent. Calls of a batch that are queued when the run ends get no terminal result
(against `DURABLE_AGENT_EVENT_SCHEMA_V2.md:13`). A draft the model itself
proposes pauses with an approval that was never registered, so resuming raises.
The first successful retrieval empties the set of missing entities. A failed
retrieval at the soft budget turns `execution_failed` into
`insufficient_evidence`. The draft after an approval may exceed `max_tool_calls`
by one.

Providers. A body cut short and `message: null` raise out of every adapter. A
failed GLM answer is charged nothing, DeepSeek's canary keeps a reported usage.
A call that raises, or a usage over the budget, leaves the canary's stream open.

Evaluation. A fresh execution over an old directory rewrites the identity and
leaves the old checkpoints and notes; a resumption of the mixture ends in a
mismatch every time. An invalid final note is checkpointed, so each resumption
aborts again. The network call count is that of a process. Aggregation never
reads `run_identity.json`.

Question answering. `run_qa(resume)` of v1 does not compare the manifest's
identity, and its breaker never clears. A replay of v1 reads the second attempt
whenever the first does not succeed: a missing file raises, a stale one may be
believed. A batch with a provider failure cannot be evaluated. An entity named
without Latin letters or digits is bound to any paper.

Readings and spans. `str.count` counts matches that do not overlap, so "aa" in
"aaa" is found although it stands there twice. A quote found word by word that
also stands inside a longer word cannot be located again, so a bank that keeps
it is refused as a whole. Half a ligature does not read back and is not found. A
crash between raw response and checkpoint of a second fresh run makes resuming
fail for good; one between checkpoint and manifest lets a fresh run pay again.

Retrieval. A window that is too long when its text is encoded again is cut in the
variable that the later windows of the passage are taken from
(`windowed.py:36`), so text after it may be in no window. The dense index reads
a passage only up to `MAX_LENGTH`. A cache build that dies leaves a directory
that refuses the next one. A negative top score makes every calibration of the
gate raise. The windowed cache takes the hash of
the corpus after its passages (`windowed.py:45`): a corpus replaced during the
build goes unnoticed; the model has one operator at a time. Scores and metrics are exact or in thousandths in the model, rounded
floats in the code.

Pipeline. A tool the budget refuses leaves its reservation in the stream, and the
helper that should make the failure terminal first reduces that stream
(`e2e.py:685`) and raises: no failed lifecycle and no checkpoint is written,
although `B08E2E-R10-CROSS-PAPER-REPAIR.md:11` says so of known stage failures and
the executor knows this one (`budget_exhausted`, `executor.py:406-410`). The run
stays researching; `FailuresArePersisted` and `TerminalStreamIsFinal` say what holds
of it: its callers are told of the refusal, and nothing is dispatched for it again.

Vault. Text saved between backup and write is overwritten; two updates of one
note in one second keep one backup; a section with the marker in it makes the
note impossible to update.

Fake harness. A resumption uses the scenario's default budget and a new token. A
retry planned before its budget is refused has no event. `max_retries` raises
after the call.

Planner. `planner_empty` cannot be reached (the draft's own `min_length` comes
first). The bundle refuses nothing the planner accepts. Of what the replan accepts
the contracts refuse one thing: a proposal that names a dependency twice
(`gap_replan.py:133` does not look, `contracts.py:199` does), and its caller gets
their validation error instead of `replan_dependency_invalid`. Both are part of
`PlansAreSound`. A locator valid for one kind of region is valid for the other
(`contracts.py:287-291`).

## What is proved

For all values of the constants that satisfy `ConfigurationAssumption`: any
scripts, budgets, backoffs, number of attempts and processes, any crash points.

- `TypeCorrect`: `Spec => []TypeOK`. `TypeOK` is not inductive: the actions of
  an attempt index the journal at the operation of the loop, so the invariant
  is `TypeInv == TypeOK /\ Control`. `Control` says that within an attempt the
  operation of the loop is one of the script and its attempt number is in range,
  and that while a retry is being scheduled, backed off or reserved the attempt
  is still below `MaxAttempts`. `StepTypeInv` goes through the actions.
- `CalledAtMostOnce`: `Spec => []AtMostOneCall`. The invariant `CallInv` adds
  that both the reduced view and the memory of the process remember every call:
  an attempt that was called is not one the journal would let start again
  (`ViewRemembers`, `MemRemembers`), and that an attempt about to be called was
  dispatched durably and never called (`Authorised`). `JournalConsumes` and
  `ReduceConsumes` say that no journal method and no reduced event gives a
  consumed attempt back unless it starts a record over with an attempt that is
  no later; `FinalizeRemembers` that the conclusions drawn at the end of the
  stream do not either, which is what a new process relies on. It needs
  nothing about the budget. It does not assume that every stream is accepted
  either: `ViewRemembers` speaks of an accepted view, because a process that
  finds its stream rejected calls nothing.

- `BooksInOrder`: `Spec => [](TypeInv /\ BookInv)`, the invariant the other
  results rest on. None of the properties below is inductive alone: what a
  replay gives depends on what processes wrote, and what they write on their
  memory. While a process runs its stream is accepted, and status, journal and
  ledger of memory and view agree (`Agreement`): the ledgers but for the elapsed
  time, two records if the end of a stream would conclude the same of them
  (`Settled`). Whether or not a process runs (`Books`): an operation is touched
  only when all before it have succeeded, the ledger holds exactly the
  reservations of the attempts that are open, what is held can be charged, what
  was charged is over, and a run that is closed as complete has nothing left.
  `LoopStands` ties the control points to the record of the operation of the
  loop. If the stream is not accepted, `RejectedByRetries` says why. There is
  one lemma per kind of step, and `StepBookInv` puts them together.
  From it follow `MemoryIsReplay` (`MemoryAgreesWithStream`), `CompleteIsWhole`
  (`CompleteOnlyIfAllSucceeded`) and `OnlyRetriesReject`:
  `StreamStaysReplayable` holds for every instance without a limit on retries,
  and with one the only way out of it is a retry in flight that the limit has no
  room for, the disagreement that `RetryLimitZero.cfg` shows. The theorem does
  not assume it away.
- `BudgetHolds` (`CallsWithinBudget`), from `Quotas`: for each kind, the
  dispatched attempts are those the ledger was charged for and the one in
  flight, and what is charged and reserved is within the limits. The sum of
  tokens over reservations is a fold; two lemmas evaluate it, because there is
  at most one reservation.
- `ReplansDecidedOnce` (`ReplanDecidedOnce`), from `Replans`: a decision is
  about the attempt that succeeded, the process that has just seen a success
  finds none about it, and the ledger counts the admitted ones.
- `BackoffsHold` (`DispatchedInTime`), from `TimeInv`: time in the stream does not
  run backwards, the clock of a process is not behind the stream, at each place of
  a retry its backoff is scheduled, or has passed, and every dispatch is recorded
  at a time before the deadline, since the place that makes it has looked.
- `CheckpointStands` (`CheckpointAccepted`): the view is the reduction of the
  whole stream and the checkpoint that of the prefix it names. `ReducePrefix` is
  a recursive function and two streams that agree on a prefix have to be shown
  to reduce alike there (`ReductionsAgree`), an induction over its length. The
  library's induction theorems take an operator as a parameter and cannot be
  instantiated here; a least counterexample does instead (`LeastNatural`, from
  `WFMin` of `WellFoundedInduction`).
- `ProtocolHolds`: `Spec => DispatchProtocol`, the refinement of
  `DurableDispatch`. The mapping counts the operations that have succeeded; by
  `BookInv` they are a prefix of the script, so the count finds the frontier, the
  first that has not (`FrontierFacts`). The dispatches of an operation are as
  many as its record says (`Counted`), and so the abstract state can be read off
  the frontier's record and the place of the process (`Mapping`).
  `NoteSimulates` and `WorksSimulates` treat the steps that append an event,
  `StepSimulates` adds the call, crashes and resumes.

TLC checked these invariants on the `safety` instance with three more budgets
(569 916 states) before they were proved. Every safety property of the core that
a run checks is now proved for all values of the constants, with the exception
just named of a limit on retries.

For any jobs, restarts and failed writes (`JobsAssumption`), `MvpJobs_proofs`:

- `FilesAlwaysAgree`, `AnswersAlwaysCompleted`, `ExecutedOnce`, all from
  `JobInv`, which adds to the three properties what is known at each place of a
  thread (`ThreadOf`): until it saves its result there is no result file, the
  executor has been called only after `execute`, `job.json` holds the conclusion
  when the thread is about to save it. `OneJob` reduces a step of a thread to
  its own job; `SetStatusInv`, `NoteInv` and `MoveInv` treat the three shapes of
  step, and there is a lemma for each other one.
- `FileAlwaysAPastOfMemory`, from `EventsInv` on top of `JobInv`, with
  `PrefixLaws` about appending to a sequence, and with the first two the
  property of the run, `RecordsAlwaysAgree` (`RecordsAgree`).
- `JobsOnlyMoveForward` (`NeverBackwards`), from `OrderInv`: the place of a
  thread determines the status its job shows, and a job that was not created is
  nowhere. A record in memory moves forward with its thread; one that a restart
  has dropped is shown as the loader makes it of `job.json`, before and after it
  is loaded. `ShownForward` says that a step with which each record does one of
  these shows no client less than before. The property excepts the restart itself.

For any plan, candidates, drafts, usages, scope, budget, number of calls of
`run()` and crash points, entered at the runner, the executor or the writer,
`ResearchPipeline_proofs` and `PipelineEvidence_proofs` show what follows.
`PipelineAssumption` asks that a plan keeps to the limit of subtasks (the plan's
own contract), that the limit of replans is a natural number (the run spec's),
and that the runner chooses no candidates (`e2e.py` 775 passes none to the
executor). `OpsAssumption` gives each operation of the pipeline its entry in the
journal.

- `CoreHolds`: `Spec => []Core`, the invariant the others rest on. A handler is a
  list of writes and a process may die between two of them, so that an argument
  per action does not say where a process is. `Shape` says that it is at a known
  place of one of the scripts of the handlers, with a suffix of that script left
  to write (`Rest`); `Durable` gives the reduced view, ledger and journal their
  forms, `ProcTypes` the variables of a process; `Statuses` ties the status of
  the run to the place and says that an ended run has no event left to write.
  `Due`, `Stepped` and `Effects` say once, for all scripts, which write may come
  next, where it leaves the process and what it does to status, journal and
  ledger; the steps of the process are then two or three cases each.
- `NothingTwice` (`NothingDoneTwice`), from `Once` and `Admitted`: an operation
  whose call was made is consumed in the journal, one about to be called has been
  dispatched and never called; the ledger counts the replans the stream records.
- `FailuresPersist` (`FailuresArePersisted`): the caller has been given the
  failure of a stage only when the status is `failed`, and that status stays
  because such a stream is not written to again. For the refusals it needs that a
  process never raises their codes of its own (`Honest`): they are given only where
  the stream was found not to reduce, and nothing appended to such a stream makes it
  reduce again (`RefusedStays`).
- `StreamEnds` (`TerminalStreamIsFinal`), an action property: neither a running
  process nor a later call, nor a replan, appends to a stream that has ended, or
  whose last event is a refused reservation. For the second, `RefusedIsHalted`: the
  append of a reservation is followed by its reduction (`ReductionFollows`), and the
  process stands at a reduction, at the writer or nowhere until the next call.
- `ConclusionsSettled` (`ConcludedIsSettled`), from `BooksHold`: what is open in
  the journal (`Loose`) is at every place of the composed run and of the writer
  what the rest of the script settles (`Owed`) or the writer's own operation; a
  reservation is held only for what is open (`Backed`); and once artifacts are
  recorded nothing but the writer is left open (`Bound`), which is what a call
  that resumes at the writer relies on.

- `OnlyWhatWasRead` (`EvidenceIsRead`), from `ReadsKnown`: `Spec => []AllRead`.
  The property is about the moment the writer is called, but the graph it is
  given was built long before, perhaps by a process that has died, and came back
  from a file. `AllRead` therefore follows the evidence through every place:
  while the executor runs, the graph says of each subtask behind it what the
  stream says was read for it, and nothing was read for those before it
  (`Gathered`); the assessment, the writer and the writer's call have the whole
  of it (`Whole`); and the files the stream refers to hold the plan of the
  planner's result and that same graph (`Recorded`). What the stream says is
  taken with the successes that the rest of the script will still append
  (`Promised`), since the planner's answer and a passage are in the variables of
  the process before they are durable; what a file holds, with the file writes
  that are left (`Filing`). An append or a file write changes neither
  (`AppendPromises`, `PassingPromises`, `FilingKept`), so that only the actions
  that begin a script have anything to show.
- `ArtifactsLast` (`ArtifactsBackTheStream`), from `ReadsKnown` for the files and
  `ReportsAgree` (`Spec => []OneReport`) for the callers. Once a caller was told a
  report, no process has an outcome left to write, and what was told is the
  report of the stream, or, where it holds none, that the outcome of an
  operation has to be reviewed (`Agreed`, `Standing`). A process on its way to
  tell one has promised it (`Telling`), and the writer is called only where no
  report is promised. That a lost outcome stays lost is what makes the answer
  `manual_review_required` as lasting as a report.

TLC checked these invariants on the `pipeline` instance before they were proved.

`Workflow_proofs`, for any task, replies of the model and limits of the agent
(`AgentAssumption`: the limits are natural numbers, a reply is a list of calls),
and for any canary, reply and number of executions:

- `AgentStaysWithinBudget` (`AgentWithinBudget`), `DraftsNeedApproval`
  (`DraftsAreApproved`), `TraceHasAuthority` (`TraceIsAuthority`) and
  `OutcomesHaveEvidence` (`OutcomesAreBacked`), all from `AgentInv`, which ties
  the place of a run to what its log tells. `AgentPlace`: what the tools are
  about to run has passed the gate with room left in the budgets, or is the
  draft the author agreed to. `AgentCounts`: the state counts the successes the
  log records, each answering a call (`UsesCount`: a tool appended to the list
  is one use more). `AgentDrafts`: a draft is asked for, decided and staged
  once, in this order, after the matrix was read. `AgentAgrees`: where the
  router or the author look at the state it repeats the projection of the log.
  `AgentEvidence`: a coverage and an outcome rest on evidence the log names.
  There is one lemma per group of actions (`PlannerSteps`, `GateSteps`,
  `ToolSteps`, `RouterSteps`, `AuthorSteps`); `RequestNotProjected` says that
  the request for an approval, which is logged while the state waits, changes
  nothing the state repeats. `OutcomesAreBacked` speaks of the trace and not of
  what the projection has retrieved. The attempt to prove it of the latter
  failed for a reason: when a model uses a call id again the projection can lose
  the passages of an earlier call, and the evidence of an outcome is then in the
  trace alone. The `workflows` run has such a batch among its replies.
- `CanaryPaysOnce` (`CanaryCallsOnce`), from `CanaryInv`: the stream in the
  directory is a prefix of the lines the result calls for, and how much of it is
  written says whether the call was made, at each place of `execute()` and
  between two executions. `SomeCheckApplies` shows that a client ends every
  reply in a known way, so that the result of a call that was made is known.

TLC checked `AgentInv` with three model turns (15 010 states) before it was proved.

- `ClientsKeepTheContract` (`AcceptsOnlyTheContract`): the clients are lists of
  checks of which the first that applies gives the verdict, so that a success
  says that none did (`FirstCheckApplies` and a lemma per client).
- `FakeRunsReplay` (`FakeRunReplays`), from `FakeInv`, for any budgets
  (`FakeSpecsAssumption`) and an interruption after any operation: the events
  replay into ledger and journal (`FakeReplayed`), the operations before the one
  at work have succeeded and those behind it are not begun (`FakePlace`), every
  call is of an operation and attempt of its own and is charged (`FakeCalled`),
  and the status is that of the end (`FakeStory`). The replay is a recursive
  function; `ReplayGoesOn` says what one more event does to it. Excepted are a
  retry that the budget refuses, whose event is there when the run ends and whose
  journal entry is not; and a replay may be refused after a resumption under
  another budget.

`PaperWorkflow_proofs`, for any papers, replies, identities, settings, directories
found and numbers of executions:

- `EvaluationsResumable` (`EvaluationResumable`), from `EvalInv`
  (`EvaluationConstants`: there is a paper and a call to make). The property
  speaks of the report; what it says of the directory was made true many stages
  and perhaps several executions before. `EvalTelling`: what the execution under
  way, or the one that wrote the report, has of a stage is checkpointed under its
  identity for its prompt. `EvalWritten`: the files of what it has gone past are
  its own. `EvalStored`: a checkpoint has its response. Where no execution was begun
  over another, `EvalOneDirectory` and `EvalOneExecution` say what a
  resumption relies on, that a fresh execution finds nothing ahead and takes every checkpoint behind it;
  and `EvalSamePrompts` that, as long as nothing changed a prompt, a final note is
  made of the candidates checkpointed, so that a mismatch has a cause.
- `QAPaysOnceHolds` (`QAPaysOnce`), from `QAInv` (`VerifiedQAConstants`): what was
  paid for is kept, unless its checkpoint comes next, and an execution that takes
  nothing from the directory has paid only for what is behind it (`QAPaidFor`);
  while something is left to ask, the last failures are not the repetition the
  circuit breaker stops at (`QAPatient`).
- `AnswersGrounded` (`AnswersAreGrounded`), from `QAShown` for the runs and
  `ReplayInv` for the replays (`QAReplayConstants`: what a run of a version that
  can be replayed may leave in a directory). `JudgedIsGrounded` shows for the
  verdicts of all three versions that what they let through as an answer has
  the citations its version asks for, whatever the reply; the checks are lists
  whose first failure decides, and in a fresh directory replaying them gives the verdict the
  run gave.
- `ReaderTextsSurvive` (`ReaderTextSurvives`), from `VaultInv` (`VaultConstants`):
  every text the reader ever wrote is in a note or a backup, or was given up in a
  way the design accepts (an overwrite that was asked for, a text typed between
  the backup and the write, a backup replaced within its second). What has to be added is `TargetSaved`: between the
  backup and the write of an operation, the text of the note about to be replaced
  is in the backup or among what was typed since.
- `AggregatesStayWhole` (`AggregatesAreWhole`), from `AggInv`, for any number of
  processes: who is under way was asked for runs that belong together and counts
  its own files (`AggBegun`, `AggWritten`); what a process published is still there,
  because the rename of another onto it fails (`AggStands`).
- `AssembledIsCited`, for any reply and any bank whose candidates are in the text
  (`DeepConstants`: banks, objects, values and quotes are lists, and a reply for a
  note is of one of the four kinds): no two records of the registry have one number,
  each is found in the paper, and a value is stated exactly if it cites records
  there are. The records from the bank come first and those added later count up
  (`Numbered`), which adding a quote keeps although it counts the records it numbers
  by (`AddQuoteNumbers`); `Taken` is what the objects taken so far and the registry
  keep. The three recursive functions behind (fields, quotes, values) exist and are
  followed by `NaturalsByOne`.
- `ReadingsStayBacked` (`ReadingsAreBacked`), from `DeepInv`. A directory may hold
  the files of several runs, of different responses, when one died and the next was
  not a resumption: `FilesBacked` speaks of a manifest alone, and holds while the
  files of a later script overwrite it one by one, because a run that finds a manifest
  has the identity and the response of its checkpoint. `DeepPending` says that what
  is left to write is the end of a script (of an answer and its result, or of a
  resumption) of which all before is on disk; `PendingStored` is its one step, over
  `StoringAnswer` and `StoringResult`.
- `WindowsCover`, for a passage of any length and any budget and overlap
  (`WindowAssumption`, the check before the encoding starts: the overlap is smaller than
  the budget): the windows of `_window_ranges` begin at the start and end at the end of
  the passage, none is longer than the budget and only the last may be shorter, each
  takes up exactly the overlap of the one before, and every token is in one. It is
  about the ranges; a window too long when its text is encoded again is cut, which is
  the part of `RetrievalIsSound` left to TLC.

`PlanContracts_proofs`, for any drafts, proposals, findings and requirements
(`PlanConstants` types them):

- `PlansAlwaysSound` (`PlansAreSound`), from `PlanInv`. Its four parts:
  a plan is in order and as long as what was drafted and added; no draft is refused
  by the contracts that the planner's own checks let through, and no proposal that
  the replan's do, except one that names a dependency twice; more evidence opens no
  gap; a locator of a text is of no region, nor one of a region of a text. The
  substance is in lemmas about the rounds in which `topological_subtask_ids` and
  `_topological_local_keys` place what waits for nothing else. `PlacedIsAll`: a
  round that places nothing is the last, so that after as many rounds as there
  are subtasks nothing more can be placed; `CycleIsWaiting`: what is not placed
  then waits for each other, and nothing that does is ever placed, which makes
  the cycle check exact. `RoundsOrder`: any order by rounds has every subtask
  once and after all it waits for; `KeysInOrder`: the local keys can be put in
  such an order. So the subtasks formed are a list in order (`DraftFormal`, whose
  recursive function exists because every dependency has an earlier place), and
  such a list, if all ask different things, passes every check of the bundle
  (`OrderedSubtasksFit`), stays one when a proposal is appended (`AddedIs`) and
  when the bundle reorders it (`ReorderedIs`). Finite sets are listed
  (`ListingExists`) and sequences of rounds followed by least counterexamples.

TLC checked the properties on the `workflows` instance, and `EvalInv` on one with
four executions, before they were proved. For the proofs the models say in a form
the provers read what they said before: the first of several checks is the one
with the least index, and the constants have the types their callers give them,
as named assumptions that TLC evaluates. One thing they say more generally now:
a replan lists its subtasks in the order of their IDs, which are hashes, so that
it may be any order within a round.

Only model-checked: `AggregatesAddUp`, whose sums and percentiles are folds of
sequences, and `QuotesReadBack`, about a recursion over the characters of a text:
both need induction over data; `RetrievalIsSound` (but for the ranges of the windows),
which cuts by a `RECURSIVE` operator and ranks by sorting and folds; and liveness under fairness (`EveryProcessEnds`,
`EveryRunTerminates`, `RunReturns`, `EveryJobConcludes`), which the prover does not reach.

## Not modelled

Hash chains and tampering (that a changed file is detected is a property of the
hash); concurrent writers of one stream (excluded by contract); the
encoder and text extraction (pure, without state); prompts and wording; text
validation; the formats of single contract fields and the schema export; the
parsing of plans and command lines; the paired runs, which call the modelled
runner and canary one after the other; the scoring of the agent's pilot; the
vault's checker, which only reports; Zotero reader, selection, PDF context and
discovery (read-only input); the preview API (stateless) and the web front end.

## Plan

Done: the core, the job service, the pipeline and every workflow of the inventory
that keeps state, with proofs of every safety property that does not rest on
recursion over data. Left: the parts of partly modelled components listed above.
