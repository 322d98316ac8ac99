------------------------------ MODULE MvpJobs ------------------------------
(***************************************************************************)
(* The job service of the local API (MvpService in litflow_api/mvp.py): a  *)
(* request creates a job, a thread of its own carries it out, and other    *)
(* requests read it. The record of a job is kept in memory; job.json and   *)
(* result.json are written beside it, and read back into memory the first  *)
(* time an unknown job is asked for, which is how jobs outlive a restart.  *)
(*                                                                         *)
(* What happens under the service's lock is one step, and so is everything *)
(* a thread does between two steps that a request could see. A file is     *)
(* written to a temporary name and renamed, so a write happens or not.     *)
(***************************************************************************)
EXTENDS Naturals, SequencesExt

CONSTANTS
    QaJobs,           \* identifiers of question answering jobs
    ResearchJobs,     \* identifiers of offline deep research jobs
    MaxRestarts,      \* bound: restarts of the service
    MaxFailedWrites   \* bound: writes that raise

Jobs == QaJobs \cup ResearchJobs

ASSUME JobsAssumption ==
    /\ QaJobs \cap ResearchJobs = {}
    /\ MaxRestarts \in Nat
    /\ MaxFailedWrites \in Nat

VARIABLES
    jobs,          \* jobs[j]: the record of j in memory
    jobFile,       \* jobFile[j]: what job.json holds
    resultFile,    \* resultFile[j]: what result.json holds
    worker,        \* worker[j]: where the thread of j is
    produced,      \* produced[j]: what the executor returned to that thread
    accepted,      \* jobs whose identifier a client was given
    refused,       \* jobs whose creation failed
    online,        \* the service takes question answering jobs: online_enabled
                   \* and, with the default client, the deployment model
    executions,    \* executions[j]: calls of the executor for j
    restarts,      \* restarts so far
    failedWrites   \* failed writes so far

memory == <<jobs, worker, produced, online>>
disk == <<jobFile, resultFile>>
clients == <<accepted, refused>>
vars == <<memory, disk, clients, executions, restarts, failedWrites>>

---------------------------------------------------------------------------
(* Records *)

ExecutorResult == {"answer", "refusal"}    \* execution_status success, or another
Result == ExecutorResult \cup {"none", "provider_failed", "report"}

ResearchStatus == {"complete", "partial", "insufficient_evidence", "failed"}
Terminal == {"completed", "failed"} \cup ResearchStatus
Status == {"absent", "queued", "retrieving", "generating", "validating"} \cup Terminal

\* translation_started and translation_completed stand for translation_skipped
\* as well: the language of the query decides.
Event == {"job_created", "translation_started", "translation_completed", "retrieval_completed",
          "generation_started", "generation_completed", "validation_completed", "job_completed",
          "job_failed", "offline_demo_loaded", "replay_completed"}

JobType == [status : Status, events : Seq(Event), result : Result]
FileType == [status : Status, events : Seq(Event)]

Step == {"idle", "start", "retrieve", "retrieved", "store", "generate", "execute", "executing",
         "validate", "conclude", "save", "failing"}

NoJob == [status |-> "absent", events |-> <<>>, result |-> "none"]
NoFile == [status |-> "absent", events |-> <<>>]

InMemory(j) == jobs[j].status # "absent"
OnDisk(j) == jobFile[j].status # "absent"

QueuedJob == [status |-> "queued", events |-> <<"job_created">>, result |-> "none"]

ResearchJob(status) ==
    [status |-> status, events |-> <<"job_created", "offline_demo_loaded", "replay_completed">>,
     result |-> "report"]

Noted(job, event) == [job EXCEPT !.events = Append(@, event)]
Moved(job, status, event) == [job EXCEPT !.status = status, !.events = Append(@, event)]

\* The status a job ends in with a result.
Verdict(result) == IF result = "answer" THEN "completed" ELSE "failed"

Conclusion(result) == IF result = "answer" THEN "job_completed" ELSE "job_failed"

Concluded(job, result) ==
    [job EXCEPT !.status = Verdict(result), !.events = Append(@, Conclusion(result)),
                !.result = result]

\* Mutant: the loader starts a new list of events.
LoadedWithoutEvents(j) ==
    [status |-> jobFile[j].status, events |-> <<>>, result |-> resultFile[j]]

\* What the loader puts in memory: result.json is not mentioned in job.json.
Loaded(j) ==
    [status |-> jobFile[j].status, events |-> jobFile[j].events, result |-> resultFile[j]]

\* What a request that reads j is answered from.
Visible(j) == IF InMemory(j) \/ ~OnDisk(j) THEN jobs[j] ELSE Loaded(j)

---------------------------------------------------------------------------
(* Writing files *)

JobWritten(j, job) ==
    /\ jobFile' = [jobFile EXCEPT ![j] = [status |-> job.status, events |-> job.events]]
    /\ UNCHANGED <<resultFile, failedWrites>>

WriteFails ==
    /\ failedWrites < MaxFailedWrites
    /\ failedWrites' = failedWrites + 1
    /\ UNCHANGED disk

GoTo(j, step) == worker' = [worker EXCEPT ![j] = step]

---------------------------------------------------------------------------
(* Requests that create a job *)

New(j) == j \notin accepted \cup refused

\* A job whose file cannot be written stays queued in memory, without a thread
\* and unknown to the client.
CreateJob(j) ==
    /\ New(j) /\ online
    /\ jobs' = [jobs EXCEPT ![j] = QueuedJob]
    /\ \/ /\ JobWritten(j, QueuedJob)
          /\ GoTo(j, "start")
          /\ accepted' = accepted \cup {j}
          /\ UNCHANGED refused
       \/ /\ WriteFails
          /\ refused' = refused \cup {j}
          /\ UNCHANGED <<worker, accepted>>
    /\ UNCHANGED <<produced, online, executions, restarts>>

CreateJobRefused(j) ==
    /\ New(j) /\ ~online
    /\ refused' = refused \cup {j}
    /\ UNCHANGED <<memory, disk, accepted, executions, restarts, failedWrites>>

\* A deep research job is read from local artifacts and over at once; a file
\* that cannot be written is ignored.
CreateDeepResearchJob(j) ==
    /\ New(j)
    /\ \E status \in ResearchStatus :
          /\ jobs' = [jobs EXCEPT ![j] = ResearchJob(status)]
          /\ JobWritten(j, ResearchJob(status)) \/ WriteFails
    /\ accepted' = accepted \cup {j}
    /\ UNCHANGED <<worker, produced, online, refused, executions, restarts>>

---------------------------------------------------------------------------
(* The thread of a job *)

SetStatus(j, status, event, next) ==
    LET job == Moved(jobs[j], status, event)
    IN  /\ jobs' = [jobs EXCEPT ![j] = job]
        /\ \/ JobWritten(j, job) /\ GoTo(j, next)
           \/ WriteFails /\ GoTo(j, "failing")
        /\ UNCHANGED <<produced, online, clients, executions, restarts>>

\* Events between two statuses are noted without the lock and not written.
Note(j, event, next) ==
    /\ jobs' = [jobs EXCEPT ![j] = Noted(@, event)]
    /\ GoTo(j, next)
    /\ UNCHANGED <<online, disk, clients, restarts, failedWrites>>

Raises(j) ==
    /\ GoTo(j, "failing")
    /\ UNCHANGED <<jobs, produced, online, disk, clients, executions, restarts, failedWrites>>

StartRetrieval(j) ==
    /\ worker[j] = "start"
    /\ SetStatus(j, "retrieving", "translation_started", "retrieve")

\* Mutant: the retrieval is outside the try block.
RetrieveUnguarded(j) ==
    /\ worker[j] = "retrieve"
    /\ \/ Note(j, "translation_completed", "retrieved") /\ UNCHANGED <<produced, executions>>
       \/ /\ GoTo(j, "idle")
          /\ UNCHANGED <<jobs, produced, online, disk, clients, executions, restarts, failedWrites>>

\* The retrieval, with its translation, answers or raises.
Retrieve(j) ==
    /\ worker[j] = "retrieve"
    /\ \/ Note(j, "translation_completed", "retrieved") /\ UNCHANGED <<produced, executions>>
       \/ Raises(j)

NoteRetrieval(j) ==
    /\ worker[j] = "retrieved"
    /\ Note(j, "retrieval_completed", "store")
    /\ UNCHANGED <<produced, executions>>

\* The passages are read again and retrieval.json is written.
StoreRetrieval(j) ==
    /\ worker[j] = "store"
    /\ \/ /\ GoTo(j, "generate")
          /\ UNCHANGED <<jobs, produced, online, disk, clients, executions, restarts, failedWrites>>
       \/ Raises(j)

StartGeneration(j) ==
    /\ worker[j] = "generate"
    /\ SetStatus(j, "generating", "generation_started", "execute")

Execute(j) ==
    /\ worker[j] = "execute"
    /\ executions' = [executions EXCEPT ![j] = @ + 1]
    /\ GoTo(j, "executing")
    /\ UNCHANGED <<jobs, produced, online, disk, clients, restarts, failedWrites>>

\* The executor returns a result, or raises.
Executed(j) ==
    /\ worker[j] = "executing"
    /\ \/ /\ \E result \in ExecutorResult : produced' = [produced EXCEPT ![j] = result]
          /\ Note(j, "generation_completed", "validate")
          /\ UNCHANGED executions
       \/ Raises(j)

StartValidation(j) ==
    /\ worker[j] = "validate"
    /\ SetStatus(j, "validating", "validation_completed", "conclude")

\* Mutant: a job.json that cannot be written is ignored, as for deep research.
ConcludeUnwritten(j) ==
    /\ worker[j] = "conclude"
    /\ LET job == Concluded(jobs[j], produced[j])
       IN  /\ jobs' = [jobs EXCEPT ![j] = job]
           /\ JobWritten(j, job) \/ WriteFails
    /\ GoTo(j, "save")
    /\ UNCHANGED <<produced, online, clients, executions, restarts>>

\* The conclusion is visible as soon as the lock is released, also when its
\* job.json could not be written.
Conclude(j) ==
    /\ worker[j] = "conclude"
    /\ LET job == Concluded(jobs[j], produced[j])
       IN  /\ jobs' = [jobs EXCEPT ![j] = job]
           /\ \/ JobWritten(j, job) /\ GoTo(j, "save")
              \/ WriteFails /\ GoTo(j, "failing")
    /\ UNCHANGED <<produced, online, clients, executions, restarts>>

\* result.json is written after the lock is released.
SaveResult(j) ==
    /\ worker[j] = "save"
    /\ \/ /\ resultFile' = [resultFile EXCEPT ![j] = produced[j]]
          /\ GoTo(j, "idle")
          /\ UNCHANGED <<jobFile, failedWrites>>
       \/ WriteFails /\ GoTo(j, "failing")
    /\ UNCHANGED <<jobs, produced, online, clients, executions, restarts>>

\* Mutant: the handler keeps the result that is there.
FailKeepingResult(j) ==
    /\ worker[j] = "failing"
    /\ LET job == Moved(jobs[j], "failed", "job_failed")
       IN  /\ jobs' = [jobs EXCEPT ![j] = job]
           /\ JobWritten(j, job) \/ WriteFails
    /\ GoTo(j, "idle")
    /\ UNCHANGED <<produced, online, clients, executions, restarts>>

\* The handler of every exception of the thread; result.json is not written.
\* An exception of its own write ends the thread.
Fail(j) ==
    /\ worker[j] = "failing"
    /\ LET job == Concluded(jobs[j], "provider_failed")
       IN  /\ jobs' = [jobs EXCEPT ![j] = job]
           /\ JobWritten(j, job) \/ WriteFails
    /\ GoTo(j, "idle")
    /\ UNCHANGED <<produced, online, clients, executions, restarts>>

---------------------------------------------------------------------------
(* Requests that read a job, and restarts *)

\* Mutant: a job that is in memory is loaded again.
LoadAlways(j) ==
    /\ j \in accepted
    /\ OnDisk(j)
    /\ jobs' = [jobs EXCEPT ![j] = Loaded(j)]
    /\ UNCHANGED <<worker, produced, online, disk, clients, executions, restarts, failedWrites>>

\* Mutant: a job that was not over is started again when it is loaded.
LoadAndStart(j) ==
    /\ j \in accepted
    /\ ~InMemory(j) /\ OnDisk(j)
    /\ jobs' = [jobs EXCEPT ![j] = Loaded(j)]
    /\ IF jobFile[j].status \in Terminal THEN UNCHANGED worker ELSE GoTo(j, "start")
    /\ UNCHANGED <<produced, online, disk, clients, executions, restarts, failedWrites>>

\* Every request for the status, the events or the result of a job first loads
\* a job that is not in memory; reading changes nothing else.
LoadPersistedJob(j) ==
    /\ j \in accepted
    /\ ~InMemory(j) /\ OnDisk(j)
    /\ jobs' = [jobs EXCEPT ![j] = Loaded(j)]
    /\ UNCHANGED <<worker, produced, online, disk, clients, executions, restarts, failedWrites>>

\* The process stops with its threads at any point; the next one starts with
\* no job in memory, online or offline.
Restart ==
    /\ restarts < MaxRestarts
    /\ restarts' = restarts + 1
    /\ jobs' = [j \in Jobs |-> NoJob]
    /\ worker' = [j \in Jobs |-> "idle"]
    /\ produced' = [j \in Jobs |-> "none"]
    /\ online' \in BOOLEAN
    /\ UNCHANGED <<disk, clients, executions, failedWrites>>

---------------------------------------------------------------------------
(* Specification *)

Init ==
    /\ jobs = [j \in Jobs |-> NoJob]
    /\ jobFile = [j \in Jobs |-> NoFile]
    /\ resultFile = [j \in Jobs |-> "none"]
    /\ worker = [j \in Jobs |-> "idle"]
    /\ produced = [j \in Jobs |-> "none"]
    /\ accepted = {}
    /\ refused = {}
    /\ online \in BOOLEAN
    /\ executions = [j \in Jobs |-> 0]
    /\ restarts = 0
    /\ failedWrites = 0

Work(j) ==
    \/ StartRetrieval(j)
    \/ Retrieve(j)
    \/ NoteRetrieval(j)
    \/ StoreRetrieval(j)
    \/ StartGeneration(j)
    \/ Execute(j)
    \/ Executed(j)
    \/ StartValidation(j)
    \/ Conclude(j)
    \/ SaveResult(j)
    \/ Fail(j)

Next ==
    \/ \E j \in QaJobs : CreateJob(j) \/ CreateJobRefused(j) \/ Work(j)
    \/ \E j \in ResearchJobs : CreateDeepResearchJob(j)
    \/ \E j \in Jobs : LoadPersistedJob(j)
    \/ Restart

Spec == Init /\ [][Next]_vars

\* Threads are scheduled, and the calls they make return or time out
\* (llm/client.py:81, 148); nothing obliges a client or a restart.
FairSpec == Spec /\ \A j \in QaJobs : WF_vars(Work(j))

---------------------------------------------------------------------------
(* Properties *)

\* Every variable has its type.
TypeOK ==
    /\ jobs \in [Jobs -> JobType]
    /\ jobFile \in [Jobs -> FileType]
    /\ resultFile \in [Jobs -> ExecutorResult \cup {"none"}]
    /\ worker \in [Jobs -> Step]
    /\ produced \in [Jobs -> ExecutorResult \cup {"none"}]
    /\ accepted \subseteq Jobs /\ refused \subseteq Jobs
    /\ online \in BOOLEAN
    /\ executions \in [Jobs -> Nat]
    /\ restarts \in 0..MaxRestarts
    /\ failedWrites \in 0..MaxFailedWrites

\* The two files of a job are written one after the other, without the lock for
\* the second: whenever result.json is there, job.json holds the conclusion
\* drawn from it, so that no reload combines a result with another status.
FilesAgree ==
    \A j \in Jobs : resultFile[j] # "none" => jobFile[j].status = Verdict(resultFile[j])

\* An answer is shown only as that of a completed job, and never with the
\* status of a job that is running or failed: whether the record comes from
\* the thread, its exception handler or the files of an earlier process.
AnswersAreCompleted ==
    \A j \in Jobs : Visible(j).result = "answer" => Visible(j).status = "completed"

\* The events in job.json are a beginning of those in memory: the events noted
\* without the lock and the records loaded from files never disagree with what
\* was written.
FileIsAPastOfMemory ==
    \A j \in Jobs : InMemory(j) => IsPrefix(jobFile[j].events, jobs[j].events)

\* What there is of a job, the record in memory or loaded again and its two files, never tells
\* two stories, wherever a thread, a reader, a failing write and a restart meet.
RecordsAgree == FilesAgree /\ AnswersAreCompleted /\ FileIsAPastOfMemory

\* A job is given to the executor at most once, whatever fails and however
\* often the service restarts: "single-execution" in docs/API.md:38.
SingleExecution == \A j \in QaJobs : executions[j] <= 1

Rank(status) ==
    CASE status = "absent" -> 0
      [] status = "queued" -> 1
      [] status = "retrieving" -> 2
      [] status = "generating" -> 3
      [] status = "validating" -> 4
      [] status = "completed" -> 5
      [] OTHER -> 6

\* As long as the service runs, what a client is shown of a job only moves
\* forward: no event is taken back, no status returns to an earlier one, and a
\* failure is final, although the record is moved by the thread, by its
\* exception handler and by the loader.
NeverBackwards ==
    [][restarts' = restarts =>
         \A j \in Jobs : /\ Rank(Visible(j).status) <= Rank(Visible(j).status')
                         /\ IsPrefix(Visible(j).events, Visible(j).events')]_vars

\* A thread comes to its end and leaves its job completed or failed in memory,
\* unless the service restarts: no failure of the retrieval, the executor or a
\* write leaves a job running for good.
EveryJobConcludes ==
    \A j \in QaJobs : \A n \in 0..MaxRestarts :
        (worker[j] # "idle" /\ restarts = n)
            ~> (restarts > n \/ (worker[j] = "idle" /\ jobs[j].status \in Terminal))

\* "new jobs survive container restarts" (docs/DOCKER_DEMO.md:9) and "a
\* completed job is reloadable from its file-backed artifact"
\* (tests/test_mvp_api.py:275): an answer that could be read can be read after
\* a restart.
AnswersSurviveRestarts ==
    [][\A j \in QaJobs : Visible(j).result = "answer" => Visible(j).result' = "answer"]_vars

=============================================================================
