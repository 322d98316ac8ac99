--------------------------- MODULE MvpJobs_proofs ---------------------------
(***************************************************************************)
(* Theorems about the job service, for any jobs, any number of restarts    *)
(* and any number of failed writes.                                        *)
(***************************************************************************)
EXTENDS MvpJobs, TLAPS

---------------------------------------------------------------------------
(* The inductive invariant *)

BeforeExecution == {"start", "retrieve", "retrieved", "store", "generate", "execute"}
BeforeConclusion == BeforeExecution \cup {"executing", "validate", "conclude"}

\* What is known of a job while its thread is at a step of _run_job.
ThreadOf(j) ==
    /\ worker[j] # "idle" => j \in QaJobs /\ j \in accepted /\ resultFile[j] = "none"
    /\ worker[j] \in BeforeExecution => executions[j] = 0
    /\ worker[j] \in BeforeConclusion => jobs[j].result # "answer"
    /\ worker[j] \in {"validate", "conclude", "save"} => produced[j] \in ExecutorResult
    /\ worker[j] = "save" => jobFile[j].status = Verdict(produced[j])

\* Nothing is known of a job before its creation.
NothingBefore(j) ==
    New(j) => resultFile[j] = "none" /\ executions[j] = 0

AnswerInMemory(j) == jobs[j].result = "answer" => jobs[j].status = "completed"

JobInv ==
    /\ TypeOK
    /\ FilesAgree
    /\ SingleExecution
    /\ \A j \in Jobs : ThreadOf(j) /\ NothingBefore(j) /\ AnswerInMemory(j)

---------------------------------------------------------------------------
(* Lemmas *)

\* What the updates of a record return.
LEMMA RecordUpdates ==
  ASSUME NEW job \in JobType, NEW status \in Status, NEW event \in Event, NEW result \in Result
  PROVE  /\ Noted(job, event) \in JobType
         /\ Noted(job, event).result = job.result
         /\ Noted(job, event).status = job.status
         /\ Moved(job, status, event) \in JobType
         /\ Moved(job, status, event).result = job.result
         /\ Moved(job, status, event).status = status
         /\ Concluded(job, result) \in JobType
         /\ Concluded(job, result).result = result
         /\ Concluded(job, result).status = Verdict(result)
         /\ Concluded(job, result).events = Append(job.events, Conclusion(result))
         /\ Conclusion(result) \in Event
<1>1. Verdict(result) \in Status /\ Conclusion(result) \in Event
  BY DEF Verdict, Status, Terminal, Conclusion, Event
<1>2. \A e \in Event : Append(job.events, e) \in Seq(Event)
  BY DEF JobType
<1> QED
  BY <1>1, <1>2 DEF JobType, Noted, Moved, Concluded

\* A job.json that is written holds the status and the events of the record, a
\* write that fails leaves both files as they are.
LEMMA WrittenFile ==
  ASSUME TypeOK, NEW j \in Jobs, NEW job \in JobType
  PROVE  /\ JobWritten(j, job) =>
              /\ jobFile' \in [Jobs -> FileType]
              /\ jobFile'[j].status = job.status
              /\ \A k \in Jobs : k # j => jobFile'[k] = jobFile[k]
              /\ resultFile' = resultFile
              /\ failedWrites' \in 0..MaxFailedWrites
         /\ WriteFails =>
              /\ jobFile' = jobFile
              /\ resultFile' = resultFile
              /\ failedWrites' \in 0..MaxFailedWrites
<1>1. [status |-> job.status, events |-> job.events] \in FileType
  BY DEF JobType, FileType
<1>2. JobWritten(j, job) => /\ jobFile' \in [Jobs -> FileType]
                            /\ jobFile'[j].status = job.status
                            /\ \A k \in Jobs : k # j => jobFile'[k] = jobFile[k]
  BY <1>1 DEF TypeOK, JobWritten
<1> QED
  BY <1>2, JobsAssumption DEF TypeOK, JobWritten, WriteFails, disk

---------------------------------------------------------------------------
(* The steps *)

\* The initial states satisfy the invariant.
LEMMA InitJobInv == Init => JobInv
<1> SUFFICES ASSUME Init PROVE JobInv
  OBVIOUS
<1>1. NoJob \in JobType /\ NoFile \in FileType
  BY DEF NoJob, NoFile, JobType, FileType, Status, Result
<1>2. TypeOK
  BY <1>1, JobsAssumption DEF Init, TypeOK, Step
<1> QED
  BY <1>2 DEF Init, JobInv, FilesAgree, SingleExecution, ThreadOf, NothingBefore, AnswerInMemory,
         BeforeExecution, BeforeConclusion, NoJob, Jobs

\* The creation of a job of either kind.
LEMMA CreateJobInv ==
  ASSUME JobInv, NEW j \in Jobs,
         \/ j \in QaJobs /\ (CreateJob(j) \/ CreateJobRefused(j))
         \/ CreateDeepResearchJob(j)
  PROVE  JobInv'
<1>1. QueuedJob \in JobType /\ \A s \in ResearchStatus : ResearchJob(s) \in JobType
  BY DEF QueuedJob, ResearchJob, JobType, Status, Terminal, ResearchStatus, Result, Event
<1>2. CASE j \in QaJobs /\ CreateJob(j)
  <2>1. /\ jobs' = [jobs EXCEPT ![j] = QueuedJob]
        /\ executions' = executions /\ produced' = produced /\ restarts' = restarts
        /\ online' = online
    BY <1>2 DEF CreateJob
  <2>2. TypeOK'
    BY <1>1, <1>2, <2>1, WrittenFile DEF CreateJob, JobInv, TypeOK, GoTo, Step
  <2>3. resultFile' = resultFile /\ resultFile[j] = "none" /\ executions[j] = 0
    BY <1>1, <1>2, WrittenFile DEF CreateJob, JobInv, NothingBefore
  <2>4. \A k \in Jobs : k # j => jobFile'[k] = jobFile[k] /\ worker'[k] = worker[k]
                                 /\ jobs'[k] = jobs[k]
    BY <1>1, <1>2, <2>1, WrittenFile DEF CreateJob, JobInv, TypeOK, GoTo
  <2>5. worker[j] = "idle" /\ accepted \subseteq accepted' /\ refused \subseteq refused'
    BY <1>2 DEF CreateJob, JobInv, ThreadOf, New
  <2>6. worker'[j] \in {"idle", "start"} /\ (worker'[j] = "start" => j \in accepted')
    BY <1>2, <2>5 DEF CreateJob, JobInv, TypeOK, GoTo
  <2>7. jobs'[j].result = "none"
    BY <2>1 DEF JobInv, TypeOK, QueuedJob
  <2>8. \A k \in Jobs : (ThreadOf(k) /\ NothingBefore(k) /\ AnswerInMemory(k))'
    <3> SUFFICES ASSUME NEW k \in Jobs PROVE (ThreadOf(k) /\ NothingBefore(k) /\ AnswerInMemory(k))'
      OBVIOUS
    <3>1. CASE k = j
      BY <1>2, <3>1, <2>1, <2>3, <2>6, <2>7
         DEF ThreadOf, NothingBefore, AnswerInMemory, BeforeExecution, BeforeConclusion
    <3>2. CASE k # j
      BY <3>2, <2>1, <2>3, <2>4, <2>5 DEF JobInv, ThreadOf, NothingBefore, AnswerInMemory, New
    <3> QED
      BY <3>1, <3>2
  <2> QED
    BY <2>1, <2>2, <2>3, <2>4, <2>8 DEF JobInv, FilesAgree, SingleExecution
<1>3. CASE j \in QaJobs /\ CreateJobRefused(j)
  BY <1>3 DEF CreateJobRefused, memory, disk, JobInv, TypeOK, FilesAgree, SingleExecution,
         ThreadOf, NothingBefore, AnswerInMemory, New
<1>4. CASE CreateDeepResearchJob(j)
  <2> PICK status \in ResearchStatus :
         /\ jobs' = [jobs EXCEPT ![j] = ResearchJob(status)]
         /\ JobWritten(j, ResearchJob(status)) \/ WriteFails
    BY <1>4 DEF CreateDeepResearchJob
  <2>1. /\ worker' = worker /\ produced' = produced /\ executions' = executions
        /\ accepted' = accepted \cup {j} /\ refused' = refused
        /\ restarts' = restarts /\ online' = online
    BY <1>4 DEF CreateDeepResearchJob
  <2>2. TypeOK'
    BY <1>1, <2>1, WrittenFile DEF JobInv, TypeOK
  <2>3. resultFile' = resultFile /\ resultFile[j] = "none" /\ worker[j] = "idle"
    BY <1>1, <1>4, WrittenFile DEF CreateDeepResearchJob, JobInv, NothingBefore, ThreadOf, New
  <2>4. \A k \in Jobs : k # j => jobFile'[k] = jobFile[k] /\ jobs'[k] = jobs[k]
    BY <1>1, WrittenFile DEF JobInv, TypeOK
  <2>5. jobs'[j].result = "report"
    BY DEF JobInv, TypeOK, ResearchJob
  <2>6. \A k \in Jobs : (ThreadOf(k) /\ NothingBefore(k) /\ AnswerInMemory(k))'
    BY <2>1, <2>3, <2>4, <2>5
       DEF JobInv, ThreadOf, NothingBefore, AnswerInMemory, BeforeExecution, BeforeConclusion, New
  <2> QED
    BY <2>1, <2>2, <2>3, <2>4, <2>6 DEF JobInv, FilesAgree, SingleExecution
<1> QED
  BY <1>2, <1>3, <1>4

\* A step that concerns one job only leaves the invariant to be shown for it.
LEMMA OneJob ==
  ASSUME JobInv, NEW j \in QaJobs, j \in accepted, TypeOK',
         accepted' = accepted, refused' = refused,
         \A k \in Jobs : k # j => /\ jobs'[k] = jobs[k] /\ worker'[k] = worker[k]
                                 /\ produced'[k] = produced[k] /\ executions'[k] = executions[k]
                                 /\ jobFile'[k] = jobFile[k] /\ resultFile'[k] = resultFile[k],
         ThreadOf(j)', AnswerInMemory(j)', executions'[j] <= 1,
         resultFile'[j] # "none" => jobFile'[j].status = Verdict(resultFile'[j])
  PROVE  JobInv'
<1>1. \A k \in Jobs : (ThreadOf(k) /\ NothingBefore(k) /\ AnswerInMemory(k))'
  BY DEF JobInv, ThreadOf, NothingBefore, AnswerInMemory, New
<1>2. FilesAgree'
  BY DEF JobInv, FilesAgree
<1>3. SingleExecution'
  BY DEF JobInv, SingleExecution, Jobs
<1> QED
  BY <1>1, <1>2, <1>3 DEF JobInv

\* A change of status, with its job.json.
LEMMA SetStatusInv ==
  ASSUME JobInv, NEW j \in QaJobs, NEW from \in BeforeConclusion, NEW next \in BeforeConclusion,
         worker[j] = from,
         NEW status \in Status, NEW event \in Event, SetStatus(j, status, event, next),
         next \in BeforeExecution => from \in BeforeExecution,
         next \in {"validate", "conclude"} => from \in {"validate", "conclude"}
  PROVE  JobInv'
<1> DEFINE job == Moved(jobs[j], status, event)
<1>1. j \in Jobs /\ j \in accepted /\ resultFile[j] = "none" /\ jobs[j].result # "answer"
  BY DEF JobInv, ThreadOf, BeforeConclusion, BeforeExecution, Jobs
<1>2. job \in JobType /\ job.result = jobs[j].result
  <2>1. jobs[j] \in JobType /\ "none" \in Result /\ "queued" \in Status
    BY <1>1 DEF JobInv, TypeOK, Result, Status
  <2> QED
    BY <2>1, RecordUpdates
<1>3. /\ jobs' = [jobs EXCEPT ![j] = job]
      /\ \/ JobWritten(j, job) /\ worker' = [worker EXCEPT ![j] = next]
         \/ WriteFails /\ worker' = [worker EXCEPT ![j] = "failing"]
      /\ produced' = produced /\ online' = online /\ accepted' = accepted /\ refused' = refused
      /\ executions' = executions /\ restarts' = restarts
  BY DEF SetStatus, GoTo, clients
<1> HIDE DEF job
<1>4. /\ jobFile' \in [Jobs -> FileType] /\ failedWrites' \in 0..MaxFailedWrites
      /\ \A k \in Jobs : k # j => jobFile'[k] = jobFile[k]
      /\ resultFile' = resultFile
  BY <1>1, <1>2, <1>3, WrittenFile DEF JobInv, TypeOK
<1>5. next \in Step
  BY DEF BeforeConclusion, BeforeExecution, Step
<1>6. TypeOK'
  <2>1. worker' \in [Jobs -> Step]
    BY <1>3, <1>5 DEF JobInv, TypeOK, Step
  <2>2. jobs' \in [Jobs -> JobType]
    BY <1>2, <1>3 DEF JobInv, TypeOK
  <2> QED
    BY <1>3, <1>4, <2>1, <2>2 DEF JobInv, TypeOK
<1>7. worker'[j] \in {next, "failing"} /\ jobs'[j] = job
  BY <1>1, <1>3 DEF JobInv, TypeOK
<1>8. ThreadOf(j)' /\ AnswerInMemory(j)'
  BY <1>1, <1>2, <1>3, <1>4, <1>7
     DEF JobInv, ThreadOf, AnswerInMemory, BeforeConclusion, BeforeExecution
<1>9. executions'[j] <= 1
  BY <1>3 DEF JobInv, SingleExecution
<1> QED
  BY <1>1, <1>3, <1>4, <1>6, <1>8, <1>9, OneJob DEF JobInv, TypeOK

\* An event noted between two statuses, and what the executor returned.
LEMMA NoteInv ==
  ASSUME JobInv, NEW j \in QaJobs, NEW from \in BeforeConclusion, NEW next \in BeforeConclusion,
         worker[j] = from,
         NEW event \in Event, Note(j, event, next), executions' = executions,
         produced' \in [Jobs -> ExecutorResult \cup {"none"}],
         \A k \in Jobs : k # j => produced'[k] = produced[k],
         next \in BeforeExecution => from \in BeforeExecution,
         next \in {"validate", "conclude"} => produced'[j] \in ExecutorResult
  PROVE  JobInv'
<1> DEFINE job == Noted(jobs[j], event)
<1>1. j \in Jobs /\ j \in accepted /\ resultFile[j] = "none" /\ jobs[j].result # "answer"
  BY DEF JobInv, ThreadOf, BeforeConclusion, BeforeExecution, Jobs
<1>2. job \in JobType /\ job.result = jobs[j].result
  <2>1. jobs[j] \in JobType /\ "none" \in Result /\ "queued" \in Status
    BY <1>1 DEF JobInv, TypeOK, Result, Status
  <2> QED
    BY <2>1, RecordUpdates
<1>3. /\ jobs' = [jobs EXCEPT ![j] = job]
      /\ worker' = [worker EXCEPT ![j] = next]
      /\ online' = online /\ accepted' = accepted /\ refused' = refused
      /\ jobFile' = jobFile /\ resultFile' = resultFile
      /\ restarts' = restarts /\ failedWrites' = failedWrites
  BY DEF Note, GoTo, clients, disk
<1> HIDE DEF job
<1>4. next \in Step
  BY DEF BeforeConclusion, BeforeExecution, Step
<1>5. TypeOK'
  BY <1>2, <1>3, <1>4 DEF JobInv, TypeOK
<1>6. worker'[j] = next /\ jobs'[j] = job
  BY <1>1, <1>3 DEF JobInv, TypeOK
<1>7. ThreadOf(j)' /\ AnswerInMemory(j)'
  BY <1>1, <1>2, <1>3, <1>6
     DEF JobInv, ThreadOf, AnswerInMemory, BeforeConclusion, BeforeExecution
<1>8. executions'[j] <= 1
  BY DEF JobInv, SingleExecution
<1> QED
  BY <1>1, <1>3, <1>5, <1>7, <1>8, OneJob DEF JobInv, TypeOK

\* A step that changes where the thread is and nothing else.
LEMMA MoveInv ==
  ASSUME JobInv, NEW j \in QaJobs, NEW next \in Step, worker[j] \in BeforeConclusion,
         GoTo(j, next),
         UNCHANGED <<jobs, produced, online, disk, clients, executions, restarts, failedWrites>>,
         \/ next = "failing"
         \/ worker[j] \in BeforeExecution /\ next \in BeforeExecution
  PROVE  JobInv'
<1>1. j \in Jobs /\ j \in accepted /\ resultFile[j] = "none" /\ jobs[j].result # "answer"
  BY DEF JobInv, ThreadOf, BeforeConclusion, BeforeExecution, Jobs
<1>2. /\ worker' = [worker EXCEPT ![j] = next] /\ jobs' = jobs /\ produced' = produced
      /\ online' = online /\ jobFile' = jobFile /\ resultFile' = resultFile
      /\ accepted' = accepted /\ refused' = refused /\ executions' = executions
      /\ restarts' = restarts /\ failedWrites' = failedWrites
  BY DEF GoTo, disk, clients
<1>3. TypeOK'
  BY <1>2 DEF JobInv, TypeOK
<1>4. ThreadOf(j)' /\ AnswerInMemory(j)'
  BY <1>1, <1>2 DEF JobInv, TypeOK, ThreadOf, AnswerInMemory, BeforeConclusion, BeforeExecution
<1>5. executions'[j] <= 1
  BY <1>2 DEF JobInv, SingleExecution
<1> QED
  BY <1>1, <1>2, <1>3, <1>4, <1>5, OneJob DEF JobInv, TypeOK

\* The conclusion of a job, in memory and in job.json.
LEMMA ConcludeInv ==
  ASSUME JobInv, NEW j \in QaJobs, Conclude(j)
  PROVE  JobInv'
<1> DEFINE job == Concluded(jobs[j], produced[j])
<1>1. /\ j \in Jobs /\ j \in accepted /\ resultFile[j] = "none"
      /\ produced[j] \in ExecutorResult
  BY DEF Conclude, JobInv, ThreadOf, Jobs
<1>2. job \in JobType /\ job.result = produced[j] /\ job.status = Verdict(produced[j])
  <2>1. /\ jobs[j] \in JobType /\ produced[j] \in Result
        /\ "job_failed" \in Event /\ "failed" \in Status
    BY <1>1 DEF JobInv, TypeOK, Result, Event, Status, Terminal
  <2> QED
    BY <2>1, RecordUpdates
<1>3. /\ jobs' = [jobs EXCEPT ![j] = job]
      /\ \/ JobWritten(j, job) /\ worker' = [worker EXCEPT ![j] = "save"]
         \/ WriteFails /\ worker' = [worker EXCEPT ![j] = "failing"]
      /\ produced' = produced /\ online' = online /\ accepted' = accepted /\ refused' = refused
      /\ executions' = executions /\ restarts' = restarts
  BY DEF Conclude, GoTo, clients
<1> HIDE DEF job
<1>4. /\ jobFile' \in [Jobs -> FileType] /\ failedWrites' \in 0..MaxFailedWrites
      /\ \A k \in Jobs : k # j => jobFile'[k] = jobFile[k]
      /\ JobWritten(j, job) => jobFile'[j].status = job.status
      /\ resultFile' = resultFile
  BY <1>1, <1>2, <1>3, WrittenFile DEF JobInv, TypeOK
<1>5. TypeOK'
  BY <1>2, <1>3, <1>4 DEF JobInv, TypeOK, Step
<1>6. jobs'[j] = job /\ (worker'[j] = "failing" \/ (worker'[j] = "save" /\ JobWritten(j, job)))
  BY <1>1, <1>3 DEF JobInv, TypeOK
<1>7. ThreadOf(j)' /\ AnswerInMemory(j)'
  BY <1>1, <1>2, <1>3, <1>4, <1>6
     DEF ThreadOf, AnswerInMemory, BeforeConclusion, BeforeExecution, Verdict
<1>8. executions'[j] <= 1
  BY <1>3 DEF JobInv, SingleExecution
<1> QED
  BY <1>1, <1>3, <1>4, <1>5, <1>7, <1>8, OneJob DEF JobInv, TypeOK

\* result.json is written, or the handler takes over.
LEMMA SaveResultInv ==
  ASSUME JobInv, NEW j \in QaJobs, SaveResult(j)
  PROVE  JobInv'
<1>1. /\ j \in Jobs /\ j \in accepted /\ resultFile[j] = "none"
      /\ produced[j] \in ExecutorResult /\ jobFile[j].status = Verdict(produced[j])
  BY DEF SaveResult, JobInv, ThreadOf, Jobs
<1>2. /\ jobs' = jobs /\ jobFile' = jobFile /\ produced' = produced /\ online' = online
      /\ accepted' = accepted /\ refused' = refused
      /\ executions' = executions /\ restarts' = restarts
  BY DEF SaveResult, clients, WriteFails, disk
<1>3. \/ /\ resultFile' = [resultFile EXCEPT ![j] = produced[j]]
         /\ worker' = [worker EXCEPT ![j] = "idle"]
         /\ failedWrites' = failedWrites
      \/ /\ resultFile' = resultFile
         /\ worker' = [worker EXCEPT ![j] = "failing"]
         /\ failedWrites' \in 0..MaxFailedWrites
  BY JobsAssumption DEF SaveResult, WriteFails, disk, GoTo, JobInv, TypeOK
<1>4. TypeOK'
  BY <1>1, <1>2, <1>3 DEF JobInv, TypeOK, Step
<1>5. ThreadOf(j)' /\ AnswerInMemory(j)'
  BY <1>1, <1>2, <1>3
     DEF JobInv, TypeOK, ThreadOf, AnswerInMemory, BeforeConclusion, BeforeExecution
<1>6. executions'[j] <= 1
  BY <1>2 DEF JobInv, SingleExecution
<1> QED
  BY <1>1, <1>2, <1>3, <1>4, <1>5, <1>6, OneJob DEF JobInv, TypeOK

\* The handler of the thread's exceptions.
LEMMA FailInv ==
  ASSUME JobInv, NEW j \in QaJobs, Fail(j)
  PROVE  JobInv'
<1> DEFINE job == Concluded(jobs[j], "provider_failed")
<1>1. j \in Jobs /\ j \in accepted /\ resultFile[j] = "none"
  BY DEF Fail, JobInv, ThreadOf, Jobs
<1>2. job \in JobType /\ job.result = "provider_failed"
  <2>1. /\ jobs[j] \in JobType /\ "provider_failed" \in Result
        /\ "job_failed" \in Event /\ "failed" \in Status
    BY <1>1 DEF JobInv, TypeOK, Result, Event, Status, Terminal
  <2> QED
    BY <2>1, RecordUpdates
<1>3. /\ jobs' = [jobs EXCEPT ![j] = job]
      /\ JobWritten(j, job) \/ WriteFails
      /\ worker' = [worker EXCEPT ![j] = "idle"]
      /\ produced' = produced /\ online' = online /\ accepted' = accepted /\ refused' = refused
      /\ executions' = executions /\ restarts' = restarts
  BY DEF Fail, GoTo, clients
<1> HIDE DEF job
<1>4. /\ jobFile' \in [Jobs -> FileType] /\ failedWrites' \in 0..MaxFailedWrites
      /\ \A k \in Jobs : k # j => jobFile'[k] = jobFile[k]
      /\ resultFile' = resultFile
  BY <1>1, <1>2, <1>3, WrittenFile DEF JobInv, TypeOK
<1>5. TypeOK'
  BY <1>2, <1>3, <1>4 DEF JobInv, TypeOK, Step
<1>6. jobs'[j] = job /\ worker'[j] = "idle"
  BY <1>1, <1>3 DEF JobInv, TypeOK
<1>7. ThreadOf(j)' /\ AnswerInMemory(j)'
  BY <1>2, <1>6 DEF ThreadOf, AnswerInMemory, BeforeConclusion, BeforeExecution
<1>8. executions'[j] <= 1
  BY <1>3 DEF JobInv, SingleExecution
<1> QED
  BY <1>1, <1>3, <1>4, <1>5, <1>7, <1>8, OneJob DEF JobInv, TypeOK

\* The call of the executor.
LEMMA ExecuteInv ==
  ASSUME JobInv, NEW j \in QaJobs, Execute(j)
  PROVE  JobInv'
<1>1. /\ j \in Jobs /\ j \in accepted /\ resultFile[j] = "none"
      /\ jobs[j].result # "answer" /\ executions[j] = 0
  BY DEF Execute, JobInv, ThreadOf, BeforeExecution, BeforeConclusion, Jobs
<1>2. /\ executions' = [executions EXCEPT ![j] = executions[j] + 1]
      /\ worker' = [worker EXCEPT ![j] = "executing"]
      /\ jobs' = jobs /\ produced' = produced /\ online' = online
      /\ jobFile' = jobFile /\ resultFile' = resultFile /\ accepted' = accepted
      /\ refused' = refused /\ restarts' = restarts /\ failedWrites' = failedWrites
  BY DEF Execute, GoTo, disk, clients
<1>3. TypeOK'
  BY <1>1, <1>2 DEF JobInv, TypeOK, Step
<1>4. /\ ThreadOf(j)' /\ AnswerInMemory(j)'
      /\ executions'[j] <= 1
  BY <1>1, <1>2
     DEF JobInv, TypeOK, ThreadOf, AnswerInMemory, BeforeConclusion, BeforeExecution
<1> QED
  BY <1>1, <1>2, <1>3, <1>4, OneJob DEF JobInv, TypeOK

\* Every step of a thread.
LEMMA WorkInv ==
  ASSUME JobInv, NEW j \in QaJobs, Work(j)
  PROVE  JobInv'
<1> USE DEF BeforeConclusion, BeforeExecution
<1>1. "retrieving" \in Status /\ "generating" \in Status /\ "validating" \in Status
  BY DEF Status
<1>2. CASE StartRetrieval(j)
  BY <1>1, <1>2, SetStatusInv DEF StartRetrieval, Event
<1>3. CASE Retrieve(j)
  <2>1. CASE Note(j, "translation_completed", "retrieved") /\ UNCHANGED <<produced, executions>>
    BY <1>3, <2>1, NoteInv DEF Retrieve, Event, JobInv, TypeOK
  <2>2. CASE Raises(j)
    BY <1>3, <2>2, MoveInv DEF Retrieve, Raises, Step
  <2> QED
    BY <1>3, <2>1, <2>2 DEF Retrieve
<1>4. CASE NoteRetrieval(j)
  BY <1>4, NoteInv DEF NoteRetrieval, Event, JobInv, TypeOK
<1>5. CASE StoreRetrieval(j)
  BY <1>5, MoveInv DEF StoreRetrieval, Raises, Step
<1>6. CASE StartGeneration(j)
  BY <1>1, <1>6, SetStatusInv DEF StartGeneration, Event
<1>7. CASE Execute(j)
  BY <1>7, ExecuteInv
<1>8. CASE Executed(j)
  <2>1. CASE Raises(j)
    BY <1>8, <2>1, MoveInv DEF Executed, Raises, Step
  <2>2. CASE ~Raises(j)
    <3>1. PICK result \in ExecutorResult : produced' = [produced EXCEPT ![j] = result]
      BY <1>8, <2>2 DEF Executed
    <3>2. Note(j, "generation_completed", "validate") /\ executions' = executions
      BY <1>8, <2>2 DEF Executed
    <3>3. /\ produced' \in [Jobs -> ExecutorResult \cup {"none"}]
          /\ \A k \in Jobs : k # j => produced'[k] = produced[k]
          /\ produced'[j] \in ExecutorResult
      BY <3>1 DEF JobInv, TypeOK, Jobs
    <3>4. worker[j] = "executing" /\ "generation_completed" \in Event
      BY <1>8 DEF Executed, Event
    <3>5. {"executing", "validate"} \subseteq BeforeConclusion /\ "validate" \notin BeforeExecution
      BY DEF BeforeConclusion, BeforeExecution
    <3> QED
      BY <3>2, <3>3, <3>4, <3>5, NoteInv
  <2> QED
    BY <2>1, <2>2
<1>9. CASE StartValidation(j)
  BY <1>1, <1>9, SetStatusInv DEF StartValidation, Event
<1>10. CASE Conclude(j)
  BY <1>10, ConcludeInv
<1>11. CASE SaveResult(j)
  BY <1>11, SaveResultInv
<1>12. CASE Fail(j)
  BY <1>12, FailInv
<1> QED
  BY <1>2, <1>3, <1>4, <1>5, <1>6, <1>7, <1>8, <1>9, <1>10, <1>11, <1>12 DEF Work

\* A job loaded from its files is as consistent as they are.
LEMMA LoadInv ==
  ASSUME JobInv, NEW j \in Jobs, LoadPersistedJob(j)
  PROVE  JobInv'
<1>1. /\ jobs' = [jobs EXCEPT ![j] = Loaded(j)]
      /\ worker' = worker /\ produced' = produced /\ online' = online
      /\ jobFile' = jobFile /\ resultFile' = resultFile /\ accepted' = accepted
      /\ refused' = refused /\ executions' = executions /\ restarts' = restarts
      /\ failedWrites' = failedWrites
  BY DEF LoadPersistedJob, disk, clients
<1>2. Loaded(j) \in JobType /\ (Loaded(j).result = "answer" => Loaded(j).status = "completed")
  BY DEF Loaded, JobInv, TypeOK, FilesAgree, JobType, FileType, Result, ExecutorResult, Verdict
<1>3. worker[j] # "idle" => resultFile[j] = "none"
  BY DEF JobInv, ThreadOf
<1>4. TypeOK'
  BY <1>1, <1>2 DEF JobInv, TypeOK
<1>5. \A k \in Jobs : AnswerInMemory(k)'
  BY <1>1, <1>2 DEF JobInv, TypeOK, AnswerInMemory
<1>6. Loaded(j).result = resultFile[j]
  BY DEF Loaded
<1>7. \A k \in Jobs : ThreadOf(k)'
  BY <1>1, <1>3, <1>6 DEF JobInv, TypeOK, ThreadOf, BeforeConclusion, BeforeExecution
<1>8. \A k \in Jobs : NothingBefore(k)'
  BY <1>1 DEF JobInv, NothingBefore, New
<1> QED
  BY <1>1, <1>4, <1>5, <1>7, <1>8 DEF JobInv, FilesAgree, SingleExecution

\* A restart leaves the files, and no thread.
LEMMA RestartInv ==
  ASSUME JobInv, Restart
  PROVE  JobInv'
<1>1. NoJob \in JobType /\ NoJob.result = "none"
  BY DEF NoJob, JobType, Status, Result
<1>2. TypeOK'
  BY <1>1, JobsAssumption DEF Restart, disk, clients, JobInv, TypeOK, Step
<1> QED
  BY <1>1, <1>2 DEF Restart, disk, clients, JobInv, FilesAgree, SingleExecution, ThreadOf,
     NothingBefore, AnswerInMemory, New, BeforeConclusion, BeforeExecution

\* Every step preserves the invariant.
LEMMA StepJobInv == JobInv /\ [Next]_vars => JobInv'
<1> SUFFICES ASSUME JobInv, [Next]_vars PROVE JobInv'
  OBVIOUS
<1>1. ASSUME NEW j \in QaJobs, CreateJob(j) \/ CreateJobRefused(j) PROVE JobInv'
  BY <1>1, CreateJobInv DEF Jobs
<1>2. ASSUME NEW j \in QaJobs, Work(j) PROVE JobInv'
  BY <1>2, WorkInv
<1>3. ASSUME NEW j \in ResearchJobs, CreateDeepResearchJob(j) PROVE JobInv'
  BY <1>3, CreateJobInv DEF Jobs
<1>4. ASSUME NEW j \in Jobs, LoadPersistedJob(j) PROVE JobInv'
  BY <1>4, LoadInv
<1>5. CASE Restart
  BY <1>5, RestartInv
<1>6. CASE UNCHANGED vars
  BY <1>6 DEF vars, memory, disk, clients, JobInv, TypeOK, FilesAgree, SingleExecution, ThreadOf,
     NothingBefore, AnswerInMemory, New
<1> QED
  BY <1>1, <1>2, <1>3, <1>4, <1>5, <1>6 DEF Next

\* What a client is shown comes from memory or from files that agree.
LEMMA AnswersShown == JobInv => AnswersAreCompleted
BY DEF JobInv, TypeOK, FilesAgree, AnswerInMemory, AnswersAreCompleted, Visible, Loaded, Verdict

---------------------------------------------------------------------------
(* The events written and the events in memory *)

EventsInv ==
    /\ FileIsAPastOfMemory
    /\ \A j \in Jobs : New(j) => jobFile[j].events = <<>>
    /\ \A j \in Jobs : worker[j] # "idle" => InMemory(j)

\* What an event appended to a sequence leaves a prefix of it.
LEMMA PrefixLaws ==
  ASSUME NEW s \in Seq(Event), NEW t \in Seq(Event), NEW e \in Event
  PROVE  /\ IsPrefix(s, s)
         /\ IsPrefix(<<>>, t)
         /\ IsPrefix(s, t) => IsPrefix(s, Append(t, e))
<1>1. IsPrefix(s, s) /\ IsPrefix(<<>>, t)
  BY DEF IsPrefix
<1>2. ASSUME IsPrefix(s, t) PROVE IsPrefix(s, Append(t, e))
  <2>1. Len(s) <= Len(t) /\ SubSeq(s, 1, Len(s)) = SubSeq(t, 1, Len(s))
    BY <1>2 DEF IsPrefix
  <2>2. SubSeq(Append(t, e), 1, Len(s)) = SubSeq(t, 1, Len(s))
    BY <2>1
  <2> QED
    BY <2>1, <2>2 DEF IsPrefix
<1> QED
  BY <1>1, <1>2

\* A record that is written, or one that grows by an event, keeps the file a
\* past of it.
LEMMA Grows ==
  ASSUME TypeOK, NEW j \in Jobs, NEW job \in JobType, NEW event \in Event,
         jobs' = [jobs EXCEPT ![j] = job],
         job.events = Append(jobs[j].events, event), FileIsAPastOfMemory, InMemory(j),
         JobWritten(j, job) \/ jobFile' = jobFile
  PROVE  /\ FileIsAPastOfMemory'
         /\ \A k \in Jobs : k # j => InMemory(k) = InMemory(k)'
         /\ \A k \in Jobs : k # j => jobFile'[k] = jobFile[k]
<1>1. /\ jobFile[j].events \in Seq(Event) /\ jobs[j].events \in Seq(Event)
      /\ job.events \in Seq(Event)
  BY DEF TypeOK, JobType, FileType
<1>2. IsPrefix(jobFile[j].events, jobs[j].events)
  BY DEF FileIsAPastOfMemory
<1>3. IsPrefix(jobFile[j].events, job.events) /\ IsPrefix(job.events, job.events)
  BY <1>1, <1>2, PrefixLaws
<1>4. jobFile'[j].events \in {jobFile[j].events, job.events}
  BY DEF TypeOK, JobWritten
<1>5. jobs'[j] = job /\ \A k \in Jobs : k # j => jobs'[k] = jobs[k] /\ jobFile'[k] = jobFile[k]
  BY DEF TypeOK, JobWritten
<1> QED
  BY <1>3, <1>4, <1>5 DEF FileIsAPastOfMemory, InMemory

\* The steps of a thread note one event each, or none.
LEMMA WorkEvents ==
  ASSUME JobInv, JobInv', EventsInv, NEW j \in QaJobs, Work(j)
  PROVE  EventsInv'
<1>1. /\ j \in Jobs /\ worker[j] # "idle" /\ InMemory(j) /\ j \in accepted
      /\ jobs[j] \in JobType /\ jobs[j].status # "absent"
  <2>1. worker[j] # "idle"
    BY DEF Work, StartRetrieval, Retrieve, NoteRetrieval, StoreRetrieval, StartGeneration, Execute,
           Executed, StartValidation, Conclude, SaveResult, Fail
  <2> QED
    BY <2>1 DEF EventsInv, JobInv, TypeOK, ThreadOf, InMemory, Jobs
<1>2. /\ accepted' = accepted /\ refused' = refused
      /\ \A k \in Jobs : k # j => worker'[k] = worker[k]
  BY DEF Work, StartRetrieval, Retrieve, NoteRetrieval, StoreRetrieval, StartGeneration, Execute,
         Executed, StartValidation, Conclude, SaveResult, Fail, SetStatus, Note, Raises, GoTo,
         clients, JobInv, TypeOK
<1>3. ASSUME NEW job \in JobType, NEW event \in Event,
             jobs' = [jobs EXCEPT ![j] = job], job.events = Append(jobs[j].events, event),
             job.status # "absent", JobWritten(j, job) \/ jobFile' = jobFile
      PROVE  EventsInv'
  <2>1. /\ FileIsAPastOfMemory'
        /\ \A k \in Jobs : k # j => InMemory(k) = InMemory(k)' /\ jobFile'[k] = jobFile[k]
    BY <1>1, <1>3, Grows DEF JobInv, EventsInv
  <2>2. InMemory(j)'
    BY <1>1, <1>3 DEF JobInv, TypeOK, InMemory
  <2> QED
    BY <1>1, <1>2, <2>1, <2>2 DEF EventsInv, New
<1>4. ASSUME NEW status \in Status, NEW event \in Event, NEW next,
             SetStatus(j, status, event, next), status # "absent"
      PROVE  EventsInv'
  <2> DEFINE job == Moved(jobs[j], status, event)
  <2>1. job \in JobType /\ job.events = Append(jobs[j].events, event) /\ job.status = status
    <3>1. "none" \in Result
      BY DEF Result
    <3> QED
      BY <1>1, <3>1, RecordUpdates DEF Moved, JobType
  <2>2. jobs' = [jobs EXCEPT ![j] = job] /\ (JobWritten(j, job) \/ jobFile' = jobFile)
    BY <1>4 DEF SetStatus, WriteFails, disk
  <2> QED
    BY <1>3, <1>4, <2>1, <2>2
<1>5. ASSUME NEW event \in Event, NEW next, Note(j, event, next)
      PROVE  EventsInv'
  <2> DEFINE job == Noted(jobs[j], event)
  <2>1. /\ job \in JobType /\ job.events = Append(jobs[j].events, event)
        /\ job.status = jobs[j].status
    <3>1. "none" \in Result /\ "queued" \in Status
      BY DEF Result, Status
    <3> QED
      BY <1>1, <3>1, RecordUpdates DEF Noted, JobType
  <2>2. jobs' = [jobs EXCEPT ![j] = job] /\ jobFile' = jobFile
    BY <1>5 DEF Note, disk
  <2> QED
    BY <1>1, <1>3, <1>5, <2>1, <2>2
<1>6. ASSUME NEW result \in Result,
             jobs' = [jobs EXCEPT ![j] = Concluded(jobs[j], result)],
             JobWritten(j, Concluded(jobs[j], result)) \/ WriteFails
      PROVE  EventsInv'
  <2> DEFINE job == Concluded(jobs[j], result)
  <2>1. /\ job \in JobType /\ job.events = Append(jobs[j].events, Conclusion(result))
        /\ job.status = Verdict(result) /\ Conclusion(result) \in Event
    <3>1. "queued" \in Status /\ "job_failed" \in Event
      BY DEF Status, Event
    <3> QED
      BY <1>1, <3>1, RecordUpdates
  <2>2. Verdict(result) # "absent"
    BY DEF Verdict
  <2>3. JobWritten(j, job) \/ jobFile' = jobFile
    BY <1>6 DEF WriteFails, disk
  <2> QED
    BY <1>3, <1>6, <2>1, <2>2, <2>3
<1>7. CASE jobs' = jobs /\ jobFile' = jobFile
  BY <1>1, <1>2, <1>7 DEF EventsInv, FileIsAPastOfMemory, InMemory, New
<1>8. CASE StartRetrieval(j) \/ StartGeneration(j) \/ StartValidation(j)
  <2>1. {"retrieving", "generating", "validating"} \subseteq Status \ {"absent"}
    BY DEF Status
  <2> QED
    BY <1>4, <1>8, <2>1 DEF StartRetrieval, StartGeneration, StartValidation, Event
<1>9. CASE Retrieve(j) \/ NoteRetrieval(j) \/ Executed(j)
  <2>1. CASE Raises(j)
    BY <1>7, <2>1 DEF Raises, disk
  <2> QED
    BY <1>5, <1>9, <2>1 DEF Retrieve, NoteRetrieval, Executed, Event
<1>10. CASE Execute(j) \/ StoreRetrieval(j) \/ SaveResult(j)
  BY <1>7, <1>10 DEF Execute, StoreRetrieval, SaveResult, Raises, WriteFails, disk
<1>11. CASE Conclude(j)
  <2>1. produced[j] \in Result
    BY <1>1 DEF JobInv, TypeOK, Result
  <2> QED
    BY <1>6, <1>11, <2>1 DEF Conclude
<1>12. CASE Fail(j)
  <2>1. "provider_failed" \in Result
    BY DEF Result
  <2> QED
    BY <1>6, <1>12, <2>1 DEF Fail
<1> QED
  BY <1>8, <1>9, <1>10, <1>11, <1>12 DEF Work

\* The creation of a job writes the record it puts in memory, or nothing.
LEMMA CreateEvents ==
  ASSUME JobInv, EventsInv, NEW j \in Jobs, CreateJob(j) \/ CreateDeepResearchJob(j)
  PROVE  EventsInv'
<1>1. PICK job \in {QueuedJob} \cup {ResearchJob(status) : status \in ResearchStatus} :
        /\ jobs' = [jobs EXCEPT ![j] = job]
        /\ JobWritten(j, job) \/ jobFile' = jobFile
  BY DEF CreateJob, CreateDeepResearchJob, WriteFails, disk
<1>2. job.events \in Seq(Event) /\ job.status # "absent"
  <2>1. /\ <<"job_created">> \in Seq(Event)
        /\ <<"job_created", "offline_demo_loaded", "replay_completed">> \in Seq(Event)
    BY DEF Event
  <2>2. CASE job = QueuedJob
    BY <2>1, <2>2 DEF QueuedJob
  <2>3. CASE job # QueuedJob
    <3>1. PICK status \in ResearchStatus : job = ResearchJob(status)
      BY <2>3
    <3>2. job.events = <<"job_created", "offline_demo_loaded", "replay_completed">>
      BY <3>1 DEF ResearchJob
    <3> QED
      BY <2>1, <3>1, <3>2 DEF ResearchJob, ResearchStatus
  <2> QED
    BY <2>2, <2>3
<1>3. jobFile[j].events = <<>> /\ j \in accepted' \cup refused'
      /\ accepted \subseteq accepted' /\ refused \subseteq refused'
  BY DEF CreateJob, CreateDeepResearchJob, EventsInv
<1>4. /\ jobFile'[j].events \in {<<>>, job.events}
      /\ \A k \in Jobs : k # j => jobFile'[k] = jobFile[k] /\ jobs'[k] = jobs[k]
      /\ jobs'[j] = job
  BY <1>1, <1>3 DEF JobInv, TypeOK, JobWritten
<1>5. IsPrefix(<<>>, job.events) /\ IsPrefix(job.events, job.events)
  <2>1. "job_created" \in Event
    BY DEF Event
  <2> QED
    BY <1>2, <2>1, PrefixLaws
<1>6. \A k \in Jobs : k # j => worker'[k] = worker[k]
  BY DEF CreateJob, CreateDeepResearchJob, GoTo, JobInv, TypeOK
<1> QED
  BY <1>2, <1>3, <1>4, <1>5, <1>6 DEF EventsInv, FileIsAPastOfMemory, InMemory, New

\* Every step keeps the file a past of the memory.
LEMMA StepEvents == JobInv /\ JobInv' /\ EventsInv /\ [Next]_vars => EventsInv'
<1> SUFFICES ASSUME JobInv, JobInv', EventsInv, [Next]_vars PROVE EventsInv'
  OBVIOUS
<1>1. ASSUME NEW j \in QaJobs, CreateJob(j) PROVE EventsInv'
  BY <1>1, CreateEvents DEF Jobs
<1>2. ASSUME NEW j \in QaJobs, CreateJobRefused(j) PROVE EventsInv'
  BY <1>2 DEF CreateJobRefused, memory, disk, EventsInv, FileIsAPastOfMemory, InMemory, New
<1>3. ASSUME NEW j \in QaJobs, Work(j) PROVE EventsInv'
  BY <1>3, WorkEvents
<1>4. ASSUME NEW j \in ResearchJobs, CreateDeepResearchJob(j) PROVE EventsInv'
  BY <1>4, CreateEvents DEF Jobs
<1>5. ASSUME NEW j \in Jobs, LoadPersistedJob(j) PROVE EventsInv'
  <2>1. /\ jobs' = [jobs EXCEPT ![j] = Loaded(j)] /\ jobFile' = jobFile
        /\ worker' = worker /\ accepted' = accepted /\ refused' = refused /\ OnDisk(j)
    BY <1>5 DEF LoadPersistedJob, disk, clients
  <2>2. /\ jobFile[j].events \in Seq(Event)
        /\ Loaded(j).events = jobFile[j].events /\ Loaded(j).status # "absent"
    BY <2>1 DEF Loaded, OnDisk, JobInv, TypeOK, FileType
  <2>3. IsPrefix(jobFile[j].events, Loaded(j).events)
    <3>1. "job_created" \in Event
      BY DEF Event
    <3> QED
      BY <2>2, <3>1, PrefixLaws
  <2>4. jobs'[j] = Loaded(j) /\ \A k \in Jobs : k # j => jobs'[k] = jobs[k]
    BY <2>1 DEF JobInv, TypeOK
  <2> QED
    BY <2>1, <2>2, <2>3, <2>4 DEF EventsInv, FileIsAPastOfMemory, InMemory, New
<1>6. CASE Restart
  BY <1>6 DEF Restart, disk, clients, EventsInv, FileIsAPastOfMemory, InMemory, NoJob, New
<1>7. CASE UNCHANGED vars
  BY <1>7 DEF vars, memory, disk, clients, EventsInv, FileIsAPastOfMemory, InMemory, New
<1> QED
  BY <1>1, <1>2, <1>3, <1>4, <1>5, <1>6, <1>7 DEF Next

---------------------------------------------------------------------------
(* What a client is shown only moves forward *)

\* The status of a job while its thread is at a step of _run_job.
StatusAt(step) ==
    CASE step = "start" -> "queued"
      [] step \in {"retrieve", "retrieved", "store", "generate"} -> "retrieving"
      [] step \in {"execute", "executing", "validate"} -> "generating"
      [] OTHER -> "validating"

\* A job that was not created is nowhere, and what the thread of a job is about
\* to do follows from the status it gave the job last.
OrderInv ==
    \A j \in Jobs :
        /\ New(j) => ~InMemory(j) /\ ~OnDisk(j)
        /\ ~InMemory(j) => jobs[j].events = <<>>
        /\ worker[j] \in BeforeConclusion => jobs[j].status = StatusAt(worker[j])

Forward(job, later) ==
    /\ Rank(job.status) <= Rank(later.status)
    /\ IsPrefix(job.events, later.events)

\* A step moves the record of j forward in memory and leaves the other jobs alone.
MovesForward(j) ==
    /\ Forward(jobs[j], jobs'[j])
    /\ \A k \in Jobs : k # j => jobs'[k] = jobs[k] /\ jobFile'[k] = jobFile[k]
    /\ InMemory(j) /\ InMemory(j)'

\* An update of a record moves it forward when its status does.
LEMMA UpdatesMoveForward ==
  ASSUME NEW job \in JobType, NEW status \in Status, NEW event \in Event, NEW result \in Result
  PROVE  /\ Forward(job, job)
         /\ Forward(job, Noted(job, event))
         /\ Rank(job.status) <= Rank(status) => Forward(job, Moved(job, status, event))
         /\ Rank(job.status) <= 4 \/ Verdict(result) = "failed"
              => Forward(job, Concluded(job, result))
<1>1. /\ job.events \in Seq(Event) /\ job.status \in Status
      /\ Conclusion(result) \in Event /\ Verdict(result) \in {"completed", "failed"}
  BY DEF JobType, Conclusion, Verdict, Event
<1>2. \A s \in Status : Rank(s) \in 0..6
  BY DEF Rank
<1>3. IsPrefix(job.events, job.events)
  BY <1>1, PrefixLaws
<1>4. \A e \in Event : IsPrefix(job.events, Append(job.events, e))
  BY <1>1, <1>3, PrefixLaws
<1>5. /\ Noted(job, event).events = Append(job.events, event)
      /\ Noted(job, event).status = job.status
  BY DEF Noted, JobType
<1>6. /\ Moved(job, status, event).events = Append(job.events, event)
      /\ Moved(job, status, event).status = status
  BY DEF Moved, JobType
<1>7. /\ Concluded(job, result).events = Append(job.events, Conclusion(result))
      /\ Concluded(job, result).status = Verdict(result)
  BY DEF Concluded, JobType
<1>8. Rank(job.status) \in 0..6 /\ Rank("completed") = 5 /\ Rank("failed") = 6
  BY <1>1, <1>2 DEF Rank
<1>9. Rank(job.status) <= 4 \/ Verdict(result) = "failed"
        => Rank(job.status) <= Rank(Verdict(result))
  BY <1>1, <1>8
<1> QED
  BY <1>1, <1>3, <1>4, <1>5, <1>6, <1>7, <1>8, <1>9 DEF Forward

\* Every step of a thread moves the record of its job forward, and touches the
\* record and the file of no other job.
LEMMA WorkForward ==
  ASSUME JobInv, EventsInv, OrderInv, NEW j \in QaJobs, Work(j)
  PROVE  MovesForward(j) /\ OrderInv'
<1>1. /\ j \in Jobs /\ worker[j] # "idle" /\ InMemory(j) /\ j \in accepted
      /\ jobs[j] \in JobType /\ jobs[j].status # "absent"
  <2>1. worker[j] # "idle"
    BY DEF Work, StartRetrieval, Retrieve, NoteRetrieval, StoreRetrieval, StartGeneration, Execute,
           Executed, StartValidation, Conclude, SaveResult, Fail
  <2> QED
    BY <2>1 DEF EventsInv, JobInv, TypeOK, ThreadOf, InMemory, Jobs
<1>2. /\ accepted' = accepted /\ refused' = refused
      /\ \A k \in Jobs : k # j => worker'[k] = worker[k]
  BY DEF Work, StartRetrieval, Retrieve, NoteRetrieval, StoreRetrieval, StartGeneration, Execute,
         Executed, StartValidation, Conclude, SaveResult, Fail, SetStatus, Note, Raises, GoTo,
         clients, JobInv, TypeOK
<1>3. "job_created" \in Event /\ "none" \in Result /\ "queued" \in Status
  BY DEF Event, Result, Status
<1>4. worker[j] \in BeforeConclusion => jobs[j].status = StatusAt(worker[j])
  BY <1>1 DEF OrderInv
\* What is left to show of a step that puts a record in memory.
<1>5. ASSUME NEW job \in JobType, jobs' = [jobs EXCEPT ![j] = job],
             \/ \E written \in JobType : JobWritten(j, written)
             \/ jobFile' = jobFile,
             Forward(jobs[j], job), job.status # "absent",
             worker'[j] \in BeforeConclusion => job.status = StatusAt(worker'[j])
      PROVE  MovesForward(j) /\ OrderInv'
  <2>1. jobs'[j] = job /\ \A k \in Jobs : k # j => jobs'[k] = jobs[k] /\ jobFile'[k] = jobFile[k]
    BY <1>1, <1>5 DEF JobInv, TypeOK, JobWritten
  <2>2. OrderInv'
    BY <1>1, <1>2, <1>5, <2>1 DEF OrderInv, New, InMemory, OnDisk
  <2> QED
    BY <1>1, <1>5, <2>1, <2>2 DEF MovesForward, InMemory
<1>6. CASE /\ jobs' = jobs /\ jobFile' = jobFile
           /\ worker'[j] \in BeforeConclusion => jobs[j].status = StatusAt(worker'[j])
  <2>1. jobs' = [jobs EXCEPT ![j] = jobs[j]]
    BY <1>1, <1>6 DEF JobInv, TypeOK
  <2>2. Forward(jobs[j], jobs[j])
    BY <1>1, <1>3, UpdatesMoveForward
  <2> QED
    BY <1>1, <1>5, <1>6, <2>1, <2>2
<1>7. ASSUME NEW status \in Status, NEW event \in Event, NEW next,
             SetStatus(j, status, event, next), status # "absent",
             Rank(jobs[j].status) <= Rank(status),
             next \in BeforeConclusion, status = StatusAt(next)
      PROVE  MovesForward(j) /\ OrderInv'
  <2> DEFINE job == Moved(jobs[j], status, event)
  <2>1. job \in JobType /\ job.status = status
    BY <1>1, <1>3, <1>7, RecordUpdates
  <2>2. Forward(jobs[j], job)
    BY <1>1, <1>3, <1>7, UpdatesMoveForward
  <2>3. jobs' = [jobs EXCEPT ![j] = job] /\ (JobWritten(j, job) \/ jobFile' = jobFile)
    BY <1>7 DEF SetStatus, WriteFails, disk
  <2>4. worker'[j] \in {next, "failing"}
    BY <1>1, <1>7 DEF SetStatus, GoTo, JobInv, TypeOK
  <2>5. worker'[j] \in BeforeConclusion => job.status = StatusAt(worker'[j])
    BY <1>7, <2>1, <2>4 DEF BeforeConclusion, BeforeExecution
  <2> HIDE DEF job
  <2> QED
    BY <1>5, <1>7, <2>1, <2>2, <2>3, <2>5
<1>8. ASSUME NEW event \in Event, NEW next, Note(j, event, next),
             next \in BeforeConclusion, jobs[j].status = StatusAt(next)
      PROVE  MovesForward(j) /\ OrderInv'
  <2> DEFINE job == Noted(jobs[j], event)
  <2>1. job \in JobType /\ job.status = jobs[j].status
    BY <1>1, <1>3, <1>8, RecordUpdates
  <2>2. Forward(jobs[j], job)
    BY <1>1, <1>3, <1>8, UpdatesMoveForward
  <2>3. jobs' = [jobs EXCEPT ![j] = job] /\ jobFile' = jobFile /\ worker'[j] = next
    BY <1>1, <1>8 DEF Note, GoTo, disk, JobInv, TypeOK
  <2> HIDE DEF job
  <2> QED
    BY <1>1, <1>5, <1>8, <2>1, <2>2, <2>3
<1>9. ASSUME NEW result \in Result,
             jobs' = [jobs EXCEPT ![j] = Concluded(jobs[j], result)],
             JobWritten(j, Concluded(jobs[j], result)) \/ WriteFails,
             Rank(jobs[j].status) <= 4 \/ Verdict(result) = "failed",
             worker'[j] \in {"save", "failing", "idle"}
      PROVE  MovesForward(j) /\ OrderInv'
  <2> DEFINE job == Concluded(jobs[j], result)
  <2>1. "job_failed" \in Event
    BY DEF Event
  <2>2. job \in JobType /\ job.status = Verdict(result)
    BY <1>1, <1>3, <1>9, <2>1, RecordUpdates
  <2>3. Forward(jobs[j], job)
    BY <1>1, <1>3, <1>9, <2>1, UpdatesMoveForward
  <2>4. job.status # "absent" /\ worker'[j] \notin BeforeConclusion
    BY <1>9, <2>2 DEF Verdict, BeforeConclusion, BeforeExecution
  <2>5. JobWritten(j, job) \/ jobFile' = jobFile
    BY <1>9 DEF WriteFails, disk
  <2>6. jobs' = [jobs EXCEPT ![j] = job]
    BY <1>9
  <2> HIDE DEF job
  <2> QED
    BY <1>5, <2>2, <2>3, <2>4, <2>5, <2>6
<1>10. CASE StartRetrieval(j) \/ StartGeneration(j) \/ StartValidation(j)
  <2>1. {"retrieving", "generating", "validating"} \subseteq Status \ {"absent"}
    BY DEF Status
  <2>2. {"translation_started", "generation_started", "validation_completed"} \subseteq Event
    BY DEF Event
  <2>3. {"start", "generate", "validate", "retrieve", "execute", "conclude"}
          \subseteq BeforeConclusion
    BY DEF BeforeConclusion, BeforeExecution
  <2>4. /\ Rank("queued") = 1 /\ Rank("retrieving") = 2
        /\ Rank("generating") = 3 /\ Rank("validating") = 4
    BY DEF Rank
  <2>5. /\ StatusAt("start") = "queued" /\ StatusAt("retrieve") = "retrieving"
        /\ StatusAt("generate") = "retrieving" /\ StatusAt("execute") = "generating"
        /\ StatusAt("validate") = "generating" /\ StatusAt("conclude") = "validating"
    BY DEF StatusAt
  <2>6. CASE StartRetrieval(j)
    <3>1. worker[j] = "start" /\ SetStatus(j, "retrieving", "translation_started", "retrieve")
      BY <2>6 DEF StartRetrieval
    <3> QED
      BY <1>4, <1>7, <2>1, <2>2, <2>3, <2>4, <2>5, <3>1
  <2>7. CASE StartGeneration(j)
    <3>1. worker[j] = "generate" /\ SetStatus(j, "generating", "generation_started", "execute")
      BY <2>7 DEF StartGeneration
    <3> QED
      BY <1>4, <1>7, <2>1, <2>2, <2>3, <2>4, <2>5, <3>1
  <2>8. CASE StartValidation(j)
    <3>1. worker[j] = "validate" /\ SetStatus(j, "validating", "validation_completed", "conclude")
      BY <2>8 DEF StartValidation
    <3> QED
      BY <1>4, <1>7, <2>1, <2>2, <2>3, <2>4, <2>5, <3>1
  <2> QED
    BY <1>10, <2>6, <2>7, <2>8
<1>11. CASE Raises(j)
  <2>1. jobs' = jobs /\ jobFile' = jobFile /\ worker'[j] = "failing"
    BY <1>1, <1>11 DEF Raises, GoTo, disk, JobInv, TypeOK
  <2> QED
    BY <1>6, <2>1 DEF BeforeConclusion, BeforeExecution
<1>12. CASE Retrieve(j) \/ NoteRetrieval(j) \/ Executed(j)
  <2>1. /\ worker[j] \in BeforeConclusion
        /\ {"retrieved", "store", "validate"} \subseteq BeforeConclusion
    BY <1>12 DEF Retrieve, NoteRetrieval, Executed, BeforeConclusion, BeforeExecution
  <2>2. \/ Raises(j)
        \/ \E event \in Event, next \in BeforeConclusion :
              Note(j, event, next) /\ StatusAt(next) = StatusAt(worker[j])
    BY <1>12, <2>1 DEF Retrieve, NoteRetrieval, Executed, Event, StatusAt
  <2> QED
    BY <1>4, <1>8, <1>11, <2>1, <2>2
<1>13. CASE Execute(j) \/ StoreRetrieval(j) \/ SaveResult(j)
  <2>1. jobs' = jobs /\ jobFile' = jobFile
    BY <1>13 DEF Execute, StoreRetrieval, SaveResult, Raises, WriteFails, disk
  <2>2. \/ worker'[j] \in {"idle", "failing"}
        \/ worker[j] = "execute" /\ worker'[j] = "executing"
        \/ worker[j] = "store" /\ worker'[j] = "generate"
    BY <1>1, <1>13 DEF Execute, StoreRetrieval, SaveResult, Raises, GoTo, JobInv, TypeOK
  <2>3. worker'[j] \in BeforeConclusion => jobs[j].status = StatusAt(worker'[j])
    BY <1>4, <2>2 DEF BeforeConclusion, BeforeExecution, StatusAt
  <2> QED
    BY <1>6, <2>1, <2>3
<1>14. CASE Conclude(j)
  <2>1. produced[j] \in Result
    BY <1>1 DEF JobInv, TypeOK, Result
  <2>2. jobs[j].status = "validating"
    BY <1>4, <1>14 DEF Conclude, BeforeConclusion, StatusAt
  <2>3. worker'[j] \in {"save", "failing"}
    BY <1>1, <1>14 DEF Conclude, GoTo, JobInv, TypeOK
  <2>4. Rank(jobs[j].status) <= 4
    BY <2>2 DEF Rank
  <2>5. /\ jobs' = [jobs EXCEPT ![j] = Concluded(jobs[j], produced[j])]
        /\ JobWritten(j, Concluded(jobs[j], produced[j])) \/ WriteFails
    BY <1>14 DEF Conclude
  <2> QED
    BY <1>9, <2>1, <2>3, <2>4, <2>5
<1>15. CASE Fail(j)
  <2>1. "provider_failed" \in Result /\ Verdict("provider_failed") = "failed"
    BY DEF Result, Verdict
  <2>2. worker'[j] = "idle"
    BY <1>1, <1>15 DEF Fail, GoTo, JobInv, TypeOK
  <2>3. /\ jobs' = [jobs EXCEPT ![j] = Concluded(jobs[j], "provider_failed")]
        /\ JobWritten(j, Concluded(jobs[j], "provider_failed")) \/ WriteFails
    BY <1>15 DEF Fail
  <2> QED
    BY <1>9, <2>1, <2>2, <2>3
<1> QED
  BY <1>10, <1>12, <1>13, <1>14, <1>15 DEF Work

\* A job is created from nothing.
LEMMA CreateForward ==
  ASSUME JobInv, EventsInv, OrderInv, NEW j \in Jobs, CreateJob(j) \/ CreateDeepResearchJob(j)
  PROVE  /\ ~InMemory(j) /\ ~OnDisk(j) /\ InMemory(j)'
         /\ \A k \in Jobs : k # j => jobs'[k] = jobs[k] /\ jobFile'[k] = jobFile[k]
         /\ OrderInv'
<1>1. PICK job \in {QueuedJob} \cup {ResearchJob(status) : status \in ResearchStatus} :
        /\ jobs' = [jobs EXCEPT ![j] = job]
        /\ JobWritten(j, job) \/ jobFile' = jobFile
        /\ job # QueuedJob => worker' = worker
        /\ worker' = worker \/ (job = QueuedJob /\ worker' = [worker EXCEPT ![j] = "start"])
  BY DEF CreateJob, CreateDeepResearchJob, WriteFails, disk, GoTo
<1>2. job.status # "absent" /\ (job = QueuedJob => job.status = "queued")
  BY DEF QueuedJob, ResearchJob, ResearchStatus
<1>3. /\ New(j) /\ j \in accepted' \cup refused'
      /\ accepted \subseteq accepted' /\ refused \subseteq refused'
  BY DEF CreateJob, CreateDeepResearchJob
<1>4. /\ jobs'[j] = job
      /\ \A k \in Jobs : k # j => jobs'[k] = jobs[k] /\ jobFile'[k] = jobFile[k]
  BY <1>1 DEF JobInv, TypeOK, JobWritten
<1>5. ~InMemory(j) /\ ~OnDisk(j)
  BY <1>3 DEF OrderInv
<1>6. worker[j] = "idle"
  BY <1>5 DEF EventsInv
<1>7. /\ \A k \in Jobs : k # j => worker'[k] = worker[k]
      /\ worker'[j] = "idle" \/ (worker'[j] = "start" /\ job.status = "queued")
  BY <1>1, <1>2, <1>6 DEF JobInv, TypeOK
<1>8. worker'[j] \in BeforeConclusion => jobs'[j].status = StatusAt(worker'[j])
  BY <1>4, <1>7 DEF BeforeConclusion, BeforeExecution, StatusAt
<1>9. InMemory(j)'
  BY <1>2, <1>4 DEF InMemory
<1>10. OrderInv'
  <2> SUFFICES ASSUME NEW k \in Jobs
               PROVE  /\ New(k)' => ~InMemory(k)' /\ ~OnDisk(k)'
                      /\ ~InMemory(k)' => jobs'[k].events = <<>>
                      /\ worker'[k] \in BeforeConclusion => jobs'[k].status = StatusAt(worker'[k])
    BY DEF OrderInv
  <2>1. CASE k = j
    BY <1>3, <1>8, <1>9, <2>1 DEF New
  <2>2. CASE k # j
    BY <1>3, <1>4, <1>7, <2>2 DEF OrderInv, New, InMemory, OnDisk
  <2> QED
    BY <2>1, <2>2
<1> QED
  BY <1>4, <1>5, <1>9, <1>10

\* A job moves forward for its clients when its record in memory does, when it
\* is created from nothing, and when nothing happens to it.
LEMMA ShownForward ==
  ASSUME JobInv, JobInv', OrderInv, NEW j \in Jobs,
         \/ InMemory(j) /\ InMemory(j)' /\ Forward(jobs[j], jobs'[j])
         \/ ~InMemory(j) /\ ~OnDisk(j) /\ InMemory(j)'
         \/ jobs'[j] = jobs[j] /\ jobFile'[j] = jobFile[j]
         \/ ~InMemory(j) /\ OnDisk(j) /\ jobs'[j] = Loaded(j)
  PROVE  /\ Rank(Visible(j).status) <= Rank(Visible(j).status')
         /\ IsPrefix(Visible(j).events, Visible(j).events')
<1>1. /\ jobs[j] \in JobType /\ jobFile[j] \in FileType
      /\ jobs'[j] \in JobType /\ jobFile'[j] \in FileType
  BY DEF JobInv, TypeOK
<1>2. /\ \A s \in Status : Rank(s) \in 0..6
      /\ Rank("absent") = 0
  BY DEF Rank
<1>3. "job_created" \in Event
  BY DEF Event
<1>4. Loaded(j).status = jobFile[j].status /\ Loaded(j).events = jobFile[j].events
  BY DEF Loaded
<1>5. Visible(j).status \in Status /\ Visible(j).events \in Seq(Event)
  BY <1>1, <1>4 DEF Visible, JobType, FileType
<1>6. CASE Visible(j).status' = Visible(j).status /\ Visible(j).events' = Visible(j).events
  BY <1>2, <1>3, <1>5, <1>6, PrefixLaws
<1>7. CASE InMemory(j) /\ InMemory(j)' /\ Forward(jobs[j], jobs'[j])
  BY <1>7 DEF Visible, Forward
<1>8. CASE ~InMemory(j) /\ ~OnDisk(j) /\ InMemory(j)'
  <2>1. Visible(j).status = "absent" /\ Visible(j).events = <<>>
    BY <1>8 DEF Visible, OrderInv, InMemory
  <2>2. Visible(j)' = jobs'[j]
    BY <1>8 DEF Visible
  <2>3. jobs'[j].status \in Status /\ jobs'[j].events \in Seq(Event)
    BY <1>1 DEF JobType
  <2>4. IsPrefix(<<>>, jobs'[j].events)
    BY <1>3, <2>3, PrefixLaws
  <2>5. Rank("absent") <= Rank(jobs'[j].status)
    BY <1>2, <2>3
  <2> QED
    BY <2>1, <2>2, <2>4, <2>5
<1>9. CASE jobs'[j] = jobs[j] /\ jobFile'[j] = jobFile[j]
  BY <1>6, <1>9 DEF Visible, InMemory, OnDisk, Loaded
<1>10. CASE ~InMemory(j) /\ OnDisk(j) /\ jobs'[j] = Loaded(j)
  BY <1>4, <1>6, <1>10 DEF Visible, InMemory, OnDisk
<1> QED
  BY <1>7, <1>8, <1>9, <1>10

\* Every step keeps the invariant and, unless it is a restart, takes nothing
\* back that a client was shown.
LEMMA StepOrder ==
  JobInv /\ JobInv' /\ EventsInv /\ OrderInv /\ [Next]_vars
    => /\ OrderInv'
       /\ restarts' = restarts =>
            \A j \in Jobs : /\ Rank(Visible(j).status) <= Rank(Visible(j).status')
                            /\ IsPrefix(Visible(j).events, Visible(j).events')
<1> SUFFICES ASSUME JobInv, JobInv', EventsInv, OrderInv, [Next]_vars
             PROVE  /\ OrderInv'
                    /\ restarts' = restarts =>
                         \A j \in Jobs : /\ Rank(Visible(j).status) <= Rank(Visible(j).status')
                                         /\ IsPrefix(Visible(j).events, Visible(j).events')
  OBVIOUS
<1>1. CASE \E j \in QaJobs : Work(j)
  <2> PICK j \in QaJobs : Work(j)
    BY <1>1
  <2>1. MovesForward(j) /\ OrderInv'
    BY WorkForward
  <2> QED
    BY <2>1, ShownForward DEF MovesForward
<1>2. CASE \E j \in Jobs : CreateJob(j) \/ CreateDeepResearchJob(j)
  <2> PICK j \in Jobs : CreateJob(j) \/ CreateDeepResearchJob(j)
    BY <1>2
  <2>1. /\ ~InMemory(j) /\ ~OnDisk(j) /\ InMemory(j)'
        /\ \A k \in Jobs : k # j => jobs'[k] = jobs[k] /\ jobFile'[k] = jobFile[k]
        /\ OrderInv'
    BY CreateForward
  <2> QED
    BY <2>1, ShownForward
<1>3. CASE jobs' = jobs /\ jobFile' = jobFile /\ worker' = worker
           /\ accepted' = accepted /\ refused \subseteq refused'
  <2>1. OrderInv'
    BY <1>3 DEF OrderInv, New, InMemory, OnDisk
  <2> QED
    BY <1>3, <2>1, ShownForward
<1>4. CASE \E j \in QaJobs : CreateJobRefused(j)
  BY <1>3, <1>4 DEF CreateJobRefused, memory, disk
<1>5. CASE \E j \in Jobs : LoadPersistedJob(j)
  <2> PICK j \in Jobs : LoadPersistedJob(j)
    BY <1>5
  <2>1. /\ jobs' = [jobs EXCEPT ![j] = Loaded(j)] /\ jobFile' = jobFile
        /\ worker' = worker /\ accepted' = accepted /\ refused' = refused
        /\ ~InMemory(j) /\ OnDisk(j) /\ j \in accepted
    BY DEF LoadPersistedJob, disk, clients
  <2>2. jobs'[j] = Loaded(j) /\ \A k \in Jobs : k # j => jobs'[k] = jobs[k]
    BY <2>1 DEF JobInv, TypeOK
  <2>3. InMemory(j)' /\ worker[j] = "idle"
    BY <2>1, <2>2 DEF InMemory, OnDisk, Loaded, EventsInv
  <2>4. OrderInv'
    <3> SUFFICES ASSUME NEW k \in Jobs
                 PROVE  /\ New(k)' => ~InMemory(k)' /\ ~OnDisk(k)'
                        /\ ~InMemory(k)' => jobs'[k].events = <<>>
                        /\ worker'[k] \in BeforeConclusion
                             => jobs'[k].status = StatusAt(worker'[k])
      BY DEF OrderInv
    <3>1. CASE k = j
      BY <2>1, <2>3, <3>1 DEF New, BeforeConclusion, BeforeExecution
    <3>2. CASE k # j
      BY <2>1, <2>2, <3>2 DEF OrderInv, New, InMemory, OnDisk
    <3> QED
      BY <3>1, <3>2
  <2>5. \A k \in Jobs : k # j => jobs'[k] = jobs[k] /\ jobFile'[k] = jobFile[k]
    BY <2>1, <2>2
  <2> QED
    BY <2>1, <2>2, <2>4, <2>5, ShownForward
<1>6. CASE Restart
  <2>1. restarts' # restarts
    BY <1>6 DEF Restart, JobInv, TypeOK
  <2>2. OrderInv'
    BY <1>6 DEF Restart, disk, clients, OrderInv, New, InMemory, OnDisk, NoJob, BeforeConclusion,
           BeforeExecution
  <2> QED
    BY <2>1, <2>2
<1>7. CASE UNCHANGED vars
  BY <1>3, <1>7 DEF vars, memory, disk, clients
<1> QED
  BY <1>1, <1>2, <1>4, <1>5, <1>6, <1>7 DEF Next, Jobs

---------------------------------------------------------------------------
(* Theorems *)

\* The inductive invariant holds in every reachable state.
THEOREM JobInvariant == Spec => []JobInv
BY InitJobInv, StepJobInv, PTL DEF Spec

\* result.json never stands beside a job.json with another conclusion, for any
\* interleaving of threads, readers, failing writes and restarts.
THEOREM FilesAlwaysAgree == Spec => []FilesAgree
<1>1. JobInv => FilesAgree
  BY DEF JobInv
<1> QED
  BY <1>1, JobInvariant, PTL

\* No client is ever shown an answer with a status other than completed.
THEOREM AnswersAlwaysCompleted == Spec => []AnswersAreCompleted
BY AnswersShown, JobInvariant, PTL

\* The executor is called at most once for a job.
THEOREM ExecutedOnce == Spec => []SingleExecution
<1>1. JobInv => SingleExecution
  BY DEF JobInv
<1> QED
  BY <1>1, JobInvariant, PTL

\* What job.json says happened to a job is a beginning of what happened.
THEOREM FileAlwaysAPastOfMemory == Spec => []FileIsAPastOfMemory
<1>1. Init => EventsInv
  BY DEF Init, EventsInv, FileIsAPastOfMemory, InMemory, NoJob, NoFile
<1>2. EventsInv => FileIsAPastOfMemory
  BY DEF EventsInv
<1> QED
  BY <1>1, <1>2, StepEvents, JobInvariant, PTL DEF Spec

\* Memory, the two files and what is shown of a job agree, for any jobs, interleaving, failing
\* writes and restarts.
THEOREM RecordsAlwaysAgree == Spec => []RecordsAgree
<1>1. FilesAgree /\ AnswersAreCompleted /\ FileIsAPastOfMemory => RecordsAgree
  BY DEF RecordsAgree
<1> QED
  BY <1>1, FilesAlwaysAgree, AnswersAlwaysCompleted, FileAlwaysAPastOfMemory, PTL

\* As long as the service runs, no client is shown a job going backwards,
\* whichever of the thread, its exception handler and the loader moved it.
THEOREM JobsOnlyMoveForward == Spec => NeverBackwards
<1>1. Init => EventsInv /\ OrderInv
  BY DEF Init, EventsInv, FileIsAPastOfMemory, OrderInv, New, InMemory, OnDisk, NoJob, NoFile,
         BeforeConclusion, BeforeExecution
<1>2. /\ JobInv /\ JobInv' /\ EventsInv /\ OrderInv /\ [Next]_vars => OrderInv'
      /\ JobInv /\ JobInv' /\ EventsInv /\ OrderInv /\ [Next]_vars
           => [restarts' = restarts =>
                 \A j \in Jobs : /\ Rank(Visible(j).status) <= Rank(Visible(j).status')
                                 /\ IsPrefix(Visible(j).events, Visible(j).events')]_vars
  BY StepOrder
<1> QED
  BY <1>1, <1>2, StepEvents, JobInvariant, PTL DEF Spec, NeverBackwards

=============================================================================
