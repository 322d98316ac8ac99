---------------------------- MODULE ProviderCanary ----------------------------
(***************************************************************************)
(* The single-call canaries: execute() of GLMCanaryRunner and of           *)
(* DeepSeekCanaryRunner. One execution writes its stream event by event,   *)
(* calls once behind a durable dispatch, settles, and leaves a checkpoint  *)
(* and artifacts; it may die at any write, and may be executed again.      *)
(***************************************************************************)
EXTENDS ProviderAdapters, FiniteSets

CONSTANTS
    CanaryReplies,      \* the replies a canary's call may get
    MaxExecutions       \* bound on the calls of execute()

VARIABLES
    canary,         \* which canary this directory is for
    canaryPc,       \* "idle", "preamble", "call", "settle", "checkpoint", "artifacts"
    canaryStream,   \* the events of runtime.jsonl; the directory exists when there is one
    canaryResult,   \* what the adapter made of the answer
    canaryFiles,    \* the files beside the stream
    canaryCalls,    \* calls sent to the provider
    canaryRuns      \* executions begun, of which the last may be running
canaryVars == <<canary, canaryPc, canaryStream, canaryResult, canaryFiles, canaryCalls, canaryRuns>>

\* What must hold of the checkout and of the environment: the GLM plan of version 1.1 asks
\* for its own commit instead of an ancestor and a fingerprint, which is the same kind of fact.
Required == {"frozen_contract", "credential", "head", "clean_worktree", "ancestor", "fingerprint"}

\* Every check precedes the first write, the one of a fresh directory included: nothing is
\* left of an execution that was refused.
Admitted(facts) == facts = Required /\ canaryStream = <<>>

Preamble == <<"run_started", "brief_approved", "researching", "operation_reserved", "operation_dispatched">>
TerminalEvent ==
    CASE canaryResult.status = "success" -> "operation_succeeded"
      [] canaryResult.status = "unknown" -> "operation_unknown"
      [] canaryResult.status = "failed" -> "operation_failed"
\* The events behind the answer, in order.
Epilogue ==
    IF canaryResult.status = "success" THEN <<TerminalEvent, "validating", "complete">>
    ELSE <<TerminalEvent, "failed">>
\* reconcile refuses a charge above the limits; what is unknown is charged at its reservation.
Refused == canaryResult.status # "unknown" /\ canaryResult.usage = "over"

CanaryInit ==
    /\ canary \in Canaries
    /\ canaryPc = "idle" /\ canaryStream = <<>> /\ canaryResult = Result("none", "none", Nothing)
    /\ canaryFiles = {} /\ canaryCalls = 0 /\ canaryRuns = 0

CanaryRefused ==
    /\ canaryPc = "idle" /\ canaryRuns < MaxExecutions
    /\ \E facts \in SUBSET Required : ~Admitted(facts)
    /\ canaryRuns' = canaryRuns + 1
    /\ UNCHANGED <<canary, canaryPc, canaryStream, canaryResult, canaryFiles, canaryCalls>>

CanaryStarts ==
    /\ canaryPc = "idle" /\ canaryRuns < MaxExecutions
    /\ \E facts \in SUBSET Required : Admitted(facts)
    /\ canaryRuns' = canaryRuns + 1 /\ canaryPc' = "preamble"
    /\ UNCHANGED <<canary, canaryStream, canaryResult, canaryFiles, canaryCalls>>

\* Mutant: the call is sent once the reservation is durable.
ReadyToCallEarly == Len(canaryStream) = Len(Preamble) - 2
ReadyToCall == Len(canaryStream) = Len(Preamble) - 1

CanaryWrites ==
    /\ canaryPc = "preamble"
    /\ canaryStream' = Append(canaryStream, Preamble[Len(canaryStream) + 1])
    /\ canaryPc' = IF ReadyToCall THEN "call" ELSE "preamble"
    /\ UNCHANGED <<canary, canaryResult, canaryFiles, canaryCalls, canaryRuns>>

\* An answer the adapter raises on ends the process with the dispatch open.
CanaryCall ==
    /\ canaryPc = "call"
    /\ \E r \in CanaryReplies :
        /\ canaryResult' = Call(canary, r)
        /\ canaryPc' = IF Call(canary, r).status = "raised" THEN "idle" ELSE "settle"
    /\ canaryCalls' = canaryCalls + 1
    /\ UNCHANGED <<canary, canaryStream, canaryFiles, canaryRuns>>

\* The terminal event is durable before the ledger is asked whether it can be charged.
CanarySettles ==
    /\ canaryPc = "settle"
    /\ LET written == Len(canaryStream) - Len(Preamble)
       IN  /\ canaryStream' = Append(canaryStream, Epilogue[written + 1])
           /\ canaryPc' = IF Refused THEN "idle"
                          ELSE IF written + 1 = Len(Epilogue) THEN "checkpoint" ELSE "settle"
    /\ UNCHANGED <<canary, canaryResult, canaryFiles, canaryCalls, canaryRuns>>

\* The stream is read back and replayed before the checkpoint is written.
CanaryCheckpoints ==
    /\ canaryPc = "checkpoint"
    /\ canaryFiles' = canaryFiles \cup {"checkpoint"} /\ canaryPc' = "artifacts"
    /\ UNCHANGED <<canary, canaryStream, canaryResult, canaryCalls, canaryRuns>>

CanaryWritesArtifacts ==
    /\ canaryPc = "artifacts"
    /\ canaryFiles' = canaryFiles \cup {"structured_result"} /\ canaryPc' = "idle"
    /\ UNCHANGED <<canary, canaryStream, canaryResult, canaryCalls, canaryRuns>>

CanaryDies ==
    /\ canaryPc # "idle"
    /\ canaryPc' = "idle"
    /\ UNCHANGED <<canary, canaryStream, canaryResult, canaryFiles, canaryCalls, canaryRuns>>

CanaryNext ==
    \/ CanaryRefused
    \/ CanaryStarts
    \/ CanaryWrites
    \/ CanaryCall
    \/ CanarySettles
    \/ CanaryCheckpoints
    \/ CanaryWritesArtifacts
    \/ CanaryDies

---------------------------------------------------------------------------
(* Properties. *)

\* However often a canary is executed and wherever it dies, its provider is called once at
\* most, never before the dispatch is durable; a directory with files ends in the conclusion
\* that fits the answer, within the budget; and no execution adds to the stream of another.
CanaryCallsOnce ==
    LET Has(event) == \E i \in DOMAIN canaryStream : canaryStream[i] = event
    IN  /\ canaryCalls <= 1
        /\ canaryCalls = 1 => Has("operation_dispatched")
        /\ Has("complete") => canaryResult.status = "success" /\ canaryResult.usage # "over"
        /\ canaryFiles # {} =>
            /\ canaryStream[Len(canaryStream)] \in {"complete", "failed"}
            /\ Has("operation_unknown") <=> canaryResult.status = "unknown"
        /\ \A i, j \in DOMAIN canaryStream : canaryStream[i] = canaryStream[j] => i = j
=============================================================================
