------------------------------ MODULE Evaluation ------------------------------
(***************************************************************************)
(* The evaluation runner (evaluation_runner.py).                           *)
(*                                                                         *)
(* An execution asks, paper by paper, for a baseline (twice, when the      *)
(* first is invalid), for the candidates of a chunk, and for a final note  *)
(* out of those candidates. Every response is stored and checkpointed in   *)
(* the directory of the run; an execution that resumes takes checkpointed  *)
(* responses instead of calling, if they fit. It may die at every write.   *)
(* One chunk stands for the chunks of a paper.                             *)
(***************************************************************************)
EXTENDS Integers, Sequences, FiniteSets

CONSTANTS
    EvalPapers,         \* the selected papers, in order
    EvalIdentities,     \* what run_identity.json may say: model, commit, inputs, prompts
    MaxCalls,           \* max_calls of every execution
    EvalWindow,         \* identity |-> the prompts that fit its context window
    MaxEvaluations      \* bound on the executions in one directory
ASSUME EvaluationConstants ==
    /\ EvalPapers \in Seq(STRING) /\ EvalPapers # <<>>
    /\ MaxCalls \in Nat \ {0} /\ MaxEvaluations \in Nat

VARIABLES
    evalRun,        \* the execution under way, [id, resume], or NoRun
    evalAt,         \* [paper |-> index, stage]
    evalPhase,      \* "ask", "store" or "checkpoint"
    evalAnswer,     \* the response not checkpointed yet
    evalCalls,      \* network_calls of this process
    evalSeen,       \* key |-> what the execution under way, or the last one, has for it
    evalDisk,       \* the directory of the run
    evalEnded,      \* how the last execution ended
    evalRuns,       \* executions so far
    evalFaults      \* what happened of the things that change a prompt behind a checkpoint
evalVars == <<evalRun, evalAt, evalPhase, evalAnswer, evalCalls, evalSeen, evalDisk, evalEnded, evalRuns, evalFaults>>

CallStages == {"baseline1", "baseline2", "chunk", "final"}
EvalKeys == (1..Len(EvalPapers)) \X CallStages
EvalKey == <<evalAt.paper, evalAt.stage>>
\* For a baseline and a note "other" fails the contract; for a chunk it is a second way to
\* answer, with candidates of its own.
EvalContents == {"good", "other"}
NoRun == [id |-> "none", resume |-> FALSE]
NoCheckpoint == [id |-> "none"]
\* The metrics of a method, the note they are about, and the report.
EvalMetrics == (1..Len(EvalPapers)) \X {"baseline", "proposed"}
EvalNotes == (1..Len(EvalPapers)) \X {"scoring_view", "final_note"}
EvalReport == {<<0, "run_manifest">>, <<0, "call_metrics">>}
EvalFiles == EvalMetrics \cup EvalNotes \cup EvalReport
MinimumCalls == 3 * Len(EvalPapers)

\* The final prompt holds the candidates that were found. The others are made of the paper,
\* and a second attempt's also of the fields its first answer had wrong: it differs only where
\* answers of two executions mix, in the directories EvaluationResumable excepts.
EvalPrompt(key) ==
    IF key[2] # "final" THEN "fixed"
    ELSE LET candidates == evalSeen[<<key[1], "chunk">>]
         IN  IF candidates \in EvalContents THEN candidates ELSE "no_candidates"

EvalInit ==
    /\ evalRun = NoRun /\ evalAt = [paper |-> 1, stage |-> "baseline1"] /\ evalPhase = "ask" /\ evalAnswer = "none"
    /\ evalCalls = 0 /\ evalSeen = [key \in EvalKeys |-> "none"]
    /\ evalDisk = [identity |-> "none", responses |-> {},
                   checkpoints |-> [key \in EvalKeys |-> NoCheckpoint], files |-> [file \in EvalFiles |-> "none"]]
    /\ evalEnded = "none" /\ evalRuns = 0 /\ evalFaults = {}

---------------------------------------------------------------------------
(* Beginning, going on and ending *)

\* Inputs that fail verification, a dirty worktree and a plan above max_calls are refused
\* before the first write, and so is a resumption under another identity.
Admits(run, verified) ==
    /\ verified /\ MinimumCalls <= MaxCalls
    /\ run.resume => evalDisk.identity = run.id

EvalRefused ==
    /\ evalRun = NoRun /\ evalRuns < MaxEvaluations
    /\ \E id \in EvalIdentities, resume \in BOOLEAN, verified \in BOOLEAN :
        ~Admits([id |-> id, resume |-> resume], verified)
    /\ evalRuns' = evalRuns + 1 /\ evalEnded' = "refused"
    /\ UNCHANGED <<evalRun, evalAt, evalPhase, evalAnswer, evalCalls, evalSeen, evalDisk, evalFaults>>

\* A fresh execution writes its identity and keeps whatever is checkpointed already.
EvalBegins ==
    /\ evalRun = NoRun /\ evalRuns < MaxEvaluations
    /\ \E id \in EvalIdentities, resume \in BOOLEAN :
        /\ Admits([id |-> id, resume |-> resume], TRUE)
        /\ evalRun' = [id |-> id, resume |-> resume]
        /\ evalDisk' = [evalDisk EXCEPT !.identity = id]
        /\ evalFaults' = IF ~resume /\ evalRuns > 0 THEN evalFaults \cup {"begun_again"} ELSE evalFaults
    /\ evalAt' = [paper |-> 1, stage |-> "baseline1"] /\ evalPhase' = "ask" /\ evalCalls' = 0
    /\ evalAnswer' = "none" /\ evalSeen' = [key \in EvalKeys |-> "none"]
    /\ evalRuns' = evalRuns + 1 /\ evalEnded' = "none"

EvalStops(how) == evalRun' = NoRun /\ evalEnded' = how /\ UNCHANGED <<evalAt, evalSeen>>

At(stage) == [evalAt EXCEPT !.stage = stage]
\* Where a response, or the failure of a chunk, leads.
NextStage(content) ==
    CASE evalAt.stage = "baseline1" /\ content # "good" -> At("baseline2")
      [] evalAt.stage \in {"baseline1", "baseline2"} /\ content = "good" -> At("scoring_view")
      [] evalAt.stage = "baseline2" /\ content # "good" -> At("baseline")
      [] evalAt.stage = "chunk" -> At("final")
      [] evalAt.stage = "final" -> At("final_note")

\* An invalid final note ends the execution, checkpointed as it is.
Takes(content) ==
    /\ evalSeen' = [evalSeen EXCEPT ![EvalKey] = content]
    /\ IF evalAt.stage = "final" /\ content # "good"
       THEN evalRun' = NoRun /\ evalEnded' = "invalid_note" /\ UNCHANGED evalAt
       ELSE evalAt' = NextStage(content) /\ UNCHANGED <<evalRun, evalEnded>>

\* Whatever goes wrong on a chunk is a failure of that chunk, and what is none of the errors
\* _run_proposed lets through leaves a paper without its note; the rest ends the execution.
Fails(how) ==
    CASE evalAt.stage = "chunk" -> Takes("failed") /\ evalFaults' = evalFaults \cup {"chunk_failed"}
      [] evalAt.stage = "final" /\ how = "other_error" ->
            /\ evalSeen' = [evalSeen EXCEPT ![EvalKey] = "failed"] /\ evalAt' = At("proposed")
            /\ UNCHANGED <<evalRun, evalEnded, evalFaults>>
      [] OTHER -> EvalStops(how) /\ UNCHANGED evalFaults

---------------------------------------------------------------------------
(* One call *)

Asking == evalRun # NoRun /\ evalPhase = "ask" /\ evalAt.stage \in CallStages
Checkpointed == evalRun.resume /\ evalDisk.checkpoints[EvalKey] # NoCheckpoint

\* Mutant: the prompt of a checkpoint is not compared.
FitsAnyPrompt ==
    LET checkpoint == evalDisk.checkpoints[EvalKey]
    IN  checkpoint.id = evalRun.id /\ <<EvalKey, checkpoint.content>> \in evalDisk.responses

Fits ==
    LET checkpoint == evalDisk.checkpoints[EvalKey]
    IN  /\ checkpoint.id = evalRun.id /\ checkpoint.prompt = EvalPrompt(EvalKey)
        /\ <<EvalKey, checkpoint.content>> \in evalDisk.responses

EvalResumes ==
    /\ Asking /\ Checkpointed /\ Fits
    /\ Takes(evalDisk.checkpoints[EvalKey].content)
    /\ UNCHANGED <<evalPhase, evalAnswer, evalCalls, evalDisk, evalRuns, evalFaults>>

EvalMismatch ==
    /\ Asking /\ Checkpointed /\ ~Fits
    /\ Fails("mismatch")
    /\ UNCHANGED <<evalPhase, evalAnswer, evalCalls, evalDisk, evalRuns>>

MayCall == EvalPrompt(EvalKey) \in EvalWindow[evalRun.id] /\ evalCalls < MaxCalls
EvalAtLimit ==
    /\ Asking /\ ~Checkpointed /\ ~MayCall
    /\ Fails("limit")
    /\ UNCHANGED <<evalPhase, evalAnswer, evalCalls, evalDisk, evalRuns>>

EvalCallRaises ==
    /\ Asking /\ ~Checkpointed /\ MayCall
    /\ evalCalls' = evalCalls + 1
    /\ \E how \in {"llm_error", "other_error"} : Fails(how)
    /\ UNCHANGED <<evalPhase, evalAnswer, evalDisk, evalRuns>>

EvalCall ==
    /\ Asking /\ ~Checkpointed /\ MayCall
    /\ evalCalls' = evalCalls + 1
    /\ evalAnswer' \in EvalContents /\ evalPhase' = "store"
    /\ UNCHANGED <<evalRun, evalAt, evalSeen, evalDisk, evalEnded, evalRuns, evalFaults>>

\* The response is on disk, under a name of its own, before the checkpoint names it.
EvalStores ==
    /\ evalRun # NoRun /\ evalPhase = "store"
    /\ evalDisk' = [evalDisk EXCEPT !.responses = @ \cup {<<EvalKey, evalAnswer>>}]
    /\ evalPhase' = "checkpoint"
    /\ UNCHANGED <<evalRun, evalAt, evalAnswer, evalCalls, evalSeen, evalEnded, evalRuns, evalFaults>>

EvalCheckpoints ==
    /\ evalRun # NoRun /\ evalPhase = "checkpoint"
    /\ evalDisk' = [evalDisk EXCEPT !.checkpoints[EvalKey] =
                        [id |-> evalRun.id, prompt |-> EvalPrompt(EvalKey), content |-> evalAnswer]]
    /\ Takes(evalAnswer)
    /\ evalPhase' = "ask" /\ evalAnswer' = "none"
    /\ UNCHANGED <<evalCalls, evalRuns, evalFaults>>

\* The note and the metrics of a baseline and of a proposal, and the report of the run, each
\* replaced atomically; a note that is not valid this time leaves that of another execution.
EvalWrites ==
    /\ evalRun # NoRun /\ evalAt.stage \notin CallStages
    /\ LET last == evalAt.paper = Len(EvalPapers)
           file == IF evalAt.stage \in {"run_manifest", "call_metrics"} THEN <<0, evalAt.stage>> ELSE EvalKey
       IN  /\ evalDisk' = [evalDisk EXCEPT !.files[file] = evalRun.id]
           /\ IF evalAt.stage = "call_metrics" THEN EvalStops("report")
              ELSE /\ evalAt' =
                        CASE evalAt.stage = "scoring_view" -> At("baseline")
                          [] evalAt.stage = "baseline" -> At("chunk")
                          [] evalAt.stage = "final_note" -> At("proposed")
                          [] evalAt.stage = "proposed" /\ ~last -> [paper |-> evalAt.paper + 1, stage |-> "baseline1"]
                          [] evalAt.stage = "proposed" /\ last -> At("run_manifest")
                          [] evalAt.stage = "run_manifest" -> At("call_metrics")
                   /\ UNCHANGED <<evalRun, evalEnded, evalSeen>>
    /\ UNCHANGED <<evalPhase, evalAnswer, evalCalls, evalRuns, evalFaults>>

EvalDies ==
    /\ evalRun # NoRun
    /\ EvalStops("died")
    /\ evalPhase' = "ask" /\ evalAnswer' = "none"
    /\ UNCHANGED <<evalCalls, evalDisk, evalRuns, evalFaults>>

EvalNext ==
    \/ EvalRefused
    \/ EvalBegins
    \/ EvalResumes
    \/ EvalMismatch
    \/ EvalAtLimit
    \/ EvalCallRaises
    \/ EvalCall
    \/ EvalStores
    \/ EvalCheckpoints
    \/ EvalWrites
    \/ EvalDies

---------------------------------------------------------------------------
(* Properties. *)

\* The notes that manual_claim_evidence_review.csv lists are those on disk; whether the run got
\* one is what its metrics say.
Scored(note) ==
    IF note[2] = "final_note" THEN evalSeen[<<note[1], "final">>] = "good"
    ELSE "good" \in {evalSeen[<<note[1], "baseline1">>], evalSeen[<<note[1], "baseline2">>]}

\* A directory can be resumed: a checkpoint always names a response that is there; the
\* responses of a report are the ones checkpointed under its identity, for the prompts it
\* would ask with, so that resuming it changes nothing; the table for the reviewer lists the
\* notes that were scored, unless one execution was begun over another, whose notes stay; and
\* a resumption meets a mismatch only there, or where a chunk failed before and its candidates
\* changed the final prompt since.
EvaluationResumable ==
    /\ \A key \in EvalKeys :
        LET checkpoint == evalDisk.checkpoints[key]
        IN  checkpoint # NoCheckpoint => <<key, checkpoint.content>> \in evalDisk.responses
    /\ evalEnded = "report" =>
        /\ \A file \in EvalMetrics \cup EvalReport : evalDisk.files[file] = evalDisk.identity
        /\ \A note \in EvalNotes :
            /\ Scored(note) => evalDisk.files[note] = evalDisk.identity
            /\ ~Scored(note) /\ "begun_again" \notin evalFaults => evalDisk.files[note] = "none"
        /\ \A key \in EvalKeys : evalSeen[key] \in EvalContents =>
            evalDisk.checkpoints[key] =
                [id |-> evalDisk.identity, prompt |-> EvalPrompt(key), content |-> evalSeen[key]]
    /\ evalEnded = "mismatch" => evalFaults # {}
    /\ evalCalls <= MaxCalls
=============================================================================
