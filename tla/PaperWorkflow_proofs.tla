------------------------ MODULE PaperWorkflow_proofs ------------------------
(***************************************************************************)
(* Theorems about the workflows that work on papers and leave files, for   *)
(* every paper, reply, identity and order of writes: an evaluation         *)
(* directory can always be resumed and holds nothing a later execution     *)
(* would misread (EvalInv); verified question answering pays once for what *)
(* its directory keeps (QAInv), and what it shows and replays is grounded  *)
(* (ReplayInv); what a reader wrote into a vault is never lost to a write  *)
(* of the program that could see it (VaultInv); what aggregations of runs  *)
(* put at one output directory is whole and stays (AggInv); what a reading *)
(* leaves is backed by the text it cites and by the response that was paid *)
(* for (DeepInv). And one about retrieval: the windows of a passage cover  *)
(* it (WindowsCover).                                                      *)
(***************************************************************************)
EXTENDS Evaluation, EvaluationAggregate, QAReplay, ObsidianVault, DeepReading,
        PassageWindows, WellFoundedInduction, FiniteSetTheorems, SequenceTheorems, TLAPS

---------------------------------------------------------------------------
(* Least elements *)

\* A set of naturals that is not empty has a least element.
LEMMA LeastNumber ==
  ASSUME NEW S \in SUBSET Nat, S # {}
  PROVE  /\ (CHOOSE m \in S : \A k \in S : m <= k) \in S
         /\ \A k \in S : (CHOOSE m \in S : \A k1 \in S : m <= k1) <= k
<1>1. PICK m \in S : \A k \in S : ~ (<<k, m>> \in OpToRel(<, Nat))
  BY WFMin, NatLessThanWellFounded
<1>2. \A k \in S : ~ (k < m)
  BY <1>1 DEF OpToRel
<1>3. \A k \in S : m <= k
  BY <1>2
<1> QED
  BY <1>3

---------------------------------------------------------------------------
(* Evaluation: a directory that is resumed *)

EvalSpec == EvalInit /\ [][EvalNext]_evalVars

EvalIds == EvalIdentities \cup {"none"}
EvalCheckpoint ==
    [id : EvalIds, prompt : {"fixed", "no_candidates"} \cup EvalContents, content : EvalContents]
EvalStages ==
    CallStages \cup {"scoring_view", "baseline", "final_note", "proposed", "run_manifest", "call_metrics"}

\* The order in which an execution goes through the stages of a paper.
Rank(stage) ==
    CASE stage = "baseline1" -> 1 [] stage = "baseline2" -> 2 [] stage = "scoring_view" -> 3
      [] stage = "baseline" -> 4 [] stage = "chunk" -> 5 [] stage = "final" -> 6
      [] stage = "final_note" -> 7 [] stage = "proposed" -> 8 [] stage = "run_manifest" -> 9
      [] stage = "call_metrics" -> 10

\* What the execution under way, or the one that wrote the report, has gone past.
Passed(key) ==
    \/ key[1] < evalAt.paper
    \/ key[1] = evalAt.paper /\ Rank(key[2]) < Rank(evalAt.stage)
Told == evalRun # NoRun \/ evalEnded = "report"
Held(key) == evalDisk.checkpoints[key] # NoCheckpoint
HeldContent(key) == evalDisk.checkpoints[key].content
OneRun == "begun_again" \notin evalFaults
CheckpointOf(key, content) ==
    [id |-> evalDisk.identity, prompt |-> EvalPrompt(key), content |-> content]

EvalShape ==
    /\ evalAt \in [paper : 1..Len(EvalPapers), stage : EvalStages]
    /\ evalAt.stage \in {"run_manifest", "call_metrics"} => evalAt.paper = Len(EvalPapers)
    /\ evalPhase \in {"ask", "store", "checkpoint"}
    /\ evalPhase # "ask" => evalAt.stage \in CallStages /\ evalAnswer \in EvalContents
    /\ evalCalls \in 0..MaxCalls /\ evalRuns \in Nat
    /\ evalSeen \in [EvalKeys -> EvalContents \cup {"none", "failed"}]
    /\ evalDisk \in [identity : EvalIds, responses : SUBSET (EvalKeys \X EvalContents),
                     checkpoints : [EvalKeys -> {NoCheckpoint} \cup EvalCheckpoint],
                     files : [EvalFiles -> EvalIds]]
    /\ evalRun # NoRun => evalRun.id = evalDisk.identity /\ evalEnded = "none" /\ evalRuns > 0
    /\ evalEnded = "report" => evalAt.stage = "call_metrics"

\* A checkpoint names a response that is there; only the prompt of a final note varies.
EvalStored ==
    /\ \A key \in EvalKeys : Held(key) => <<key, HeldContent(key)>> \in evalDisk.responses
    /\ evalPhase = "checkpoint" => <<EvalKey, evalAnswer>> \in evalDisk.responses
    /\ \A key \in EvalKeys :
        Held(key) /\ key[2] # "final" => evalDisk.checkpoints[key].prompt = "fixed"

\* What an execution has is checkpointed under its identity for its prompt; it has nothing
\* yet for what is ahead; and the stage it is at says what it has.
EvalTelling ==
    /\ evalRun # NoRun => \A key \in EvalKeys : ~Passed(key) => evalSeen[key] = "none"
    /\ Told => \A key \in EvalKeys :
        evalSeen[key] \in EvalContents => evalDisk.checkpoints[key] = CheckpointOf(key, evalSeen[key])
    /\ evalRun # NoRun =>
        /\ evalAt.stage = "baseline2" => evalSeen[<<evalAt.paper, "baseline1">>] = "other"
        /\ evalAt.stage = "scoring_view" => Scored(<<evalAt.paper, "scoring_view">>)
        /\ evalAt.stage = "final_note" => Scored(<<evalAt.paper, "final_note">>)

\* The files of what was passed are those of this execution.
EvalWritten ==
    /\ Told =>
        /\ \A file \in EvalMetrics : Passed(file) => evalDisk.files[file] = evalDisk.identity
        /\ \A note \in EvalNotes : Passed(note) /\ Scored(note) => evalDisk.files[note] = evalDisk.identity
        /\ evalAt.stage = "call_metrics" => evalDisk.files[<<0, "run_manifest">>] = evalDisk.identity
    /\ evalEnded = "report" => evalDisk.files[<<0, "call_metrics">>] = evalDisk.identity

\* Where no execution was begun over another: one identity, a second baseline only behind an
\* invalid first, a note only where what it is made of is checkpointed.
EvalOneDirectory == OneRun =>
    /\ evalRuns = 0 => \A key \in EvalKeys : ~Held(key)
    /\ \A key \in EvalKeys : Held(key) => evalDisk.checkpoints[key].id = evalDisk.identity
    /\ \A p \in 1..Len(EvalPapers) :
        /\ Held(<<p, "baseline2">>) => Held(<<p, "baseline1">>) /\ HeldContent(<<p, "baseline1">>) # "good"
        /\ evalDisk.files[<<p, "scoring_view">>] # "none" =>
            \E stage \in {"baseline1", "baseline2"} : Held(<<p, stage>>) /\ HeldContent(<<p, stage>>) = "good"
        /\ evalDisk.files[<<p, "final_note">>] # "none" =>
            Held(<<p, "final">>) /\ HeldContent(<<p, "final">>) = "good"
\* There a fresh execution finds nothing ahead, and every checkpoint passed was taken.
EvalOneExecution == OneRun =>
    /\ evalRun # NoRun /\ ~evalRun.resume => \A key \in EvalKeys : Held(key) => Passed(key)
    /\ Told => \A key \in EvalKeys : Held(key) /\ Passed(key) => evalSeen[key] = HeldContent(key)
    /\ evalPhase # "ask" => ~Held(EvalKey)

\* Where nothing changed a prompt, a final note is made of the candidates checkpointed.
EvalSamePrompts == evalFaults = {} => \A p \in 1..Len(EvalPapers) :
    /\ Held(<<p, "final">>) =>
        /\ Held(<<p, "chunk">>)
        /\ evalDisk.checkpoints[<<p, "final">>].prompt = HeldContent(<<p, "chunk">>)
    /\ evalRun # NoRun /\ Passed(<<p, "chunk">>) => evalSeen[<<p, "chunk">>] \in EvalContents

EvalInv ==
    /\ EvalShape /\ EvalStored /\ EvalTelling /\ EvalWritten
    /\ EvalOneDirectory /\ EvalOneExecution /\ EvalSamePrompts
    /\ evalEnded = "mismatch" => evalFaults # {}

---------------------------------------------------------------------------
(* Keys, stages and what is passed *)

LEMMA RankOf ==
  /\ Rank("baseline1") = 1 /\ Rank("baseline2") = 2 /\ Rank("scoring_view") = 3
  /\ Rank("baseline") = 4 /\ Rank("chunk") = 5 /\ Rank("final") = 6 /\ Rank("final_note") = 7
  /\ Rank("proposed") = 8 /\ Rank("run_manifest") = 9 /\ Rank("call_metrics") = 10
BY DEF Rank

LEMMA EvalPapersCount == Len(EvalPapers) \in Nat \ {0}
<1>1. Len(EvalPapers) \in Nat
  BY EvaluationConstants
<1>2. Len(EvalPapers) # 0
  BY EvaluationConstants
<1> QED
  BY <1>1, <1>2

\* A key is a paper and a stage.
LEMMA KeysArePairs ==
  /\ \A key \in EvalKeys :
        key = <<key[1], key[2]>> /\ key[1] \in 1..Len(EvalPapers) /\ key[2] \in CallStages
  /\ \A p \in 1..Len(EvalPapers), stage \in CallStages :
        /\ <<p, stage>> \in EvalKeys /\ <<p, stage>>[1] = p /\ <<p, stage>>[2] = stage
  /\ \A file \in EvalMetrics :
        file = <<file[1], file[2]>> /\ file[1] \in 1..Len(EvalPapers) /\ file[2] \in {"baseline", "proposed"}
  /\ \A note \in EvalNotes :
        note = <<note[1], note[2]>> /\ note[1] \in 1..Len(EvalPapers) /\ note[2] \in {"scoring_view", "final_note"}
BY DEF EvalKeys, EvalMetrics, EvalNotes

\* A checkpoint says more than its absence does.
LEMMA CheckpointsDiffer ==
  /\ \A i, p, c : [id |-> i, prompt |-> p, content |-> c] # NoCheckpoint
  /\ NoCheckpoint \notin EvalCheckpoint
<1>1. \A i, p, c : DOMAIN [id |-> i, prompt |-> p, content |-> c] # DOMAIN NoCheckpoint
  <2>1. \A i, p, c : "prompt" \in DOMAIN [id |-> i, prompt |-> p, content |-> c]
    OBVIOUS
  <2>2. "prompt" \notin DOMAIN NoCheckpoint
    BY DEF NoCheckpoint
  <2> QED
    BY <2>1, <2>2
<1>2. \A c \in EvalCheckpoint : "prompt" \in DOMAIN c
  BY DEF EvalCheckpoint
<1>3. "prompt" \notin DOMAIN NoCheckpoint
  BY DEF NoCheckpoint
<1> QED
  BY <1>1, <1>2, <1>3

\* The execution asks for one of the keys.
LEMMA EvalKeyIsAKey ==
  ASSUME EvalShape, evalAt.stage \in CallStages
  PROVE  /\ EvalKey \in EvalKeys /\ EvalKey[1] = evalAt.paper /\ EvalKey[2] = evalAt.stage
         /\ ~Passed(EvalKey)
<1>1. evalAt.paper \in 1..Len(EvalPapers)
  BY DEF EvalShape
<1>2. EvalKey \in EvalKeys /\ EvalKey[1] = evalAt.paper /\ EvalKey[2] = evalAt.stage
  BY <1>1 DEF EvalKey, EvalKeys
<1>3. Rank(evalAt.stage) \in Nat
  BY RankOf DEF CallStages
<1> QED
  BY <1>1, <1>2, <1>3 DEF Passed

---------------------------------------------------------------------------
(* Settling what is asked for *)

\* What an execution that goes on got for a key, and the stage that leads to.
EvalMoves ==
    {<<"baseline1", "other", "baseline2">>, <<"baseline1", "good", "scoring_view">>,
     <<"baseline2", "good", "scoring_view">>, <<"baseline2", "other", "baseline">>,
     <<"chunk", "good", "final">>, <<"chunk", "other", "final">>, <<"chunk", "failed", "final">>,
     <<"final", "good", "final_note">>, <<"final", "failed", "proposed">>}
EvalSettles(content) ==
    /\ evalRun # NoRun /\ evalAt.stage \in CallStages
    /\ evalRun' = evalRun /\ evalEnded' = evalEnded
    /\ evalSeen' = [evalSeen EXCEPT ![EvalKey] = content]
    /\ \E stage \in EvalStages :
        evalAt' = [evalAt EXCEPT !.stage = stage] /\ <<evalAt.stage, content, stage>> \in EvalMoves
\* A response settled is checkpointed, before or now; a failure leaves no checkpoint.
EvalRecords(content) ==
    /\ evalDisk'.identity = evalDisk.identity /\ evalDisk'.files = evalDisk.files
    /\ \A key \in EvalKeys :
        evalDisk'.checkpoints[key] =
            IF key = EvalKey /\ content \in EvalContents THEN CheckpointOf(key, content)
            ELSE evalDisk.checkpoints[key]
    /\ OneRun /\ Held(EvalKey) =>
        content \in EvalContents /\ evalDisk.checkpoints[EvalKey] = CheckpointOf(EvalKey, content)
    /\ evalFaults \subseteq evalFaults' /\ ("begun_again" \in evalFaults' => "begun_again" \in evalFaults)
    /\ evalAt.stage = "chunk" /\ content \notin EvalContents => evalFaults' # {}
    /\ evalRuns' = evalRuns /\ evalPhase' = "ask"

\* What settling a key passes: the key, a second baseline that is not asked for, and a note
\* that is not written.
LEMMA SettlingPasses ==
  ASSUME EvalShape, NEW content, EvalSettles(content)
  PROVE  /\ \A key \in EvalKeys :
              Passed(key)' <=> \/ Passed(key) \/ key = EvalKey
                               \/ /\ key = <<evalAt.paper, "baseline2">>
                                  /\ evalAt.stage = "baseline1" /\ content = "good"
         /\ \A file \in EvalMetrics : Passed(file)' <=> Passed(file)
         /\ \A note \in EvalNotes :
              Passed(note)' =>
                \/ Passed(note)
                \/ note = <<evalAt.paper, "scoring_view">> /\ evalAt.stage = "baseline2" /\ content # "good"
                \/ note = <<evalAt.paper, "final_note">> /\ evalAt.stage = "final" /\ content = "failed"
<1>1. PICK stage \in EvalStages :
        evalAt' = [evalAt EXCEPT !.stage = stage] /\ <<evalAt.stage, content, stage>> \in EvalMoves
  BY DEF EvalSettles
<1>2. evalAt'.paper = evalAt.paper /\ evalAt'.stage = stage /\ evalAt.paper \in 1..Len(EvalPapers)
  BY <1>1 DEF EvalShape
<1> DEFINE at == evalAt.stage
           paper == evalAt.paper
<1>3. \A key : Passed(key)' <=> key[1] < paper \/ (key[1] = paper /\ Rank(key[2]) < Rank(stage))
  BY <1>2 DEF Passed
<1>4. \A key : Passed(key) <=> key[1] < paper \/ (key[1] = paper /\ Rank(key[2]) < Rank(at))
  BY DEF Passed
<1>5. EvalKey = <<paper, at>>
  BY DEF EvalKey
<1>6. paper \in Int
  BY <1>2
<1>7. \/ at = "baseline1" /\ content = "other" /\ stage = "baseline2"
      \/ at = "baseline1" /\ content = "good" /\ stage = "scoring_view"
      \/ at = "baseline2" /\ content = "good" /\ stage = "scoring_view"
      \/ at = "baseline2" /\ content = "other" /\ stage = "baseline"
      \/ at = "chunk" /\ stage = "final"
      \/ at = "final" /\ content = "good" /\ stage = "final_note"
      \/ at = "final" /\ content = "failed" /\ stage = "proposed"
  BY <1>1 DEF EvalMoves
<1> HIDE DEF at, paper
<1>8. ASSUME NEW q \in Int, NEW s \in CallStages
      PROVE  Passed(<<q, s>>)' <=> \/ Passed(<<q, s>>) \/ <<q, s>> = EvalKey
                                   \/ <<q, s>> = <<paper, "baseline2">> /\ at = "baseline1" /\ content = "good"
  <2>1. /\ Passed(<<q, s>>)' <=> q < paper \/ (q = paper /\ Rank(s) < Rank(stage))
        /\ Passed(<<q, s>>) <=> q < paper \/ (q = paper /\ Rank(s) < Rank(at))
    BY <1>3, <1>4
  <2>2. /\ <<q, s>> = EvalKey <=> q = paper /\ s = at
        /\ <<q, s>> = <<paper, "baseline2">> <=> q = paper /\ s = "baseline2"
    BY <1>5
  <2> QED
    BY <1>6, <1>7, <2>1, <2>2, RankOf DEF CallStages
<1>9. ASSUME NEW q \in Int, NEW s \in {"baseline", "proposed"}
      PROVE  Passed(<<q, s>>)' <=> Passed(<<q, s>>)
  <2>1. /\ Passed(<<q, s>>)' <=> q < paper \/ (q = paper /\ Rank(s) < Rank(stage))
        /\ Passed(<<q, s>>) <=> q < paper \/ (q = paper /\ Rank(s) < Rank(at))
    BY <1>3, <1>4
  <2> QED
    BY <1>6, <1>7, <2>1, RankOf
<1>10. ASSUME NEW q \in Int, NEW s \in {"scoring_view", "final_note"}, Passed(<<q, s>>)'
       PROVE  \/ Passed(<<q, s>>)
              \/ <<q, s>> = <<paper, "scoring_view">> /\ at = "baseline2" /\ content # "good"
              \/ <<q, s>> = <<paper, "final_note">> /\ at = "final" /\ content = "failed"
  <2>1. /\ q < paper \/ (q = paper /\ Rank(s) < Rank(stage))
        /\ Passed(<<q, s>>) <=> q < paper \/ (q = paper /\ Rank(s) < Rank(at))
    BY <1>3, <1>4, <1>10
  <2> QED
    BY <1>6, <1>7, <2>1, RankOf
<1>11. \A key \in EvalKeys :
         Passed(key)' <=> \/ Passed(key) \/ key = EvalKey
                          \/ key = <<paper, "baseline2">> /\ at = "baseline1" /\ content = "good"
  <2> TAKE key \in EvalKeys
  <2>1. key = <<key[1], key[2]>> /\ key[1] \in Int /\ key[2] \in CallStages
    BY KeysArePairs, EvalPapersCount
  <2> QED
    BY <1>8, <2>1
<1>12. \A file \in EvalMetrics : Passed(file)' <=> Passed(file)
  <2> TAKE file \in EvalMetrics
  <2>1. file = <<file[1], file[2]>> /\ file[1] \in Int /\ file[2] \in {"baseline", "proposed"}
    BY KeysArePairs, EvalPapersCount
  <2> QED
    BY <1>9, <2>1
<1>13. \A note \in EvalNotes :
         Passed(note)' =>
           \/ Passed(note)
           \/ note = <<paper, "scoring_view">> /\ at = "baseline2" /\ content # "good"
           \/ note = <<paper, "final_note">> /\ at = "final" /\ content = "failed"
  <2> TAKE note \in EvalNotes
  <2>1. note = <<note[1], note[2]>> /\ note[1] \in Int /\ note[2] \in {"scoring_view", "final_note"}
    BY KeysArePairs, EvalPapersCount
  <2> QED
    BY <1>10, <2>1
<1> QED
  BY <1>11, <1>12, <1>13 DEF at, paper

\* What the execution has for a key changes for the one settled only.
LEMMA SettlingSees ==
  ASSUME EvalShape, NEW content, EvalSettles(content)
  PROVE  /\ EvalKey \in EvalKeys
         /\ \A key \in EvalKeys : evalSeen'[key] = IF key = EvalKey THEN content ELSE evalSeen[key]
         /\ Told' <=> Told
         /\ content \in EvalContents \cup {"failed"}
<1>1. EvalKey \in EvalKeys
  BY EvalKeyIsAKey DEF EvalSettles
<1>2. \A key \in EvalKeys : evalSeen'[key] = IF key = EvalKey THEN content ELSE evalSeen[key]
  BY DEF EvalSettles, EvalShape
<1>3. Told' <=> Told
  BY DEF Told, EvalSettles
<1>4. content \in EvalContents \cup {"failed"}
  BY DEF EvalSettles, EvalMoves, EvalContents
<1> QED
  BY <1>1, <1>2, <1>3, <1>4

\* The prompt of a key that is settled, or has a response, stays what it was.
LEMMA SettlingKeepsPrompts ==
  ASSUME EvalShape, EvalTelling, NEW content, EvalSettles(content)
  PROVE  \A key \in EvalKeys : key = EvalKey \/ evalSeen[key] \in EvalContents =>
            EvalPrompt(key)' = EvalPrompt(key)
<1> SUFFICES ASSUME NEW key \in EvalKeys, key = EvalKey \/ evalSeen[key] \in EvalContents
             PROVE  EvalPrompt(key)' = EvalPrompt(key)
  OBVIOUS
<1>1. CASE key[2] # "final"
  BY <1>1 DEF EvalPrompt
<1>2. CASE key[2] = "final"
  <2> DEFINE chunk == <<key[1], "chunk">>
  <2>1. key = <<key[1], "final">> /\ key[1] \in 1..Len(EvalPapers) /\ chunk \in EvalKeys
    <3>1. key = <<key[1], key[2]>> /\ key[1] \in 1..Len(EvalPapers)
      BY KeysArePairs
    <3>2. chunk \in EvalKeys
      BY <3>1 DEF EvalKeys, CallStages
    <3> QED
      BY <1>2, <3>1, <3>2
  <2>2. chunk # EvalKey
    <3>1. SUFFICES ASSUME chunk = EvalKey PROVE FALSE
      OBVIOUS
    <3>2. evalAt.paper = key[1] /\ evalAt.stage = "chunk" /\ evalRun # NoRun
      BY <3>1, EvalKeyIsAKey DEF EvalSettles, EvalKey
    <3>3. ~Passed(key) /\ key # EvalKey
      <4>1. key[2] = "final" /\ key[1] \in Int
        BY <1>2, <2>1, EvalPapersCount
      <4>2. ~Passed(key)
        BY <3>2, <4>1, RankOf DEF Passed
      <4>3. key # EvalKey
        BY <3>1, <2>1
      <4> QED
        BY <4>2, <4>3
    <3>4. evalSeen[key] = "none"
      BY <3>2, <3>3 DEF EvalTelling
    <3> QED
      BY <3>3, <3>4 DEF EvalContents
  <2>3. evalSeen'[chunk] = evalSeen[chunk]
    BY <2>1, <2>2, SettlingSees
  <2> QED
    BY <2>3 DEF EvalPrompt
<1> QED
  BY <1>1, <1>2

LEMMA SettlingTells ==
  ASSUME EvalShape, EvalTelling, NEW content, EvalSettles(content), EvalRecords(content)
  PROVE  EvalTelling'
<1>1. ASSUME NEW key \in EvalKeys, ~Passed(key)'
      PROVE  evalSeen'[key] = "none"
  <2>1. ~Passed(key) /\ key # EvalKey
    BY <1>1, SettlingPasses
  <2>2. evalSeen[key] = "none"
    BY <2>1 DEF EvalTelling, EvalSettles
  <2> QED
    BY <2>1, <2>2, SettlingSees
<1>2. ASSUME NEW key \in EvalKeys, evalSeen'[key] \in EvalContents
      PROVE  evalDisk'.checkpoints[key] = CheckpointOf(key, evalSeen[key])'
  <2>1. key = EvalKey \/ evalSeen[key] \in EvalContents
    BY <1>2, SettlingSees
  <2>2. EvalPrompt(key)' = EvalPrompt(key)
    BY <2>1, SettlingKeepsPrompts
  <2>3. CheckpointOf(key, evalSeen[key])' = CheckpointOf(key, evalSeen'[key])
    BY <2>2 DEF CheckpointOf, EvalRecords
  <2>4. CASE key = EvalKey
    <3>1. evalSeen'[key] = content
      BY <2>4, SettlingSees
    <3> QED
      BY <1>2, <2>3, <2>4, <3>1 DEF EvalRecords
  <2>5. CASE key # EvalKey
    <3>1. evalSeen'[key] = evalSeen[key]
      BY <2>5, SettlingSees
    <3>2. evalDisk.checkpoints[key] = CheckpointOf(key, evalSeen[key])
      BY <1>2, <3>1 DEF EvalTelling, Told, EvalSettles
    <3> QED
      BY <2>3, <2>5, <3>1, <3>2 DEF EvalRecords
  <2> QED
    BY <2>4, <2>5
<1>3. /\ evalAt'.stage = "baseline2" => evalSeen'[<<evalAt'.paper, "baseline1">>] = "other"
      /\ evalAt'.stage = "scoring_view" => Scored(<<evalAt.paper, "scoring_view">>)'
      /\ evalAt'.stage = "final_note" => Scored(<<evalAt.paper, "final_note">>)'
  <2>1. PICK stage \in EvalStages :
          evalAt' = [evalAt EXCEPT !.stage = stage] /\ <<evalAt.stage, content, stage>> \in EvalMoves
    BY DEF EvalSettles
  <2>2. evalAt'.paper = evalAt.paper /\ evalAt'.stage = stage
    BY <2>1 DEF EvalShape
  <2>3. evalSeen'[<<evalAt.paper, evalAt.stage>>] = content
    BY SettlingSees DEF EvalKey
  <2>4. /\ stage = "baseline2" => evalAt.stage = "baseline1" /\ content = "other"
        /\ stage = "scoring_view" => evalAt.stage \in {"baseline1", "baseline2"} /\ content = "good"
        /\ stage = "final_note" => evalAt.stage = "final" /\ content = "good"
    BY <2>1 DEF EvalMoves
  <2>5. stage = "scoring_view" => Scored(<<evalAt.paper, "scoring_view">>)'
    BY <2>2, <2>3, <2>4 DEF Scored
  <2>6. stage = "final_note" => Scored(<<evalAt.paper, "final_note">>)'
    BY <2>2, <2>3, <2>4 DEF Scored
  <2> QED
    BY <2>2, <2>3, <2>4, <2>5, <2>6
<1>4. \A key \in EvalKeys : ~Passed(key)' => evalSeen'[key] = "none"
  BY <1>1
<1>5. \A key \in EvalKeys :
        evalSeen'[key] \in EvalContents => evalDisk'.checkpoints[key] = CheckpointOf(key, evalSeen[key])'
  BY <1>2
<1> QED
  BY <1>3, <1>4, <1>5 DEF EvalTelling

LEMMA SettlingKeepsFiles ==
  ASSUME EvalShape, EvalTelling, EvalWritten, NEW content, EvalSettles(content), EvalRecords(content)
  PROVE  EvalWritten'
<1>1. /\ evalDisk'.files = evalDisk.files /\ evalDisk'.identity = evalDisk.identity
      /\ evalRun # NoRun /\ Told /\ evalEnded' # "report"
  BY DEF EvalRecords, EvalSettles, Told, EvalShape
<1>2. \A file \in EvalMetrics : Passed(file)' => evalDisk'.files[file] = evalDisk'.identity
  BY <1>1, SettlingPasses DEF EvalWritten
<1>3. PICK stage \in EvalStages :
        evalAt' = [evalAt EXCEPT !.stage = stage] /\ <<evalAt.stage, content, stage>> \in EvalMoves
  BY DEF EvalSettles
<1>4. evalAt'.stage = stage /\ stage # "call_metrics"
  BY <1>3 DEF EvalMoves, EvalShape
<1>5. ASSUME NEW note \in EvalNotes, Passed(note)', Scored(note)'
      PROVE  evalDisk'.files[note] = evalDisk'.identity
  <2>1. note = <<note[1], note[2]>> /\ note[1] \in 1..Len(EvalPapers) /\ note[2] \in {"scoring_view", "final_note"}
    BY KeysArePairs
  <2> DEFINE first == <<note[1], "baseline1">>
             second == <<note[1], "baseline2">>
             final == <<note[1], "final">>
  <2>2. first \in EvalKeys /\ second \in EvalKeys /\ final \in EvalKeys
    BY <2>1, KeysArePairs DEF CallStages
  <2>3. Passed(note)
    <3>1. CASE note = <<evalAt.paper, "scoring_view">> /\ evalAt.stage = "baseline2" /\ content # "good"
      <4>1. note[1] = evalAt.paper /\ note[2] = "scoring_view" /\ EvalKey = second
        BY <3>1 DEF EvalKey
      <4>2. evalSeen[first] # "good"
        BY <3>1, <4>1, <1>1 DEF EvalTelling
      <4>3. first # second
        OBVIOUS
      <4>4. evalSeen'[first] # "good" /\ evalSeen'[second] # "good"
        BY <2>2, <3>1, <4>1, <4>2, <4>3, SettlingSees
      <4> QED
        BY <1>5, <4>1, <4>4 DEF Scored
    <3>2. CASE note = <<evalAt.paper, "final_note">> /\ evalAt.stage = "final" /\ content = "failed"
      <4>1. note[1] = evalAt.paper /\ note[2] = "final_note" /\ EvalKey = final
        BY <3>2 DEF EvalKey
      <4>2. evalSeen'[final] # "good"
        BY <2>2, <3>2, <4>1, SettlingSees
      <4> QED
        BY <1>5, <4>1, <4>2 DEF Scored
    <3> QED
      BY <1>5, <3>1, <3>2, SettlingPasses
  <2>4. Scored(note)
    <3>1. ASSUME NEW key \in EvalKeys, key[1] = note[1], evalSeen'[key] = "good", ~(evalSeen[key] = "good"),
                 Rank(key[2]) < Rank(note[2])
          PROVE  FALSE
      <4>1. key = EvalKey /\ evalAt.stage \in CallStages
        BY <3>1, SettlingSees DEF EvalSettles
      <4>2. key[1] = evalAt.paper /\ key[2] = evalAt.stage
        BY <4>1 DEF EvalKey
      <4>3. note[1] = evalAt.paper /\ evalAt.paper \in Int
        BY <2>1, <3>1, <4>2, EvalPapersCount
      <4>4. Rank(note[2]) < Rank(evalAt.stage)
        BY <2>3, <4>3 DEF Passed
      <4>5. Rank(note[2]) \in Int /\ Rank(key[2]) \in Int
        BY <2>1, <4>1, <4>2, RankOf DEF CallStages
      <4> QED
        BY <3>1, <4>2, <4>4, <4>5
    <3>2. Rank("baseline1") < Rank("scoring_view") /\ Rank("baseline2") < Rank("scoring_view")
          /\ Rank("final") < Rank("final_note")
      BY RankOf
    <3>3. CASE note[2] = "final_note"
      <4>1. evalSeen'[final] = "good"
        BY <1>5, <3>3 DEF Scored
      <4>2. evalSeen[final] = "good"
        BY <2>2, <3>1, <3>2, <3>3, <4>1
      <4> QED
        BY <3>3, <4>2 DEF Scored
    <3>4. CASE note[2] = "scoring_view"
      <4>1. evalSeen'[first] = "good" \/ evalSeen'[second] = "good"
        BY <1>5, <3>4 DEF Scored
      <4>2. evalSeen[first] = "good" \/ evalSeen[second] = "good"
        BY <2>2, <3>1, <3>2, <3>4, <4>1
      <4> QED
        BY <3>4, <4>2 DEF Scored
    <3> QED
      BY <2>1, <3>3, <3>4
  <2> QED
    BY <1>1, <2>3, <2>4 DEF EvalWritten
<1>6. \A note \in EvalNotes : Passed(note)' /\ Scored(note)' => evalDisk'.files[note] = evalDisk'.identity
  BY <1>5
<1> QED
  BY <1>1, <1>2, <1>4, <1>6 DEF EvalWritten

\* In a directory of one run no checkpoint is replaced by another, and a new one is that of the
\* key asked for.
LEMMA RecordingKeepsHeld ==
  ASSUME EvalShape, OneRun, NEW content, EvalRecords(content)
  PROVE  \A key \in EvalKeys :
            /\ Held(key) => evalDisk'.checkpoints[key] = evalDisk.checkpoints[key]
            /\ Held(key)' /\ ~Held(key) =>
                /\ key = EvalKey /\ content \in EvalContents
                /\ evalDisk'.checkpoints[key] = CheckpointOf(key, content)
<1> TAKE key \in EvalKeys
<1>1. CASE Held(key)
  BY <1>1 DEF EvalRecords
<1>2. CASE ~Held(key)
  BY <1>2 DEF EvalRecords, Held
<1> QED
  BY <1>1, <1>2

\* A checkpoint as it is written is held, under the identity of the directory.
LEMMA CheckpointsAreHeld ==
  \A key, content :
    /\ CheckpointOf(key, content) # NoCheckpoint
    /\ CheckpointOf(key, content).id = evalDisk.identity
    /\ CheckpointOf(key, content).prompt = EvalPrompt(key)
    /\ CheckpointOf(key, content).content = content
BY CheckpointsDiffer DEF CheckpointOf

LEMMA RecordingKeepsDirectory ==
  ASSUME EvalInv, evalRun # NoRun, evalAt.stage \in CallStages, NEW content, EvalRecords(content)
  PROVE  EvalOneDirectory'
<1> SUFFICES ASSUME OneRun'
             PROVE  EvalOneDirectory'
  BY DEF EvalOneDirectory
<1>1. OneRun /\ EvalOneDirectory /\ EvalShape /\ EvalTelling
  BY DEF OneRun, EvalRecords, EvalInv
<1>2. \A key \in EvalKeys :
        /\ Held(key) => evalDisk'.checkpoints[key] = evalDisk.checkpoints[key]
        /\ Held(key)' /\ ~Held(key) =>
            /\ key = EvalKey /\ content \in EvalContents
            /\ evalDisk'.checkpoints[key] = CheckpointOf(key, content)
  BY <1>1, RecordingKeepsHeld
<1>3. \A key \in EvalKeys : Held(key) => Held(key)' /\ HeldContent(key)' = HeldContent(key)
  BY <1>2 DEF Held, HeldContent
<1>4. /\ evalDisk'.identity = evalDisk.identity /\ evalDisk'.files = evalDisk.files
      /\ evalRuns' = evalRuns /\ evalRuns > 0 /\ evalRuns \in Nat
  BY <1>1 DEF EvalRecords, EvalShape
<1>5. ASSUME NEW key \in EvalKeys, Held(key)'
      PROVE  evalDisk'.checkpoints[key].id = evalDisk'.identity
  <2>1. CASE Held(key)
    BY <1>1, <1>2, <1>4, <2>1 DEF EvalOneDirectory
  <2>2. CASE ~Held(key)
    BY <1>2, <1>4, <1>5, <2>2, CheckpointsAreHeld
  <2> QED
    BY <2>1, <2>2
<1>6. ASSUME NEW p \in 1..Len(EvalPapers)
      PROVE  /\ Held(<<p, "baseline2">>)' =>
                Held(<<p, "baseline1">>)' /\ HeldContent(<<p, "baseline1">>)' # "good"
             /\ evalDisk'.files[<<p, "scoring_view">>] # "none" =>
                \E stage \in {"baseline1", "baseline2"} :
                    Held(<<p, stage>>)' /\ HeldContent(<<p, stage>>)' = "good"
             /\ evalDisk'.files[<<p, "final_note">>] # "none" =>
                Held(<<p, "final">>)' /\ HeldContent(<<p, "final">>)' = "good"
  <2> DEFINE first == <<p, "baseline1">>
             second == <<p, "baseline2">>
  <2>1. first \in EvalKeys /\ second \in EvalKeys /\ <<p, "final">> \in EvalKeys
    BY DEF EvalKeys, CallStages
  <2>2. ASSUME Held(second)'
        PROVE  Held(first)' /\ HeldContent(first)' # "good"
    <3>1. CASE Held(second)
      <4>1. Held(first) /\ HeldContent(first) # "good"
        BY <1>1, <3>1 DEF EvalOneDirectory
      <4> QED
        BY <1>3, <2>1, <4>1
    <3>2. CASE ~Held(second)
      <4>1. second = EvalKey
        BY <1>2, <2>1, <2>2, <3>2
      <4>2. evalAt.paper = p /\ evalAt.stage = "baseline2"
        BY <4>1 DEF EvalKey
      <4>3. evalSeen[first] = "other"
        BY <1>1, <4>2 DEF EvalTelling
      <4>4. evalDisk.checkpoints[first] = CheckpointOf(first, "other")
        BY <1>1, <2>1, <4>3 DEF EvalTelling, Told, EvalContents
      <4>5. Held(first) /\ HeldContent(first) = "other"
        BY <4>4, CheckpointsAreHeld DEF Held, HeldContent
      <4> QED
        BY <1>3, <2>1, <4>5
    <3> QED
      BY <3>1, <3>2
  <2>3. ASSUME evalDisk'.files[<<p, "scoring_view">>] # "none"
        PROVE  \E stage \in {"baseline1", "baseline2"} : Held(<<p, stage>>)' /\ HeldContent(<<p, stage>>)' = "good"
    <3>1. PICK stage \in {"baseline1", "baseline2"} : Held(<<p, stage>>) /\ HeldContent(<<p, stage>>) = "good"
      BY <1>1, <1>4, <2>3 DEF EvalOneDirectory
    <3>2. <<p, stage>> \in EvalKeys
      BY <2>1
    <3> QED
      BY <1>3, <3>1, <3>2
  <2>4. ASSUME evalDisk'.files[<<p, "final_note">>] # "none"
        PROVE  Held(<<p, "final">>)' /\ HeldContent(<<p, "final">>)' = "good"
    <3>1. Held(<<p, "final">>) /\ HeldContent(<<p, "final">>) = "good"
      BY <1>1, <1>4, <2>4 DEF EvalOneDirectory
    <3> QED
      BY <1>3, <2>1, <3>1
  <2> QED
    BY <2>2, <2>3, <2>4
<1>7. \A key \in EvalKeys : Held(key)' => evalDisk'.checkpoints[key].id = evalDisk'.identity
  BY <1>5
<1>8. evalRuns' # 0
  BY <1>4
<1> QED
  BY <1>6, <1>7, <1>8 DEF EvalOneDirectory

LEMMA SettlingKeepsExecution ==
  ASSUME EvalInv, NEW content, EvalSettles(content), EvalRecords(content)
  PROVE  EvalOneExecution'
<1> SUFFICES ASSUME OneRun'
             PROVE  EvalOneExecution'
  BY DEF EvalOneExecution
<1>1. OneRun /\ EvalOneDirectory /\ EvalOneExecution /\ EvalShape /\ EvalTelling
  BY DEF OneRun, EvalRecords, EvalInv
<1>2. \A key \in EvalKeys :
        /\ Held(key) => evalDisk'.checkpoints[key] = evalDisk.checkpoints[key]
        /\ Held(key)' /\ ~Held(key) =>
            /\ key = EvalKey /\ content \in EvalContents
            /\ evalDisk'.checkpoints[key] = CheckpointOf(key, content)
  BY <1>1, RecordingKeepsHeld
<1>3. evalRun' = evalRun /\ evalRun # NoRun /\ Told /\ evalPhase' = "ask"
  BY DEF EvalSettles, EvalRecords, Told
<1>4. ASSUME NEW key \in EvalKeys, Held(key)', ~evalRun.resume
      PROVE  Passed(key)'
  <2>1. Held(key) => Passed(key)
    BY <1>1, <1>3, <1>4 DEF EvalOneExecution
  <2> QED
    BY <1>1, <1>2, <1>4, <2>1, SettlingPasses
<1>5. ASSUME NEW key \in EvalKeys, Held(key)', Passed(key)'
      PROVE  evalSeen'[key] = HeldContent(key)'
  <2>1. CASE key = EvalKey
    <3>1. content \in EvalContents /\ evalDisk'.checkpoints[key] = CheckpointOf(key, content)
      BY <1>1, <1>2, <1>5, <2>1 DEF EvalRecords
    <3>2. evalSeen'[key] = content
      BY <1>1, <2>1, SettlingSees
    <3> QED
      BY <3>1, <3>2, CheckpointsAreHeld DEF HeldContent
  <2>2. CASE key # EvalKey
    <3>1. Held(key) /\ evalDisk'.checkpoints[key] = evalDisk.checkpoints[key] /\ evalSeen'[key] = evalSeen[key]
      BY <1>1, <1>2, <1>5, <2>2, SettlingSees
    <3>2. Passed(key)
      <4>1. SUFFICES ASSUME key = <<evalAt.paper, "baseline2">>, evalAt.stage = "baseline1", content = "good"
                     PROVE  FALSE
        BY <1>1, <1>5, <2>2, SettlingPasses
      <4>2. EvalKey = <<evalAt.paper, "baseline1">> /\ evalAt.paper \in 1..Len(EvalPapers)
        BY <1>1, <4>1 DEF EvalKey, EvalShape
      <4>3. Held(EvalKey) /\ HeldContent(EvalKey) # "good"
        BY <1>1, <3>1, <4>1, <4>2 DEF EvalOneDirectory
      <4>4. evalDisk.checkpoints[EvalKey] = CheckpointOf(EvalKey, "good")
        BY <1>1, <4>1, <4>3 DEF EvalRecords
      <4> QED
        BY <4>3, <4>4, CheckpointsAreHeld DEF HeldContent
    <3>3. evalSeen[key] = HeldContent(key)
      BY <1>1, <1>3, <3>1, <3>2 DEF EvalOneExecution
    <3> QED
      BY <3>1, <3>3 DEF HeldContent
  <2> QED
    BY <2>1, <2>2
<1>6. evalRun' # NoRun /\ ~evalRun'.resume => \A key \in EvalKeys : Held(key)' => Passed(key)'
  BY <1>3, <1>4
<1>7. \A key \in EvalKeys : Held(key)' /\ Passed(key)' => evalSeen'[key] = HeldContent(key)'
  BY <1>5
<1> QED
  BY <1>3, <1>6, <1>7 DEF EvalOneExecution

\* The candidates a final note is asked for with are those that are checkpointed.
LEMMA RecordingKeepsPrompts ==
  ASSUME EvalInv, evalRun # NoRun, evalAt.stage \in CallStages, NEW content, EvalRecords(content),
         evalFaults' = {}, NEW p \in 1..Len(EvalPapers), Held(<<p, "final">>)'
  PROVE  /\ Held(<<p, "chunk">>)'
         /\ evalDisk'.checkpoints[<<p, "final">>].prompt = HeldContent(<<p, "chunk">>)'
<1> DEFINE chunk == <<p, "chunk">>
           final == <<p, "final">>
<1>1. chunk \in EvalKeys /\ final \in EvalKeys
  BY DEF EvalKeys, CallStages
<1>2. OneRun /\ evalFaults = {} /\ EvalSamePrompts /\ EvalShape /\ EvalTelling
  BY DEF OneRun, EvalRecords, EvalInv
<1>3. \A key \in EvalKeys :
        /\ Held(key) => evalDisk'.checkpoints[key] = evalDisk.checkpoints[key]
        /\ Held(key)' /\ ~Held(key) =>
            /\ key = EvalKey /\ content \in EvalContents
            /\ evalDisk'.checkpoints[key] = CheckpointOf(key, content)
  BY <1>2, RecordingKeepsHeld
<1>4. Held(chunk) => Held(chunk)' /\ HeldContent(chunk)' = HeldContent(chunk)
  BY <1>1, <1>3 DEF Held, HeldContent
<1>5. CASE Held(final)
  <2>1. Held(chunk) /\ evalDisk.checkpoints[final].prompt = HeldContent(chunk)
    BY <1>2, <1>5 DEF EvalSamePrompts
  <2> QED
    BY <1>1, <1>3, <1>4, <1>5, <2>1
<1>6. CASE ~Held(final)
  <2>1. final = EvalKey /\ evalDisk'.checkpoints[final] = CheckpointOf(final, content)
    BY <1>1, <1>3, <1>6
  <2>2. evalAt.paper = p /\ evalAt.stage = "final"
    BY <2>1 DEF EvalKey
  <2>3. Passed(chunk)
    BY <2>2, RankOf, EvalPapersCount DEF Passed
  <2>4. evalSeen[chunk] \in EvalContents
    BY <1>2, <2>3 DEF EvalSamePrompts
  <2>5. evalDisk.checkpoints[chunk] = CheckpointOf(chunk, evalSeen[chunk])
    BY <1>1, <1>2, <2>4 DEF EvalTelling, Told
  <2>6. Held(chunk) /\ HeldContent(chunk) = evalSeen[chunk]
    BY <2>5, CheckpointsAreHeld DEF Held, HeldContent
  <2>7. EvalPrompt(final) = evalSeen[chunk]
    BY <2>4 DEF EvalPrompt
  <2> QED
    BY <1>4, <2>1, <2>6, <2>7, CheckpointsAreHeld
<1> QED
  BY <1>5, <1>6

LEMMA SettlingKeepsCandidates ==
  ASSUME EvalInv, NEW content, EvalSettles(content), EvalRecords(content), evalFaults' = {},
         NEW p \in 1..Len(EvalPapers), Passed(<<p, "chunk">>)'
  PROVE  evalSeen'[<<p, "chunk">>] \in EvalContents
<1> DEFINE chunk == <<p, "chunk">>
<1>1. chunk \in EvalKeys /\ EvalShape /\ evalFaults = {} /\ evalRun # NoRun
  BY DEF EvalKeys, CallStages, EvalInv, EvalRecords, EvalSettles
<1>2. CASE chunk = EvalKey
  <2>1. evalAt.stage = "chunk"
    BY <1>2 DEF EvalKey
  <2> QED
    BY <1>1, <1>2, <2>1, SettlingSees DEF EvalRecords
<1>3. CASE chunk # EvalKey
  <2>1. chunk # <<evalAt.paper, "baseline2">>
    OBVIOUS
  <2>2. Passed(chunk)
    BY <1>1, <1>3, <2>1, SettlingPasses
  <2>3. evalSeen[chunk] \in EvalContents
    BY <1>1, <2>2 DEF EvalInv, EvalSamePrompts
  <2> QED
    BY <1>1, <1>3, <2>3, SettlingSees
<1> QED
  BY <1>2, <1>3

---------------------------------------------------------------------------
(* The steps of an execution *)

\* All of the invariant but its types and the responses stored.
EvalRest ==
    /\ EvalTelling /\ EvalWritten /\ EvalOneDirectory /\ EvalOneExecution /\ EvalSamePrompts
    /\ evalEnded = "mismatch" => evalFaults # {}

LEMMA SettlingKeepsRest ==
  ASSUME EvalInv, NEW content, EvalSettles(content), EvalRecords(content)
  PROVE  EvalRest'
<1>1. EvalShape /\ EvalTelling /\ EvalWritten /\ evalRun # NoRun /\ evalAt.stage \in CallStages
  BY DEF EvalInv, EvalSettles
<1>2. EvalTelling' /\ EvalWritten'
  BY <1>1, SettlingTells, SettlingKeepsFiles
<1>3. EvalOneDirectory' /\ EvalOneExecution'
  BY <1>1, RecordingKeepsDirectory, SettlingKeepsExecution
<1>4. EvalSamePrompts'
  BY <1>1, RecordingKeepsPrompts, SettlingKeepsCandidates DEF EvalSamePrompts
<1>5. evalEnded' # "mismatch"
  BY <1>1 DEF EvalSettles, EvalShape
<1> QED
  BY <1>2, <1>3, <1>4, <1>5 DEF EvalRest

\* An execution that stops before its report leaves the directory for another.
LEMMA StoppingKeepsRest ==
  ASSUME EvalInv, evalRun' = NoRun, evalPhase' = "ask", evalEnded' # "report",
         evalEnded' = "mismatch" => evalFaults' # {},
         \/ UNCHANGED <<evalDisk, evalFaults>> /\ (evalRuns' = evalRuns \/ evalRuns' = evalRuns + 1)
         \/ /\ evalRun # NoRun /\ evalAt.stage \in CallStages
            /\ \E content : EvalRecords(content)
  PROVE  EvalRest'
<1>1. ~Told'
  BY DEF Told
<1>2. EvalTelling' /\ EvalWritten' /\ EvalOneExecution'
  BY <1>1 DEF EvalTelling, EvalWritten, EvalOneExecution, Told
<1>3. CASE UNCHANGED <<evalDisk, evalFaults>> /\ (evalRuns' = evalRuns \/ evalRuns' = evalRuns + 1)
  <2>1. EvalOneDirectory /\ EvalSamePrompts /\ evalRuns \in Nat
    BY DEF EvalInv, EvalShape
  <2>2. evalDisk' = evalDisk /\ evalFaults' = evalFaults /\ (evalRuns' = 0 => evalRuns = 0)
    BY <1>3, <2>1
  <2>3. \A key : (Held(key)' <=> Held(key)) /\ HeldContent(key)' = HeldContent(key)
    BY <2>2 DEF Held, HeldContent
  <2>4. EvalOneDirectory'
    BY <2>1, <2>2, <2>3 DEF EvalOneDirectory, OneRun
  <2>5. EvalSamePrompts'
    BY <2>1, <2>2, <2>3 DEF EvalSamePrompts
  <2> QED
    BY <1>2, <2>4, <2>5 DEF EvalRest
<1>4. ASSUME evalRun # NoRun, evalAt.stage \in CallStages, NEW content, EvalRecords(content)
      PROVE  EvalRest'
  <2>1. EvalOneDirectory'
    BY <1>4, RecordingKeepsDirectory
  <2>2. EvalSamePrompts'
    BY <1>4, RecordingKeepsPrompts DEF EvalSamePrompts
  <2> QED
    BY <1>2, <2>1, <2>2 DEF EvalRest
<1> QED
  BY <1>3, <1>4

\* Taking a response, or the failure of a chunk, settles the key or ends the execution.
LEMMA TakingKeepsRest ==
  ASSUME EvalInv, evalRun # NoRun, evalAt.stage \in CallStages, NEW content, Takes(content),
         content \in EvalContents \/ (content = "failed" /\ evalAt.stage = "chunk"),
         EvalRecords(content)
  PROVE  EvalRest'
<1>1. CASE evalAt.stage = "final" /\ content # "good"
  <2>1. evalRun' = NoRun /\ evalEnded' = "invalid_note"
    BY <1>1 DEF Takes
  <2>2. evalPhase' = "ask"
    BY DEF EvalRecords
  <2> QED
    BY <2>1, <2>2, StoppingKeepsRest
<1>2. CASE ~(evalAt.stage = "final" /\ content # "good")
  <2>1. /\ evalSeen' = [evalSeen EXCEPT ![EvalKey] = content]
        /\ evalAt' = NextStage(content) /\ evalRun' = evalRun /\ evalEnded' = evalEnded
    BY <1>2 DEF Takes
  <2>2. \E stage \in EvalStages :
            evalAt' = [evalAt EXCEPT !.stage = stage] /\ <<evalAt.stage, content, stage>> \in EvalMoves
    <3>1. CASE evalAt.stage = "baseline1" /\ content = "good"
      BY <2>1, <3>1 DEF NextStage, At, EvalMoves, EvalStages
    <3>2. CASE evalAt.stage = "baseline1" /\ content = "other"
      BY <2>1, <3>2 DEF NextStage, At, EvalMoves, EvalStages, CallStages
    <3>3. CASE evalAt.stage = "baseline2" /\ content = "good"
      BY <2>1, <3>3 DEF NextStage, At, EvalMoves, EvalStages
    <3>4. CASE evalAt.stage = "baseline2" /\ content = "other"
      BY <2>1, <3>4 DEF NextStage, At, EvalMoves, EvalStages
    <3>5. CASE evalAt.stage = "chunk"
      BY <2>1, <3>5 DEF NextStage, At, EvalMoves, EvalStages, CallStages, EvalContents
    <3>6. CASE evalAt.stage = "final" /\ content = "good"
      BY <2>1, <3>6 DEF NextStage, At, EvalMoves, EvalStages
    <3> QED
      BY <1>2, <3>1, <3>2, <3>3, <3>4, <3>5, <3>6 DEF CallStages, EvalContents
  <2>3. EvalSettles(content)
    BY <2>1, <2>2 DEF EvalSettles
  <2> QED
    BY <2>3, SettlingKeepsRest
<1> QED
  BY <1>1, <1>2

LEMMA TakingKeepsShape ==
  ASSUME EvalShape, evalRun # NoRun, evalAt.stage \in CallStages, NEW content, Takes(content),
         content \in EvalContents \/ (content = "failed" /\ evalAt.stage = "chunk")
  PROVE  /\ evalAt' \in [paper : 1..Len(EvalPapers), stage : EvalStages]
         /\ evalAt'.stage \notin {"run_manifest", "call_metrics"}
         /\ evalSeen' \in [EvalKeys -> EvalContents \cup {"none", "failed"}]
         /\ evalRun' # NoRun => evalRun' = evalRun /\ evalEnded' = evalEnded
         /\ evalEnded' # "report"
<1>1. evalAt \in [paper : 1..Len(EvalPapers), stage : EvalStages] /\ EvalKey \in EvalKeys /\ evalEnded = "none"
  BY EvalKeyIsAKey DEF EvalShape
<1>2. evalSeen' \in [EvalKeys -> EvalContents \cup {"none", "failed"}]
  BY <1>1 DEF Takes, EvalShape
<1>3. CASE evalAt.stage = "final" /\ content # "good"
  BY <1>1, <1>2, <1>3 DEF Takes, CallStages
<1>4. CASE ~(evalAt.stage = "final" /\ content # "good")
  <2>1. evalAt' = NextStage(content) /\ evalRun' = evalRun /\ evalEnded' = evalEnded
    BY <1>4 DEF Takes
  <2>2. \E stage \in {"baseline2", "scoring_view", "baseline", "final", "final_note"} :
            NextStage(content) = At(stage)
    <3>1. CASE evalAt.stage = "baseline1" /\ content = "good"
      BY <3>1 DEF NextStage
    <3>2. CASE evalAt.stage = "baseline1" /\ content = "other"
      BY <3>2 DEF NextStage
    <3>3. CASE evalAt.stage = "baseline2" /\ content = "good"
      BY <3>3 DEF NextStage
    <3>4. CASE evalAt.stage = "baseline2" /\ content = "other"
      BY <3>4 DEF NextStage
    <3>5. CASE evalAt.stage = "chunk"
      BY <3>5 DEF NextStage
    <3>6. CASE evalAt.stage = "final" /\ content = "good"
      BY <3>6 DEF NextStage
    <3> QED
      BY <1>4, <3>1, <3>2, <3>3, <3>4, <3>5, <3>6 DEF CallStages, EvalContents
  <2>3. PICK stage \in {"baseline2", "scoring_view", "baseline", "final", "final_note"} :
            NextStage(content) = At(stage)
    BY <2>2
  <2>4. evalAt' = [evalAt EXCEPT !.stage = stage] /\ stage \in EvalStages
    BY <2>1, <2>3 DEF At, EvalStages, CallStages
  <2>5. evalAt' \in [paper : 1..Len(EvalPapers), stage : EvalStages] /\ evalAt'.stage = stage
    BY <1>1, <2>4
  <2> QED
    BY <1>1, <1>2, <2>1, <2>5
<1> QED
  BY <1>3, <1>4

\* Where one run used the directory, what is checkpointed fits, unless a chunk failed.
LEMMA CheckpointsFit ==
  ASSUME EvalInv, Asking, Checkpointed, OneRun, evalAt.stage # "final" \/ evalFaults = {}
  PROVE  Fits
<1> DEFINE checkpoint == evalDisk.checkpoints[EvalKey]
<1>1. EvalShape /\ EvalStored /\ EvalOneDirectory /\ EvalOneExecution /\ EvalSamePrompts /\ evalRun # NoRun
      /\ evalAt.stage \in CallStages
  BY DEF EvalInv, Asking
<1>2. EvalKey \in EvalKeys /\ EvalKey[2] = evalAt.stage /\ EvalKey = <<evalAt.paper, evalAt.stage>>
  BY <1>1, EvalKeyIsAKey DEF EvalKey
<1>3. Held(EvalKey)
  BY DEF Checkpointed, Held
<1>4. checkpoint.id = evalRun.id
  BY <1>1, <1>2, <1>3 DEF EvalOneDirectory, EvalShape
<1>5. <<EvalKey, checkpoint.content>> \in evalDisk.responses
  BY <1>1, <1>2, <1>3 DEF EvalStored, HeldContent
<1>6. CASE evalAt.stage # "final"
  <2>1. checkpoint.prompt = "fixed" /\ EvalPrompt(EvalKey) = "fixed"
    BY <1>1, <1>2, <1>3, <1>6 DEF EvalStored, EvalPrompt
  <2> QED
    BY <1>4, <1>5, <2>1 DEF Fits
<1>7. CASE evalAt.stage = "final" /\ evalFaults = {}
  <2> DEFINE p == evalAt.paper
             chunk == <<p, "chunk">>
  <2>1. p \in 1..Len(EvalPapers) /\ chunk \in EvalKeys /\ chunk[1] = p /\ chunk[2] = "chunk" /\ EvalKey = <<p, "final">>
    BY <1>1, <1>2, <1>7 DEF EvalShape, EvalKeys, CallStages
  <2>2. Passed(chunk)
    BY <1>7, <2>1, RankOf, EvalPapersCount DEF Passed
  <2>3. evalSeen[chunk] \in EvalContents
    BY <1>1, <1>7, <2>1, <2>2 DEF EvalSamePrompts
  <2>4. Held(chunk) /\ checkpoint.prompt = HeldContent(chunk)
    BY <1>1, <1>3, <1>7, <2>1 DEF EvalSamePrompts
  <2>5. evalSeen[chunk] = HeldContent(chunk)
    BY <1>1, <2>1, <2>2, <2>4 DEF EvalOneExecution, Told
  <2>6. EvalPrompt(EvalKey) = evalSeen[chunk]
    BY <1>2, <1>7, <2>1, <2>3 DEF EvalPrompt
  <2> QED
    BY <1>4, <1>5, <2>4, <2>5, <2>6 DEF Fits
<1> QED
  BY <1>6, <1>7

\* A failure is that of a chunk, leaves a paper without its note, or ends the execution.
LEMMA FailingKeepsInv ==
  ASSUME EvalInv, Asking, NEW how \in {"mismatch", "limit", "llm_error", "other_error"}, Fails(how),
         UNCHANGED <<evalPhase, evalAnswer, evalDisk, evalRuns>>, evalCalls' \in 0..MaxCalls,
         evalAt.stage = "chunk" \/ how = "other_error" => (OneRun => ~Held(EvalKey)),
         how = "mismatch" /\ evalAt.stage # "chunk" => evalFaults # {}
  PROVE  EvalInv'
<1>1. EvalShape /\ EvalStored /\ evalRun # NoRun /\ evalAt.stage \in CallStages /\ evalPhase = "ask"
      /\ evalEnded = "none"
  BY DEF EvalInv, EvalShape, Asking
<1>2. EvalStored'
  BY <1>1 DEF EvalStored, Held, HeldContent
<1>3. /\ evalPhase' = "ask" /\ evalDisk' = evalDisk /\ evalRuns' = evalRuns
  BY <1>1
<1>4. CASE evalAt.stage = "chunk"
  <2>1. Takes("failed") /\ evalFaults' = evalFaults \cup {"chunk_failed"}
    BY <1>4 DEF Fails
  <2>2. EvalRecords("failed")
    BY <1>3, <1>4, <2>1 DEF EvalRecords, EvalContents
  <2>3. EvalRest'
    BY <1>1, <1>4, <2>1, <2>2, TakingKeepsRest
  <2>4. EvalShape'
    BY <1>1, <1>3, <1>4, <2>1, TakingKeepsShape DEF EvalShape
  <2> QED
    BY <1>2, <2>3, <2>4 DEF EvalRest, EvalInv
<1>5. CASE evalAt.stage = "final" /\ how = "other_error"
  <2>1. /\ evalSeen' = [evalSeen EXCEPT ![EvalKey] = "failed"] /\ evalAt' = [evalAt EXCEPT !.stage = "proposed"]
        /\ evalRun' = evalRun /\ evalEnded' = evalEnded /\ evalFaults' = evalFaults
    BY <1>5 DEF Fails, At
  <2>2. "proposed" \in EvalStages /\ <<evalAt.stage, "failed", "proposed">> \in EvalMoves
    BY <1>5 DEF EvalStages, EvalMoves
  <2>3. EvalSettles("failed")
    BY <1>1, <2>1, <2>2 DEF EvalSettles
  <2>4. EvalRecords("failed")
    BY <1>3, <1>5, <2>1 DEF EvalRecords, EvalContents
  <2>5. EvalRest'
    BY <2>3, <2>4, SettlingKeepsRest
  <2>6. EvalKey \in EvalKeys
    BY <1>1, EvalKeyIsAKey
  <2>7. EvalShape'
    <3>1. evalAt' \in [paper : 1..Len(EvalPapers), stage : EvalStages] /\ evalAt'.stage = "proposed"
      BY <1>1, <2>1, <2>2 DEF EvalShape
    <3>2. evalSeen' \in [EvalKeys -> EvalContents \cup {"none", "failed"}]
      BY <1>1, <2>1 DEF EvalShape
    <3> QED
      BY <1>1, <1>3, <2>1, <3>1, <3>2 DEF EvalShape
  <2> QED
    BY <1>2, <2>5, <2>7 DEF EvalRest, EvalInv
<1>6. CASE evalAt.stage # "chunk" /\ ~(evalAt.stage = "final" /\ how = "other_error")
  <2>1. /\ evalRun' = NoRun /\ evalEnded' = how /\ evalFaults' = evalFaults
        /\ evalAt' = evalAt /\ evalSeen' = evalSeen
    BY <1>6 DEF Fails, EvalStops
  <2>2. EvalRest'
    BY <1>3, <1>6, <2>1, StoppingKeepsRest
  <2>3. EvalShape'
    BY <1>1, <1>3, <2>1 DEF EvalShape
  <2> QED
    BY <1>2, <2>2, <2>3 DEF EvalRest, EvalInv
<1> QED
  BY <1>4, <1>5, <1>6

\* Nothing is checkpointed for a key that is called for, where one run used the directory.
LEMMA CalledIsNotHeld ==
  ASSUME EvalInv, Asking, ~Checkpointed, OneRun
  PROVE  ~Held(EvalKey)
<1>1. EvalShape /\ EvalOneExecution /\ evalRun # NoRun /\ evalAt.stage \in CallStages
  BY DEF EvalInv, Asking
<1>2. EvalKey \in EvalKeys /\ ~Passed(EvalKey)
  BY <1>1, EvalKeyIsAKey
<1>3. CASE evalRun.resume
  BY <1>3 DEF Checkpointed, Held
<1>4. CASE ~evalRun.resume
  BY <1>1, <1>2, <1>4 DEF EvalOneExecution
<1> QED
  BY <1>3, <1>4

LEMMA EvalRefusedKeepsInv ==
  ASSUME EvalInv, EvalRefused
  PROVE  EvalInv'
<1>1. /\ evalRun = NoRun /\ evalRun' = evalRun /\ evalRuns' = evalRuns + 1 /\ evalEnded' = "refused"
      /\ UNCHANGED <<evalAt, evalPhase, evalAnswer, evalCalls, evalSeen, evalDisk, evalFaults>>
  BY DEF EvalRefused
<1>2. EvalShape'
  BY <1>1 DEF EvalInv, EvalShape
<1>3. EvalStored'
  BY <1>1 DEF EvalInv, EvalStored, EvalKey, Held, HeldContent
<1>4. EvalOneDirectory' /\ EvalSamePrompts'
  <2>1. \A key : (Held(key)' <=> Held(key)) /\ HeldContent(key)' = HeldContent(key)
    BY <1>1 DEF Held, HeldContent
  <2>2. evalRuns' = 0 => evalRuns = 0
    BY <1>1 DEF EvalInv, EvalShape
  <2>3. EvalOneDirectory'
    BY <1>1, <2>1, <2>2 DEF EvalInv, EvalOneDirectory, OneRun
  <2>4. EvalSamePrompts'
    BY <1>1, <2>1 DEF EvalInv, EvalSamePrompts
  <2> QED
    BY <2>3, <2>4
<1>5. EvalTelling' /\ EvalWritten'
  BY <1>1 DEF EvalTelling, EvalWritten, Told
<1>6. EvalOneExecution'
  <2>1. evalPhase' # "ask" => evalPhase # "ask" /\ (OneRun => ~Held(EvalKey))
    BY <1>1 DEF EvalInv, EvalOneExecution
  <2>2. (OneRun' <=> OneRun) /\ (Held(EvalKey)' <=> Held(EvalKey))
    BY <1>1 DEF OneRun, Held, EvalKey
  <2>3. ~Told'
    BY <1>1 DEF Told
  <2> QED
    BY <1>1, <2>1, <2>2, <2>3 DEF EvalOneExecution
<1> QED
  BY <1>1, <1>2, <1>3, <1>4, <1>5, <1>6 DEF EvalInv

LEMMA EvalBeginsKeepsInv ==
  ASSUME EvalInv, EvalBegins
  PROVE  EvalInv'
<1>1. PICK id \in EvalIdentities, resume \in BOOLEAN :
        /\ Admits([id |-> id, resume |-> resume], TRUE)
        /\ evalRun' = [id |-> id, resume |-> resume]
        /\ evalDisk' = [evalDisk EXCEPT !.identity = id]
        /\ evalFaults' = IF ~resume /\ evalRuns > 0 THEN evalFaults \cup {"begun_again"} ELSE evalFaults
  BY DEF EvalBegins
<1>2. /\ evalAt' = [paper |-> 1, stage |-> "baseline1"] /\ evalPhase' = "ask" /\ evalCalls' = 0
      /\ evalSeen' = [key \in EvalKeys |-> "none"] /\ evalRuns' = evalRuns + 1 /\ evalEnded' = "none"
  BY DEF EvalBegins
<1>3. EvalShape /\ EvalStored /\ EvalOneDirectory /\ EvalSamePrompts
  BY DEF EvalInv
<1>4. /\ evalDisk'.identity = id /\ evalDisk'.responses = evalDisk.responses
      /\ evalDisk'.checkpoints = evalDisk.checkpoints /\ evalDisk'.files = evalDisk.files
  BY <1>1, <1>3 DEF EvalShape
<1>5. \A key : (Held(key)' <=> Held(key)) /\ HeldContent(key)' = HeldContent(key)
  BY <1>4 DEF Held, HeldContent
<1>6. \A key \in EvalKeys : ~Passed(key)'
  <2> TAKE key \in EvalKeys
  <2>1. key[1] >= 1 /\ key[1] \in Int /\ key[2] \in CallStages
    BY KeysArePairs, EvalPapersCount
  <2>2. Rank(key[2]) >= 1 /\ Rank(key[2]) \in Int
    BY <2>1, RankOf DEF CallStages
  <2> QED
    BY <1>2, <2>1, <2>2, RankOf DEF Passed
<1>7. \A file \in EvalMetrics \cup EvalNotes : ~Passed(file)'
  <2> TAKE file \in EvalMetrics \cup EvalNotes
  <2>1. file[1] >= 1 /\ file[1] \in Int /\ file[2] \in {"baseline", "proposed", "scoring_view", "final_note"}
    BY KeysArePairs, EvalPapersCount
  <2>2. Rank(file[2]) >= 1 /\ Rank(file[2]) \in Int
    BY <2>1, RankOf
  <2> QED
    BY <1>2, <2>1, <2>2, RankOf DEF Passed
<1>8. EvalShape'
  <2>1. evalAt' \in [paper : 1..Len(EvalPapers), stage : EvalStages] /\ evalAt'.stage = "baseline1"
    <3>1. 1 \in 1..Len(EvalPapers)
      BY EvalPapersCount
    <3> QED
      BY <1>2, <3>1 DEF EvalStages, CallStages
  <2>2. evalSeen' \in [EvalKeys -> EvalContents \cup {"none", "failed"}]
    BY <1>2
  <2>3. evalDisk' \in [identity : EvalIds, responses : SUBSET (EvalKeys \X EvalContents),
                       checkpoints : [EvalKeys -> {NoCheckpoint} \cup EvalCheckpoint],
                       files : [EvalFiles -> EvalIds]]
    BY <1>1, <1>3 DEF EvalShape, EvalIds
  <2>4. evalRun'.id = evalDisk'.identity
    BY <1>1, <1>4
  <2>5. evalCalls' \in 0..MaxCalls /\ evalRuns' \in Nat /\ evalRuns' > 0
    BY <1>2, <1>3, EvaluationConstants DEF EvalShape
  <2> QED
    BY <1>2, <2>1, <2>2, <2>3, <2>4, <2>5 DEF EvalShape
<1>9. EvalStored'
  BY <1>2, <1>3, <1>4, <1>5 DEF EvalStored
<1>10. EvalTelling'
  BY <1>2 DEF EvalTelling, EvalContents
<1>11. EvalWritten'
  BY <1>2, <1>7 DEF EvalWritten
<1>12. ASSUME OneRun'
       PROVE  OneRun /\ (~resume => evalRuns = 0) /\ (resume => evalDisk.identity = id)
  <2>1. ~(~resume /\ evalRuns > 0)
    BY <1>1, <1>12 DEF OneRun
  <2>2. evalRuns \in Nat
    BY <1>3 DEF EvalShape
  <2>3. resume => evalDisk.identity = id
    BY <1>1 DEF Admits
  <2> QED
    BY <1>1, <1>12, <2>1, <2>2, <2>3 DEF OneRun
<1>13. EvalOneDirectory'
  <2> SUFFICES ASSUME OneRun'
               PROVE  EvalOneDirectory'
    BY DEF EvalOneDirectory
  <2>1. \A key \in EvalKeys : Held(key)' => evalDisk'.checkpoints[key].id = evalDisk'.identity
    <3>1. CASE resume
      BY <1>3, <1>4, <1>5, <1>12, <3>1 DEF EvalOneDirectory
    <3>2. CASE ~resume
      BY <1>3, <1>5, <1>12, <3>2 DEF EvalOneDirectory
    <3> QED
      BY <3>1, <3>2
  <2>2. evalRuns' # 0
    BY <1>2, <1>3 DEF EvalShape
  <2> QED
    BY <1>3, <1>4, <1>5, <1>12, <2>1, <2>2 DEF EvalOneDirectory
<1>14. EvalOneExecution'
  <2> SUFFICES ASSUME OneRun'
               PROVE  EvalOneExecution'
    BY DEF EvalOneExecution
  <2>1. ~resume => \A key \in EvalKeys : ~Held(key)'
    BY <1>3, <1>5, <1>12 DEF EvalOneDirectory
  <2> QED
    BY <1>1, <1>2, <1>6, <2>1 DEF EvalOneExecution
<1>15. EvalSamePrompts'
  <2> SUFFICES ASSUME evalFaults' = {}
               PROVE  EvalSamePrompts'
    BY DEF EvalSamePrompts
  <2>1. evalFaults = {}
    BY <1>1
  <2>2. \A p \in 1..Len(EvalPapers) : ~Passed(<<p, "chunk">>)'
    BY <1>6 DEF EvalKeys, CallStages
  <2> QED
    BY <1>3, <1>4, <1>5, <2>1, <2>2 DEF EvalSamePrompts
<1> QED
  BY <1>2, <1>8, <1>9, <1>10, <1>11, <1>13, <1>14, <1>15 DEF EvalInv

LEMMA EvalResumesKeepsInv ==
  ASSUME EvalInv, EvalResumes
  PROVE  EvalInv'
<1> DEFINE content == evalDisk.checkpoints[EvalKey].content
<1>1. /\ EvalShape /\ EvalStored /\ evalRun # NoRun /\ evalAt.stage \in CallStages /\ evalPhase = "ask"
      /\ Fits /\ Takes(content) /\ Held(EvalKey)
      /\ UNCHANGED <<evalPhase, evalAnswer, evalCalls, evalDisk, evalRuns, evalFaults>>
  BY DEF EvalInv, EvalResumes, Asking, Checkpointed, Held
<1>2. EvalKey \in EvalKeys
  BY <1>1, EvalKeyIsAKey
<1>3. evalDisk.checkpoints[EvalKey] \in EvalCheckpoint
  BY <1>1, <1>2 DEF EvalShape, Held
<1>4. content \in EvalContents
  BY <1>3 DEF EvalCheckpoint
<1>5. evalDisk.checkpoints[EvalKey] = CheckpointOf(EvalKey, content)
  <2>1. evalDisk.checkpoints[EvalKey].id = evalDisk.identity
        /\ evalDisk.checkpoints[EvalKey].prompt = EvalPrompt(EvalKey)
    BY <1>1 DEF Fits, EvalShape
  <2> QED
    BY <1>3, <2>1 DEF EvalCheckpoint, CheckpointOf
<1>6. EvalRecords(content)
  <2> HIDE DEF content
  <2>1. \A key \in EvalKeys :
          evalDisk'.checkpoints[key] =
            IF key = EvalKey /\ content \in EvalContents THEN CheckpointOf(key, content)
            ELSE evalDisk.checkpoints[key]
    BY <1>1, <1>4, <1>5
  <2> QED
    BY <1>1, <1>4, <1>5, <2>1 DEF EvalRecords
<1> HIDE DEF content
<1>7. EvalRest'
  BY <1>1, <1>4, <1>6, TakingKeepsRest
<1>8. EvalShape'
  BY <1>1, <1>4, TakingKeepsShape DEF EvalShape
<1>9. EvalStored'
  BY <1>1 DEF EvalStored, Held, HeldContent
<1> QED
  BY <1>7, <1>8, <1>9 DEF EvalRest, EvalInv

LEMMA EvalMismatchKeepsInv ==
  ASSUME EvalInv, EvalMismatch
  PROVE  EvalInv'
<1>1. /\ Asking /\ Checkpointed /\ ~Fits /\ Fails("mismatch")
      /\ UNCHANGED <<evalPhase, evalAnswer, evalDisk, evalRuns>> /\ evalCalls' = evalCalls
  BY DEF EvalMismatch
<1>2. evalCalls' \in 0..MaxCalls
  BY <1>1 DEF EvalInv, EvalShape
<1>3. ~(OneRun /\ (evalAt.stage # "final" \/ evalFaults = {}))
  BY <1>1, CheckpointsFit
<1>4. evalFaults = {} => OneRun
  BY DEF OneRun
<1>5. "mismatch" \in {"mismatch", "limit", "llm_error", "other_error"} /\ "mismatch" # "other_error"
  OBVIOUS
<1>6. evalAt.stage = "chunk" \/ "mismatch" = "other_error" => (OneRun => ~Held(EvalKey))
  BY <1>3, <1>5
<1>7. "mismatch" = "mismatch" /\ evalAt.stage # "chunk" => evalFaults # {}
  BY <1>3, <1>4
<1> QED
  BY <1>1, <1>2, <1>5, <1>6, <1>7, FailingKeepsInv

LEMMA EvalAtLimitKeepsInv ==
  ASSUME EvalInv, EvalAtLimit
  PROVE  EvalInv'
<1>1. /\ Asking /\ ~Checkpointed /\ Fails("limit")
      /\ UNCHANGED <<evalPhase, evalAnswer, evalDisk, evalRuns>> /\ evalCalls' = evalCalls
  BY DEF EvalAtLimit
<1>2. evalCalls' \in 0..MaxCalls
  BY <1>1 DEF EvalInv, EvalShape
<1>3. OneRun => ~Held(EvalKey)
  BY <1>1, CalledIsNotHeld
<1>4. "limit" \in {"mismatch", "limit", "llm_error", "other_error"} /\ "limit" # "mismatch"
  OBVIOUS
<1> QED
  BY <1>1, <1>2, <1>3, <1>4, FailingKeepsInv

LEMMA OneMoreCall ==
  ASSUME EvalInv, MayCall, evalCalls' = evalCalls + 1
  PROVE  evalCalls' \in 0..MaxCalls
BY EvaluationConstants DEF EvalInv, EvalShape, MayCall

LEMMA EvalCallRaisesKeepsInv ==
  ASSUME EvalInv, EvalCallRaises
  PROVE  EvalInv'
<1>1. PICK how \in {"llm_error", "other_error"} : Fails(how)
  BY DEF EvalCallRaises
<1>2. /\ Asking /\ ~Checkpointed /\ MayCall /\ evalCalls' = evalCalls + 1
      /\ UNCHANGED <<evalPhase, evalAnswer, evalDisk, evalRuns>>
  BY DEF EvalCallRaises
<1>3. evalCalls' \in 0..MaxCalls
  BY <1>2, OneMoreCall
<1>4. OneRun => ~Held(EvalKey)
  BY <1>2, CalledIsNotHeld
<1>5. how \in {"mismatch", "limit", "llm_error", "other_error"} /\ how # "mismatch"
  BY <1>1
<1> QED
  BY <1>1, <1>2, <1>3, <1>4, <1>5, FailingKeepsInv

\* A step that leaves the place of the execution, what it has and the files alone.
LEMMA StayingKeepsRest ==
  ASSUME EvalInv, UNCHANGED <<evalRun, evalAt, evalSeen, evalEnded, evalRuns, evalFaults>>,
         evalDisk'.identity = evalDisk.identity, evalDisk'.checkpoints = evalDisk.checkpoints,
         evalDisk'.files = evalDisk.files,
         evalPhase' # "ask" => (OneRun => ~Held(EvalKey))
  PROVE  EvalRest'
<1>1. \A key : /\ (Held(key)' <=> Held(key)) /\ HeldContent(key)' = HeldContent(key)
               /\ (Passed(key)' <=> Passed(key)) /\ (Scored(key)' <=> Scored(key))
               /\ EvalPrompt(key)' = EvalPrompt(key)
  BY DEF Held, HeldContent, Passed, Scored, EvalPrompt
<1>2. /\ Told' <=> Told
      /\ OneRun' <=> OneRun
      /\ \A key, content : CheckpointOf(key, content)' = CheckpointOf(key, content)
      /\ EvalKey' = EvalKey
  BY <1>1 DEF Told, OneRun, CheckpointOf, EvalKey
<1>3. EvalTelling'
  BY <1>1, <1>2 DEF EvalInv, EvalTelling
<1>4. EvalWritten'
  BY <1>1, <1>2 DEF EvalInv, EvalWritten
<1>5. EvalOneDirectory'
  BY <1>1, <1>2 DEF EvalInv, EvalOneDirectory
<1>6. EvalOneExecution'
  BY <1>1, <1>2 DEF EvalInv, EvalOneExecution
<1>7. EvalSamePrompts'
  BY <1>1, <1>2 DEF EvalInv, EvalSamePrompts
<1>8. evalEnded' = "mismatch" => evalFaults' # {}
  BY DEF EvalInv
<1> QED
  BY <1>3, <1>4, <1>5, <1>6, <1>7, <1>8 DEF EvalRest

LEMMA EvalCallKeepsInv ==
  ASSUME EvalInv, EvalCall
  PROVE  EvalInv'
<1>1. /\ Asking /\ ~Checkpointed /\ MayCall /\ evalCalls' = evalCalls + 1
      /\ evalAnswer' \in EvalContents /\ evalPhase' = "store"
      /\ UNCHANGED <<evalRun, evalAt, evalSeen, evalDisk, evalEnded, evalRuns, evalFaults>>
  BY DEF EvalCall
<1>2. evalCalls' \in 0..MaxCalls /\ (OneRun => ~Held(EvalKey))
  BY <1>1, OneMoreCall, CalledIsNotHeld
<1>3. EvalRest'
  BY <1>1, <1>2, StayingKeepsRest
<1>4. EvalShape'
  BY <1>1, <1>2 DEF EvalInv, EvalShape, Asking
<1>5. EvalStored'
  BY <1>1 DEF EvalInv, EvalStored, Held, HeldContent
<1> QED
  BY <1>3, <1>4, <1>5 DEF EvalRest, EvalInv

LEMMA EvalStoresKeepsInv ==
  ASSUME EvalInv, EvalStores
  PROVE  EvalInv'
<1>1. /\ evalPhase = "store" /\ evalPhase' = "checkpoint"
      /\ evalDisk' = [evalDisk EXCEPT !.responses = @ \cup {<<EvalKey, evalAnswer>>}]
      /\ UNCHANGED <<evalRun, evalAt, evalAnswer, evalCalls, evalSeen, evalEnded, evalRuns, evalFaults>>
  BY DEF EvalStores
<1>2. EvalShape /\ EvalStored /\ EvalOneExecution /\ evalAt.stage \in CallStages /\ evalAnswer \in EvalContents
  BY <1>1 DEF EvalInv, EvalShape
<1>3. EvalKey \in EvalKeys
  BY <1>2, EvalKeyIsAKey
<1>4. /\ evalDisk'.identity = evalDisk.identity /\ evalDisk'.checkpoints = evalDisk.checkpoints
      /\ evalDisk'.files = evalDisk.files
      /\ evalDisk'.responses = evalDisk.responses \cup {<<EvalKey, evalAnswer>>}
  BY <1>1, <1>2 DEF EvalShape
<1>5. EvalRest'
  <2>1. OneRun => ~Held(EvalKey)
    BY <1>1, <1>2 DEF EvalOneExecution
  <2> QED
    BY <1>1, <1>4, <2>1, StayingKeepsRest
<1>6. EvalShape'
  <2>1. evalDisk' \in [identity : EvalIds, responses : SUBSET (EvalKeys \X EvalContents),
                       checkpoints : [EvalKeys -> {NoCheckpoint} \cup EvalCheckpoint],
                       files : [EvalFiles -> EvalIds]]
    <3>1. <<EvalKey, evalAnswer>> \in EvalKeys \X EvalContents
      BY <1>2, <1>3
    <3> QED
      BY <1>1, <1>2, <3>1 DEF EvalShape
  <2> QED
    BY <1>1, <1>2, <1>4, <2>1 DEF EvalShape
<1>7. EvalStored'
  <2>1. \A key : (Held(key)' <=> Held(key)) /\ HeldContent(key)' = HeldContent(key)
    BY <1>4 DEF Held, HeldContent
  <2>2. EvalKey' = EvalKey
    BY <1>1 DEF EvalKey
  <2> QED
    BY <1>1, <1>2, <1>4, <2>1, <2>2 DEF EvalStored
<1> QED
  BY <1>5, <1>6, <1>7 DEF EvalRest, EvalInv

LEMMA EvalCheckpointsKeepsInv ==
  ASSUME EvalInv, EvalCheckpoints
  PROVE  EvalInv'
<1>1. /\ evalRun # NoRun /\ evalPhase = "checkpoint" /\ evalPhase' = "ask"
      /\ evalDisk' = [evalDisk EXCEPT !.checkpoints[EvalKey] =
                        [id |-> evalRun.id, prompt |-> EvalPrompt(EvalKey), content |-> evalAnswer]]
      /\ Takes(evalAnswer) /\ UNCHANGED <<evalCalls, evalRuns, evalFaults>>
  BY DEF EvalCheckpoints
<1>2. EvalShape /\ EvalStored /\ EvalOneExecution /\ evalAt.stage \in CallStages /\ evalAnswer \in EvalContents
  BY <1>1 DEF EvalInv, EvalShape
<1>3. EvalKey \in EvalKeys
  BY <1>2, EvalKeyIsAKey
<1>4. /\ evalDisk'.identity = evalDisk.identity /\ evalDisk'.files = evalDisk.files
      /\ evalDisk'.responses = evalDisk.responses
      /\ \A key \in EvalKeys : evalDisk'.checkpoints[key] =
            IF key = EvalKey THEN CheckpointOf(EvalKey, evalAnswer) ELSE evalDisk.checkpoints[key]
  BY <1>1, <1>2, <1>3 DEF EvalShape, CheckpointOf
<1>5. EvalRecords(evalAnswer)
  <2>1. OneRun => ~Held(EvalKey)
    BY <1>1, <1>2 DEF EvalOneExecution
  <2> QED
    BY <1>1, <1>2, <1>4, <2>1 DEF EvalRecords
<1>6. EvalRest'
  BY <1>1, <1>2, <1>5, TakingKeepsRest
<1>7. EvalPrompt(EvalKey) \in {"fixed", "no_candidates"} \cup EvalContents
      /\ (EvalKey[2] # "final" => EvalPrompt(EvalKey) = "fixed")
  BY DEF EvalPrompt
<1>8. EvalShape'
  <2>1. CheckpointOf(EvalKey, evalAnswer) \in EvalCheckpoint
    BY <1>2, <1>7 DEF EvalShape, CheckpointOf, EvalCheckpoint
  <2>2. evalDisk' \in [identity : EvalIds, responses : SUBSET (EvalKeys \X EvalContents),
                       checkpoints : [EvalKeys -> {NoCheckpoint} \cup EvalCheckpoint],
                       files : [EvalFiles -> EvalIds]]
    <3>1. [id |-> evalRun.id, prompt |-> EvalPrompt(EvalKey), content |-> evalAnswer] = CheckpointOf(EvalKey, evalAnswer)
      BY <1>1, <1>2 DEF EvalShape, CheckpointOf
    <3>2. evalDisk' = [evalDisk EXCEPT !.checkpoints[EvalKey] = CheckpointOf(EvalKey, evalAnswer)]
      BY <1>1, <3>1
    <3> QED
      BY <1>2, <2>1, <3>2 DEF EvalShape
  <2> QED
    BY <1>1, <1>2, <1>4, <2>2, TakingKeepsShape DEF EvalShape
<1>9. EvalStored'
  <2>1. ASSUME NEW key \in EvalKeys, Held(key)'
        PROVE  /\ <<key, HeldContent(key)'>> \in evalDisk'.responses
               /\ key[2] # "final" => evalDisk'.checkpoints[key].prompt = "fixed"
    <3>1. CASE key = EvalKey
      <4>1. HeldContent(key)' = evalAnswer /\ evalDisk'.checkpoints[key].prompt = EvalPrompt(EvalKey)
        BY <1>4, <3>1, CheckpointsAreHeld DEF HeldContent
      <4> QED
        BY <1>1, <1>2, <1>4, <1>7, <3>1, <4>1 DEF EvalStored
    <3>2. CASE key # EvalKey
      <4>1. Held(key) /\ HeldContent(key)' = HeldContent(key) /\ evalDisk'.checkpoints[key] = evalDisk.checkpoints[key]
        BY <1>4, <2>1, <3>2 DEF Held, HeldContent
      <4> QED
        BY <1>2, <1>4, <4>1 DEF EvalStored
    <3> QED
      BY <3>1, <3>2
  <2> QED
    BY <1>1, <2>1 DEF EvalStored
<1> QED
  BY <1>6, <1>8, <1>9 DEF EvalRest, EvalInv

LEMMA EvalDiesKeepsInv ==
  ASSUME EvalInv, EvalDies
  PROVE  EvalInv'
<1>1. /\ evalRun' = NoRun /\ evalEnded' = "died" /\ evalPhase' = "ask"
      /\ UNCHANGED <<evalAt, evalSeen, evalCalls, evalDisk, evalRuns, evalFaults>>
  BY DEF EvalDies, EvalStops
<1>2. EvalRest'
  BY <1>1, StoppingKeepsRest
<1>3. EvalShape' /\ EvalStored'
  BY <1>1 DEF EvalInv, EvalShape, EvalStored, Held, HeldContent
<1> QED
  BY <1>2, <1>3 DEF EvalRest, EvalInv

---------------------------------------------------------------------------
(* Writing a file *)

\* The stage a file written leads to.
WriteMoves ==
    {<<"scoring_view", "baseline">>, <<"baseline", "chunk">>, <<"final_note", "proposed">>,
     <<"proposed", "run_manifest">>, <<"run_manifest", "call_metrics">>}
FileWritten == IF evalAt.stage \in {"run_manifest", "call_metrics"} THEN <<0, evalAt.stage>> ELSE EvalKey
Onward ==
    \/ \E stage \in EvalStages : <<evalAt.stage, stage>> \in WriteMoves /\ evalAt' = [evalAt EXCEPT !.stage = stage]
    \/ /\ evalAt.stage = "proposed" /\ evalAt.paper # Len(EvalPapers)
       /\ evalAt' = [paper |-> evalAt.paper + 1, stage |-> "baseline1"]

\* Writing passes the file that is written, and no key.
LEMMA WritingPasses ==
  ASSUME EvalShape, Onward
  PROVE  /\ evalAt' \in [paper : 1..Len(EvalPapers), stage : EvalStages]
         /\ \A key \in EvalKeys : Passed(key)' <=> Passed(key)
         /\ \A file \in EvalMetrics \cup EvalNotes : Passed(file)' => Passed(file) \/ file = EvalKey
<1> DEFINE at == evalAt.stage
           paper == evalAt.paper
<1>1. paper \in 1..Len(EvalPapers) /\ paper \in Int /\ at \in EvalStages
      /\ evalAt = [paper |-> paper, stage |-> at]
  BY EvalPapersCount DEF EvalShape
<1>2. CASE \E stage \in EvalStages : <<at, stage>> \in WriteMoves /\ evalAt' = [evalAt EXCEPT !.stage = stage]
  <2>1. PICK stage \in EvalStages : <<at, stage>> \in WriteMoves /\ evalAt' = [evalAt EXCEPT !.stage = stage]
    BY <1>2
  <2>2. evalAt'.paper = paper /\ evalAt'.stage = stage /\ evalAt' \in [paper : 1..Len(EvalPapers), stage : EvalStages]
    BY <1>1, <2>1
  <2>3. \/ at = "scoring_view" /\ stage = "baseline"
        \/ at = "baseline" /\ stage = "chunk"
        \/ at = "final_note" /\ stage = "proposed"
        \/ at = "proposed" /\ stage = "run_manifest"
        \/ at = "run_manifest" /\ stage = "call_metrics"
    BY <2>1 DEF WriteMoves
  <2>4. \A key : /\ Passed(key)' <=> key[1] < paper \/ (key[1] = paper /\ Rank(key[2]) < Rank(stage))
                 /\ Passed(key) <=> key[1] < paper \/ (key[1] = paper /\ Rank(key[2]) < Rank(at))
    BY <2>2 DEF Passed
  <2> HIDE DEF at, paper
  <2>5. ASSUME NEW key \in EvalKeys
        PROVE  Passed(key)' <=> Passed(key)
    <3>1. key[1] \in Int /\ key[2] \in CallStages
      BY KeysArePairs, EvalPapersCount
    <3>2. Rank(key[2]) < Rank(stage) <=> Rank(key[2]) < Rank(at)
      BY <2>3, <3>1, RankOf DEF CallStages
    <3> QED
      BY <2>4, <3>2
  <2>6. ASSUME NEW file \in EvalMetrics \cup EvalNotes, Passed(file)'
        PROVE  Passed(file) \/ file = EvalKey
    <3>1. file[1] \in Int /\ file[2] \in {"baseline", "proposed", "scoring_view", "final_note"}
          /\ file = <<file[1], file[2]>>
      BY KeysArePairs, EvalPapersCount
    <3>2. Rank(file[2]) < Rank(stage) => Rank(file[2]) < Rank(at) \/ file[2] = at
      BY <2>3, <3>1, RankOf
    <3>3. EvalKey = <<paper, at>>
      BY DEF EvalKey, at, paper
    <3> QED
      BY <2>4, <2>6, <3>1, <3>2, <3>3
  <2> QED
    BY <2>2, <2>5, <2>6
<1>3. CASE /\ at = "proposed" /\ paper # Len(EvalPapers)
           /\ evalAt' = [paper |-> paper + 1, stage |-> "baseline1"]
  <2>1. evalAt'.paper = paper + 1 /\ evalAt'.stage = "baseline1"
        /\ evalAt' \in [paper : 1..Len(EvalPapers), stage : EvalStages]
    <3>1. paper + 1 \in 1..Len(EvalPapers) /\ "baseline1" \in EvalStages
      BY <1>1, <1>3, EvalPapersCount DEF EvalStages, CallStages
    <3> QED
      BY <1>3, <3>1
  <2>2. \A key : /\ Passed(key)' <=> key[1] < paper + 1 \/ (key[1] = paper + 1 /\ Rank(key[2]) < 1)
                 /\ Passed(key) <=> key[1] < paper \/ (key[1] = paper /\ Rank(key[2]) < 8)
    BY <1>3, <2>1, RankOf DEF Passed
  <2>3. EvalKey = <<paper, "proposed">>
    BY <1>3 DEF EvalKey
  <2> HIDE DEF at, paper
  <2>4. ASSUME NEW key \in EvalKeys
        PROVE  Passed(key)' <=> Passed(key)
    <3>1. key[1] \in Int /\ key[2] \in CallStages
      BY KeysArePairs, EvalPapersCount
    <3>2. Rank(key[2]) \in 1..6
      BY <3>1, RankOf DEF CallStages
    <3> QED
      BY <1>1, <2>2, <3>1, <3>2
  <2>5. ASSUME NEW file \in EvalMetrics \cup EvalNotes, Passed(file)'
        PROVE  Passed(file) \/ file = EvalKey
    <3>1. file[1] \in Int /\ file[2] \in {"baseline", "proposed", "scoring_view", "final_note"}
          /\ file = <<file[1], file[2]>>
      BY KeysArePairs, EvalPapersCount
    <3>2. Rank(file[2]) \in 1..8 /\ (Rank(file[2]) = 8 => file[2] = "proposed")
      BY <3>1, RankOf
    <3>3. file[1] < paper \/ file[1] = paper
      BY <1>1, <2>2, <2>5, <3>1, <3>2
    <3> QED
      BY <2>2, <2>3, <3>1, <3>2, <3>3
  <2> QED
    BY <2>1, <2>4, <2>5
<1> QED
  BY <1>2, <1>3 DEF Onward

LEMMA EvalWritesWrites ==
  ASSUME EvalShape, EvalWrites
  PROVE  /\ evalRun # NoRun /\ evalAt.stage \notin CallStages /\ FileWritten \in EvalFiles
         /\ evalDisk' = [evalDisk EXCEPT !.files[FileWritten] = evalDisk.identity]
         /\ \/ /\ evalAt.stage = "call_metrics" /\ evalRun' = NoRun /\ evalEnded' = "report" /\ evalAt' = evalAt
            \/ Onward /\ evalAt.stage # "call_metrics" /\ evalRun' = evalRun /\ evalEnded' = evalEnded
         /\ UNCHANGED <<evalSeen, evalPhase, evalAnswer, evalCalls, evalRuns, evalFaults>>
         /\ evalPhase = "ask"
<1>1. /\ evalRun # NoRun /\ evalAt.stage \notin CallStages
      /\ evalDisk' = [evalDisk EXCEPT !.files[FileWritten] = evalRun.id]
      /\ UNCHANGED <<evalPhase, evalAnswer, evalCalls, evalRuns, evalFaults>>
  BY DEF EvalWrites, FileWritten
<1>2. evalRun.id = evalDisk.identity /\ evalPhase = "ask" /\ evalAt.stage \in EvalStages /\ evalAt.paper \in 1..Len(EvalPapers)
  BY <1>1 DEF EvalShape
<1>3. evalAt.stage \in {"scoring_view", "baseline", "final_note", "proposed", "run_manifest", "call_metrics"}
  BY <1>1, <1>2 DEF EvalStages
<1>4. FileWritten \in EvalFiles
  BY <1>2, <1>3 DEF FileWritten, EvalFiles, EvalMetrics, EvalNotes, EvalReport, EvalKey
<1>5. CASE evalAt.stage = "call_metrics"
  BY <1>1, <1>2, <1>4, <1>5 DEF EvalWrites, EvalStops
<1>6. CASE evalAt.stage # "call_metrics"
  <2>1. /\ evalRun' = evalRun /\ evalEnded' = evalEnded /\ evalSeen' = evalSeen
        /\ evalAt' =
            CASE evalAt.stage = "scoring_view" -> At("baseline")
              [] evalAt.stage = "baseline" -> At("chunk")
              [] evalAt.stage = "final_note" -> At("proposed")
              [] evalAt.stage = "proposed" /\ ~(evalAt.paper = Len(EvalPapers)) ->
                    [paper |-> evalAt.paper + 1, stage |-> "baseline1"]
              [] evalAt.stage = "proposed" /\ evalAt.paper = Len(EvalPapers) -> At("run_manifest")
              [] evalAt.stage = "run_manifest" -> At("call_metrics")
    BY <1>6 DEF EvalWrites
  <2>2. Onward
    <3>1. CASE evalAt.stage = "scoring_view"
      BY <2>1, <3>1 DEF At, Onward, WriteMoves, EvalStages
    <3>2. CASE evalAt.stage = "baseline"
      BY <2>1, <3>2 DEF At, Onward, WriteMoves, EvalStages, CallStages
    <3>3. CASE evalAt.stage = "final_note"
      BY <2>1, <3>3 DEF At, Onward, WriteMoves, EvalStages
    <3>4. CASE evalAt.stage = "proposed" /\ evalAt.paper = Len(EvalPapers)
      BY <2>1, <3>4 DEF At, Onward, WriteMoves, EvalStages
    <3>5. CASE evalAt.stage = "proposed" /\ evalAt.paper # Len(EvalPapers)
      BY <2>1, <3>5 DEF Onward
    <3>6. CASE evalAt.stage = "run_manifest"
      BY <2>1, <3>6 DEF At, Onward, WriteMoves, EvalStages
    <3> QED
      BY <1>3, <1>6, <3>1, <3>2, <3>3, <3>4, <3>5, <3>6
  <2> QED
    BY <1>1, <1>2, <1>4, <1>6, <2>1, <2>2
<1> QED
  BY <1>5, <1>6

LEMMA EvalWritesKeepsInv ==
  ASSUME EvalInv, EvalWrites
  PROVE  EvalInv'
<1>1. /\ EvalShape /\ EvalStored /\ EvalTelling /\ EvalWritten /\ EvalOneDirectory /\ EvalOneExecution /\ EvalSamePrompts
  BY DEF EvalInv
<1>2. /\ evalRun # NoRun /\ evalAt.stage \notin CallStages /\ FileWritten \in EvalFiles
      /\ evalDisk' = [evalDisk EXCEPT !.files[FileWritten] = evalDisk.identity]
      /\ \/ /\ evalAt.stage = "call_metrics" /\ evalRun' = NoRun /\ evalEnded' = "report" /\ evalAt' = evalAt
         \/ Onward /\ evalAt.stage # "call_metrics" /\ evalRun' = evalRun /\ evalEnded' = evalEnded
      /\ UNCHANGED <<evalSeen, evalPhase, evalAnswer, evalCalls, evalRuns, evalFaults>>
      /\ evalPhase = "ask"
  BY <1>1, EvalWritesWrites
<1>3. /\ evalDisk'.identity = evalDisk.identity /\ evalDisk'.checkpoints = evalDisk.checkpoints
      /\ evalDisk'.responses = evalDisk.responses
      /\ \A file \in EvalFiles : evalDisk'.files[file] =
            IF file = FileWritten THEN evalDisk.identity ELSE evalDisk.files[file]
  BY <1>1, <1>2 DEF EvalShape
<1>4. /\ evalAt' \in [paper : 1..Len(EvalPapers), stage : EvalStages]
      /\ \A key \in EvalKeys : Passed(key)' <=> Passed(key)
      /\ \A file \in EvalMetrics \cup EvalNotes : Passed(file)' => Passed(file) \/ file = FileWritten
  <2>1. CASE evalAt' = evalAt
    BY <1>1, <2>1 DEF EvalShape, Passed
  <2>2. CASE Onward /\ evalAt.stage # "call_metrics"
    <3>1. /\ evalAt' \in [paper : 1..Len(EvalPapers), stage : EvalStages]
          /\ \A key \in EvalKeys : Passed(key)' <=> Passed(key)
          /\ \A file \in EvalMetrics \cup EvalNotes : Passed(file)' => Passed(file) \/ file = EvalKey
      BY <1>1, <2>2, WritingPasses
    <3>2. ASSUME NEW file \in EvalMetrics \cup EvalNotes, file = EvalKey
          PROVE  file = FileWritten
      <4>1. file[2] \in {"baseline", "proposed", "scoring_view", "final_note"}
        BY KeysArePairs
      <4>2. file[2] = evalAt.stage
        BY <3>2 DEF EvalKey
      <4> QED
        BY <3>2, <4>1, <4>2 DEF FileWritten
    <3> QED
      BY <3>1, <3>2
  <2> QED
    BY <1>2, <2>1, <2>2
<1>5. /\ \A key : (Held(key)' <=> Held(key)) /\ HeldContent(key)' = HeldContent(key)
      /\ \A key : (Scored(key)' <=> Scored(key)) /\ EvalPrompt(key)' = EvalPrompt(key)
      /\ \A key, content : CheckpointOf(key, content)' = CheckpointOf(key, content)
      /\ OneRun' <=> OneRun
      /\ Told
  BY <1>2, <1>3 DEF Held, HeldContent, Scored, EvalPrompt, CheckpointOf, OneRun, Told
<1>6. evalRun' # NoRun => /\ Onward /\ evalAt'.stage \notin {"baseline2", "scoring_view", "final_note"}
                          /\ evalRun' = evalRun /\ evalEnded' = evalEnded /\ evalEnded = "none"
  <2> SUFFICES ASSUME evalRun' # NoRun
               PROVE  /\ Onward /\ evalAt'.stage \notin {"baseline2", "scoring_view", "final_note"}
                      /\ evalRun' = evalRun /\ evalEnded' = evalEnded /\ evalEnded = "none"
    OBVIOUS
  <2>1. Onward /\ evalRun' = evalRun /\ evalEnded' = evalEnded /\ evalEnded = "none"
    BY <1>1, <1>2 DEF EvalShape
  <2>2. evalAt'.stage \notin {"baseline2", "scoring_view", "final_note"}
    BY <1>1, <2>1 DEF Onward, WriteMoves, EvalShape
  <2> QED
    BY <2>1, <2>2
<1>7. EvalShape'
  <2>1. evalDisk' \in [identity : EvalIds, responses : SUBSET (EvalKeys \X EvalContents),
                       checkpoints : [EvalKeys -> {NoCheckpoint} \cup EvalCheckpoint],
                       files : [EvalFiles -> EvalIds]]
    BY <1>1, <1>2 DEF EvalShape
  <2>2. evalAt'.stage \in {"run_manifest", "call_metrics"} => evalAt'.paper = Len(EvalPapers)
    <3>1. CASE evalAt' = evalAt
      BY <1>1, <3>1 DEF EvalShape
    <3>2. ASSUME NEW stage \in EvalStages, <<evalAt.stage, stage>> \in WriteMoves, evalAt' = [evalAt EXCEPT !.stage = stage],
                 evalAt'.stage \in {"run_manifest", "call_metrics"}
          PROVE  evalAt'.paper = Len(EvalPapers)
      <4>1. evalAt'.paper = evalAt.paper /\ evalAt'.stage = stage
        BY <1>1, <3>2 DEF EvalShape
      <4>2. evalAt.stage \in {"proposed", "run_manifest"}
        BY <3>2, <4>1 DEF WriteMoves
      <4>3. CASE evalAt.stage = "run_manifest"
        BY <1>1, <4>1, <4>3 DEF EvalShape
      <4>4. CASE evalAt.stage = "proposed"
        <5>1. evalRun' # NoRun
          BY <1>2, <4>4
        <5>2. ~(evalAt.paper = Len(EvalPapers)) => evalAt' = [paper |-> evalAt.paper + 1, stage |-> "baseline1"]
          BY <4>4 DEF EvalWrites
        <5> QED
          BY <3>2, <4>1, <5>2
      <4> QED
        BY <4>2, <4>3, <4>4
    <3>3. CASE evalAt' = [paper |-> evalAt.paper + 1, stage |-> "baseline1"]
      BY <3>3
    <3> QED
      BY <1>2, <3>1, <3>2, <3>3 DEF Onward
  <2>3. evalRun' # NoRun => evalRun'.id = evalDisk'.identity /\ evalEnded' = "none" /\ evalRuns' > 0
    BY <1>1, <1>2, <1>3, <1>6 DEF EvalShape
  <2>4. evalEnded' = "report" => evalAt'.stage = "call_metrics"
    BY <1>1, <1>2 DEF EvalShape
  <2> QED
    BY <1>1, <1>2, <1>4, <2>1, <2>2, <2>3, <2>4 DEF EvalShape
<1>8. EvalStored'
  BY <1>1, <1>2, <1>3, <1>5 DEF EvalStored
<1>9. EvalTelling'
  <2>1. evalRun' # NoRun => \A key \in EvalKeys : ~Passed(key)' => evalSeen'[key] = "none"
    BY <1>1, <1>2, <1>4, <1>6 DEF EvalTelling
  <2>2. \A key \in EvalKeys : evalSeen'[key] \in EvalContents =>
            evalDisk'.checkpoints[key] = CheckpointOf(key, evalSeen[key])'
    BY <1>1, <1>2, <1>3, <1>5 DEF EvalTelling
  <2> QED
    BY <1>6, <2>1, <2>2 DEF EvalTelling
<1>10. EvalWritten'
  <2>1. \A file \in EvalMetrics : Passed(file)' => evalDisk'.files[file] = evalDisk'.identity
    BY <1>1, <1>3, <1>4, <1>5 DEF EvalWritten, EvalFiles
  <2>2. \A note \in EvalNotes : Passed(note)' /\ Scored(note)' => evalDisk'.files[note] = evalDisk'.identity
    BY <1>1, <1>3, <1>4, <1>5 DEF EvalWritten, EvalFiles
  <2>3. <<0, "run_manifest">> \in EvalFiles /\ <<0, "call_metrics">> \in EvalFiles
    BY DEF EvalFiles, EvalReport
  <2>4. evalAt'.stage = "call_metrics" => evalDisk'.files[<<0, "run_manifest">>] = evalDisk'.identity
    <3> SUFFICES ASSUME evalAt'.stage = "call_metrics"
                 PROVE  evalDisk'.files[<<0, "run_manifest">>] = evalDisk'.identity
      OBVIOUS
    <3>1. CASE evalAt.stage = "call_metrics"
      BY <1>1, <1>3, <1>5, <2>3, <3>1 DEF EvalWritten
    <3>2. CASE evalAt.stage # "call_metrics"
      <4>1. evalAt.stage = "run_manifest"
        BY <1>1, <1>2, <3>2 DEF Onward, WriteMoves, EvalShape
      <4> QED
        BY <1>3, <2>3, <4>1 DEF FileWritten
    <3> QED
      BY <3>1, <3>2
  <2>5. evalEnded' = "report" => evalDisk'.files[<<0, "call_metrics">>] = evalDisk'.identity
    <3> SUFFICES ASSUME evalEnded' = "report"
                 PROVE  evalDisk'.files[<<0, "call_metrics">>] = evalDisk'.identity
      OBVIOUS
    <3>1. evalAt.stage = "call_metrics"
      BY <1>1, <1>2 DEF EvalShape
    <3> QED
      BY <1>3, <2>3, <3>1 DEF FileWritten
  <2> QED
    BY <2>1, <2>2, <2>4, <2>5 DEF EvalWritten
<1>11. EvalOneDirectory'
  <2> SUFFICES ASSUME OneRun'
               PROVE  EvalOneDirectory'
    BY DEF EvalOneDirectory
  <2>1. ASSUME NEW key \in EvalKeys, evalSeen[key] = "good"
        PROVE  Held(key) /\ HeldContent(key) = "good"
    <3>1. evalDisk.checkpoints[key] = CheckpointOf(key, "good")
      BY <1>1, <1>5, <2>1 DEF EvalTelling, EvalContents
    <3> QED
      BY <3>1, CheckpointsAreHeld DEF Held, HeldContent
  <2>2. ASSUME NEW p \in 1..Len(EvalPapers)
        PROVE  /\ evalDisk'.files[<<p, "scoring_view">>] # "none" =>
                    \E stage \in {"baseline1", "baseline2"} : Held(<<p, stage>>) /\ HeldContent(<<p, stage>>) = "good"
               /\ evalDisk'.files[<<p, "final_note">>] # "none" =>
                    Held(<<p, "final">>) /\ HeldContent(<<p, "final">>) = "good"
    <3>1. /\ <<p, "baseline1">> \in EvalKeys /\ <<p, "baseline2">> \in EvalKeys /\ <<p, "final">> \in EvalKeys
          /\ <<p, "scoring_view">> \in EvalFiles /\ <<p, "final_note">> \in EvalFiles
      BY DEF EvalKeys, CallStages, EvalFiles, EvalNotes
    <3>2. CASE <<p, "scoring_view">> = FileWritten
      <4>1. evalAt.paper = p /\ evalAt.stage = "scoring_view"
        BY <3>2 DEF FileWritten, EvalKey
      <4>2. Scored(<<p, "scoring_view">>)
        BY <1>1, <1>2, <4>1 DEF EvalTelling
      <4>3. \E stage \in {"baseline1", "baseline2"} : evalSeen[<<p, stage>>] = "good"
        BY <4>2 DEF Scored
      <4>4. \E stage \in {"baseline1", "baseline2"} : Held(<<p, stage>>) /\ HeldContent(<<p, stage>>) = "good"
        BY <2>1, <3>1, <4>3
      <4>5. <<p, "final_note">> # FileWritten
        BY <3>2
      <4> QED
        BY <1>1, <1>3, <1>5, <3>1, <4>4, <4>5 DEF EvalOneDirectory
    <3>3. CASE <<p, "final_note">> = FileWritten
      <4>1. evalAt.paper = p /\ evalAt.stage = "final_note"
        BY <3>3 DEF FileWritten, EvalKey
      <4>2. Scored(<<p, "final_note">>)
        BY <1>1, <1>2, <4>1 DEF EvalTelling
      <4>3. evalSeen[<<p, "final">>] = "good"
        BY <4>2 DEF Scored
      <4>4. <<p, "scoring_view">> # FileWritten
        BY <3>3
      <4> QED
        BY <1>1, <1>3, <1>5, <2>1, <3>1, <4>3, <4>4 DEF EvalOneDirectory
    <3>4. CASE <<p, "scoring_view">> # FileWritten /\ <<p, "final_note">> # FileWritten
      BY <1>1, <1>3, <1>5, <3>1, <3>4 DEF EvalOneDirectory
    <3> QED
      BY <3>2, <3>3, <3>4
  <2> QED
    BY <1>1, <1>2, <1>3, <1>5, <2>2 DEF EvalOneDirectory
<1>12. EvalOneExecution'
  <2>1. evalRun' # NoRun => evalRun' = evalRun
    BY <1>6
  <2> QED
    BY <1>1, <1>2, <1>4, <1>5, <2>1 DEF EvalOneExecution
<1>13. EvalSamePrompts'
  <2>1. \A p \in 1..Len(EvalPapers) : Passed(<<p, "chunk">>)' => Passed(<<p, "chunk">>)
    BY <1>4 DEF EvalKeys, CallStages
  <2> QED
    BY <1>1, <1>2, <1>3, <1>5, <2>1 DEF EvalSamePrompts
<1>14. evalEnded' # "mismatch"
  BY <1>1, <1>2 DEF EvalShape
<1> QED
  BY <1>7, <1>8, <1>9, <1>10, <1>11, <1>12, <1>13, <1>14 DEF EvalInv

---------------------------------------------------------------------------
(* The theorem *)

LEMMA EvalInitKeeps == EvalInit => EvalInv
<1> SUFFICES ASSUME EvalInit
             PROVE  EvalInv
  OBVIOUS
<1>1. /\ evalRun = NoRun /\ evalAt = [paper |-> 1, stage |-> "baseline1"] /\ evalPhase = "ask"
      /\ evalCalls = 0 /\ evalSeen = [key \in EvalKeys |-> "none"]
      /\ evalDisk = [identity |-> "none", responses |-> {},
                     checkpoints |-> [key \in EvalKeys |-> NoCheckpoint], files |-> [file \in EvalFiles |-> "none"]]
      /\ evalEnded = "none" /\ evalRuns = 0 /\ evalFaults = {}
  BY DEF EvalInit
<1>2. EvalShape
  <2>1. evalAt \in [paper : 1..Len(EvalPapers), stage : EvalStages] /\ evalAt.stage = "baseline1"
    BY <1>1, EvalPapersCount DEF EvalStages, CallStages
  <2>2. evalDisk \in [identity : EvalIds, responses : SUBSET (EvalKeys \X EvalContents),
                      checkpoints : [EvalKeys -> {NoCheckpoint} \cup EvalCheckpoint],
                      files : [EvalFiles -> EvalIds]]
    BY <1>1 DEF EvalIds
  <2>3. evalSeen \in [EvalKeys -> EvalContents \cup {"none", "failed"}]
    BY <1>1
  <2>4. 0 \in 0..MaxCalls
    BY EvaluationConstants
  <2> QED
    BY <1>1, <2>1, <2>2, <2>3, <2>4 DEF EvalShape
<1>3. \A key \in EvalKeys : ~Held(key)
  BY <1>1 DEF Held
<1>4. \A p \in 1..Len(EvalPapers) :
        /\ ~Held(<<p, "baseline2">>) /\ ~Held(<<p, "final">>)
        /\ evalDisk.files[<<p, "scoring_view">>] = "none" /\ evalDisk.files[<<p, "final_note">>] = "none"
  BY <1>1, <1>3 DEF EvalKeys, CallStages, EvalFiles, EvalNotes
<1>5. ~Told /\ evalEnded # "report" /\ evalPhase = "ask" /\ evalRun = NoRun
  BY <1>1 DEF Told
<1>6. EvalStored
  BY <1>3, <1>5 DEF EvalStored
<1>7. EvalTelling /\ EvalWritten
  BY <1>5 DEF EvalTelling, EvalWritten
<1>8. EvalOneDirectory
  BY <1>3, <1>4 DEF EvalOneDirectory
<1>9. EvalOneExecution
  BY <1>5 DEF EvalOneExecution
<1>10. EvalSamePrompts
  BY <1>4, <1>5 DEF EvalSamePrompts
<1> QED
  BY <1>1, <1>2, <1>6, <1>7, <1>8, <1>9, <1>10 DEF EvalInv

LEMMA EvalStaysKeepsInv ==
  ASSUME EvalInv, UNCHANGED evalVars
  PROVE  EvalInv'
<1>1. UNCHANGED <<evalRun, evalAt, evalPhase, evalAnswer, evalCalls, evalSeen, evalDisk, evalEnded, evalRuns, evalFaults>>
  BY DEF evalVars
<1>2. \A key : /\ Held(key)' <=> Held(key)
               /\ HeldContent(key)' = HeldContent(key)
               /\ Scored(key)' <=> Scored(key)
               /\ Passed(key)' <=> Passed(key)
  BY <1>1 DEF Held, HeldContent, Scored, Passed
<1>3. \A key, content : CheckpointOf(key, content)' = CheckpointOf(key, content)
  BY <1>1 DEF CheckpointOf, EvalPrompt
<1>4. (OneRun' <=> OneRun) /\ (Told' <=> Told) /\ EvalKey' = EvalKey
  BY <1>1 DEF OneRun, Told, EvalKey
<1>5. EvalShape'
  BY <1>1 DEF EvalInv, EvalShape
<1>6. EvalStored'
  BY <1>1, <1>2, <1>4 DEF EvalInv, EvalStored
<1>7. EvalTelling'
  BY <1>1, <1>2, <1>3, <1>4 DEF EvalInv, EvalTelling
<1>8. EvalWritten'
  BY <1>1, <1>2, <1>4 DEF EvalInv, EvalWritten
<1>9. EvalOneDirectory'
  BY <1>1, <1>2, <1>4 DEF EvalInv, EvalOneDirectory
<1>10. EvalOneExecution'
  BY <1>1, <1>2, <1>4 DEF EvalInv, EvalOneExecution
<1>11. EvalSamePrompts'
  BY <1>1, <1>2 DEF EvalInv, EvalSamePrompts
<1> QED
  BY <1>1, <1>5, <1>6, <1>7, <1>8, <1>9, <1>10, <1>11 DEF EvalInv

LEMMA EvalNextKeepsInv == EvalInv /\ [EvalNext]_evalVars => EvalInv'
<1> SUFFICES ASSUME EvalInv, [EvalNext]_evalVars
             PROVE  EvalInv'
  OBVIOUS
<1>1. CASE EvalRefused
  BY <1>1, EvalRefusedKeepsInv
<1>2. CASE EvalBegins
  BY <1>2, EvalBeginsKeepsInv
<1>3. CASE EvalResumes
  BY <1>3, EvalResumesKeepsInv
<1>4. CASE EvalMismatch
  BY <1>4, EvalMismatchKeepsInv
<1>5. CASE EvalAtLimit
  BY <1>5, EvalAtLimitKeepsInv
<1>6. CASE EvalCallRaises
  BY <1>6, EvalCallRaisesKeepsInv
<1>7. CASE EvalCall
  BY <1>7, EvalCallKeepsInv
<1>8. CASE EvalStores
  BY <1>8, EvalStoresKeepsInv
<1>9. CASE EvalCheckpoints
  BY <1>9, EvalCheckpointsKeepsInv
<1>10. CASE EvalWrites
  BY <1>10, EvalWritesKeepsInv
<1>11. CASE EvalDies
  BY <1>11, EvalDiesKeepsInv
<1>12. CASE UNCHANGED evalVars
  BY <1>12, EvalStaysKeepsInv
<1> QED
  BY <1>1, <1>2, <1>3, <1>4, <1>5, <1>6, <1>7, <1>8, <1>9, <1>10, <1>11, <1>12 DEF EvalNext

\* A report is written where everything is passed.
LEMMA ReportsPassEverything ==
  ASSUME EvalShape, evalEnded = "report"
  PROVE  /\ \A key \in EvalKeys : Passed(key)
         /\ \A file \in EvalMetrics \cup EvalNotes : Passed(file)
<1>1. evalAt.paper = Len(EvalPapers) /\ Rank(evalAt.stage) = 10
  BY RankOf DEF EvalShape
<1>2. ASSUME NEW key \in EvalKeys
      PROVE  Passed(key)
  <2>1. key[1] \in 1..Len(EvalPapers) /\ key[2] \in CallStages
    BY KeysArePairs
  <2>2. Rank(key[2]) < 10
    BY <2>1, RankOf DEF CallStages
  <2>3. key[1] < Len(EvalPapers) \/ key[1] = Len(EvalPapers)
    BY <2>1, EvalPapersCount
  <2> QED
    BY <1>1, <2>2, <2>3 DEF Passed
<1>3. ASSUME NEW file \in EvalMetrics \cup EvalNotes
      PROVE  Passed(file)
  <2>1. file[1] \in 1..Len(EvalPapers) /\ file[2] \in {"baseline", "proposed", "scoring_view", "final_note"}
    BY KeysArePairs
  <2>2. Rank(file[2]) < 10
    BY <2>1, RankOf
  <2>3. file[1] < Len(EvalPapers) \/ file[1] = Len(EvalPapers)
    BY <2>1, EvalPapersCount
  <2> QED
    BY <1>1, <2>2, <2>3 DEF Passed
<1> QED
  BY <1>2, <1>3

LEMMA ResumableFromInv == EvalInv => EvaluationResumable
<1> SUFFICES ASSUME EvalInv
             PROVE  EvaluationResumable
  OBVIOUS
<1>1. /\ EvalShape /\ EvalStored /\ EvalTelling /\ EvalWritten
      /\ EvalOneDirectory /\ EvalOneExecution
      /\ evalEnded = "mismatch" => evalFaults # {}
  BY DEF EvalInv
<1>2. \A key \in EvalKeys : evalDisk.checkpoints[key] # NoCheckpoint =>
        <<key, evalDisk.checkpoints[key].content>> \in evalDisk.responses
  BY <1>1 DEF EvalStored, Held, HeldContent
<1>3. evalCalls <= MaxCalls
  BY <1>1, EvaluationConstants DEF EvalShape
<1>4. ASSUME evalEnded = "report"
      PROVE  /\ \A file \in EvalMetrics \cup EvalReport : evalDisk.files[file] = evalDisk.identity
             /\ \A note \in EvalNotes :
                  /\ Scored(note) => evalDisk.files[note] = evalDisk.identity
                  /\ ~Scored(note) /\ "begun_again" \notin evalFaults => evalDisk.files[note] = "none"
             /\ \A key \in EvalKeys : evalSeen[key] \in EvalContents =>
                  evalDisk.checkpoints[key] =
                      [id |-> evalDisk.identity, prompt |-> EvalPrompt(key), content |-> evalSeen[key]]
  <2>1. Told /\ evalAt.stage = "call_metrics"
    BY <1>1, <1>4 DEF Told, EvalShape
  <2>2. /\ \A key \in EvalKeys : Passed(key)
        /\ \A file \in EvalMetrics \cup EvalNotes : Passed(file)
    BY <1>1, <1>4, ReportsPassEverything
  <2>3. \A file \in EvalMetrics \cup EvalReport : evalDisk.files[file] = evalDisk.identity
    BY <1>1, <1>4, <2>1, <2>2 DEF EvalWritten, EvalReport
  <2>4. \A note \in EvalNotes : Scored(note) => evalDisk.files[note] = evalDisk.identity
    BY <1>1, <2>1, <2>2 DEF EvalWritten
  <2>5. ASSUME NEW note \in EvalNotes, ~Scored(note), OneRun
        PROVE  evalDisk.files[note] = "none"
    <3>1. note[1] \in 1..Len(EvalPapers) /\ note[2] \in {"scoring_view", "final_note"} /\ note = <<note[1], note[2]>>
      BY DEF EvalNotes
    <3>2. /\ <<note[1], "baseline1">> \in EvalKeys /\ <<note[1], "baseline2">> \in EvalKeys
          /\ <<note[1], "final">> \in EvalKeys
      BY <3>1 DEF EvalKeys, CallStages
    <3>3. \A key \in EvalKeys : Held(key) => evalSeen[key] = HeldContent(key)
      BY <1>1, <2>1, <2>2, <2>5 DEF EvalOneExecution
    <3>4. CASE note[2] = "final_note"
      <4>1. evalSeen[<<note[1], "final">>] # "good"
        BY <2>5, <3>4 DEF Scored
      <4>2. ~(Held(<<note[1], "final">>) /\ HeldContent(<<note[1], "final">>) = "good")
        BY <3>2, <3>3, <4>1
      <4>3. evalDisk.files[<<note[1], "final_note">>] = "none"
        BY <1>1, <2>5, <3>1, <4>2 DEF EvalOneDirectory
      <4> QED
        BY <3>1, <3>4, <4>3
    <3>5. CASE note[2] = "scoring_view"
      <4>1. evalSeen[<<note[1], "baseline1">>] # "good" /\ evalSeen[<<note[1], "baseline2">>] # "good"
        BY <2>5, <3>5 DEF Scored
      <4>2. \A stage \in {"baseline1", "baseline2"} :
                ~(Held(<<note[1], stage>>) /\ HeldContent(<<note[1], stage>>) = "good")
        BY <3>2, <3>3, <4>1
      <4>3. evalDisk.files[<<note[1], "scoring_view">>] = "none"
        BY <1>1, <2>5, <3>1, <4>2 DEF EvalOneDirectory
      <4> QED
        BY <3>1, <3>5, <4>3
    <3> QED
      BY <3>1, <3>4, <3>5
  <2>6. \A key \in EvalKeys : evalSeen[key] \in EvalContents =>
          evalDisk.checkpoints[key] =
              [id |-> evalDisk.identity, prompt |-> EvalPrompt(key), content |-> evalSeen[key]]
    BY <1>1, <2>1 DEF EvalTelling, CheckpointOf
  <2> QED
    BY <2>3, <2>4, <2>5, <2>6 DEF OneRun
<1> QED
  BY <1>1, <1>2, <1>3, <1>4 DEF EvaluationResumable

\* What a directory of an evaluation holds, and what an execution has of it, at every step of
\* every execution: see the parts of EvalInv.
THEOREM EvalInvHolds == EvalSpec => []EvalInv
<1>1. EvalInit => EvalInv
  BY EvalInitKeeps
<1>2. EvalInv /\ [EvalNext]_evalVars => EvalInv'
  BY EvalNextKeepsInv
<1> QED
  BY <1>1, <1>2, PTL DEF EvalSpec

\* However the executions of run_evaluation in one directory stop and are resumed, the
\* directory can be resumed: a checkpoint has its response, a report is of one identity and of
\* the responses checkpointed for its own prompts, the notes scored are those on disk, and a
\* mismatch has a cause.
THEOREM EvaluationsResumable == EvalSpec => []EvaluationResumable
BY EvalInvHolds, ResumableFromInv, PTL

---------------------------------------------------------------------------
(* Question answering: what an execution pays for *)

QASpec == QAInit /\ [][QANext]_qaVars

QAKept(k) == qaDisk.checkpoints[k] = qaDisk.last /\ qaDisk.raw[k] # Unanswered
QABehind(k) == k[1] < qaAt.query \/ (k[1] = qaAt.query /\ k[2] < qaAt.attempt)
QAPatience == IF qaSetting.version = "v1.2" THEN 3 ELSE 2

QAShape ==
    /\ qaSetting.version \in Versions
    /\ qaAt \in [query : 1..QAQueries[qaSetting.version], attempt : 1..2, phase : {"ask", "checkpoint", "end"}]
    /\ qaDisk \in [exists : BOOLEAN, manifest : BOOLEAN, last : QAIdentities \cup {"none"},
                   raw : [QAKeys -> ReplyShape \cup {Unanswered}],
                   checkpoints : [QAKeys -> QAIdentities \cup {"none"}]]
    /\ qaPaid \in [QAKeys -> 0..1]
    /\ qaRun # NoQARun => qaRun.id = qaDisk.last /\ qaRun.id \in QAIdentities
    /\ qaRun # NoQARun /\ qaAt.phase = "checkpoint" => qaReply \in ReplyShape

\* What was paid for is kept, unless its checkpoint comes next; an execution that takes nothing
\* from the directory has paid only for what it has behind it.
QAPaidFor ==
    /\ ~OnDisk => \A k \in QAKeys : qaPaid[k] = 0
    /\ \A k \in QAKeys : qaPaid[k] = 1 =>
        QAKept(k) \/ (qaRun # NoQARun /\ qaAt.phase = "checkpoint" /\ k = QAKey)
    /\ qaRun # NoQARun /\ ~qaRun.resume => \A k \in QAKeys : qaPaid[k] = 1 =>
        QABehind(k) \/ qaAt.phase = "end" \/ (qaAt.phase = "checkpoint" /\ k = QAKey)
    /\ qaRun # NoQARun /\ qaAt.phase = "checkpoint" /\ OnDisk =>
        qaPaid[QAKey] = 1 /\ qaDisk.raw[QAKey] # Unanswered

\* While there is something left to ask, the circuit breaker has not seen enough.
QAPatient ==
    qaRun # NoQARun /\ qaAt.phase # "end" => ~Repeats(qaSignatures, QAPatience) /\ qaStop = "none"

QAInv == QAShape /\ QAPaidFor /\ QAPatient

LEMMA RepliesAnswer ==
  /\ Unanswered \notin ReplyShape
  /\ \A version \in Versions : QAReplies[version] \in SUBSET ReplyShape /\ QAQueries[version] \in Nat \ {0}
<1>1. Unanswered.kind = "none"
  BY DEF Unanswered
<1>2. \A reply \in ReplyShape : reply.kind # "none"
  BY DEF ReplyShape
<1>3. Unanswered \notin ReplyShape
  BY <1>1, <1>2
<1> QED
  BY <1>3, VerifiedQAConstants

LEMMA QAKeysArePairs ==
  /\ \A k \in QAKeys : k = <<k[1], k[2]>> /\ k[1] \in 1..QAQueries["v1"] /\ k[2] \in 1..2
                       /\ k[1] \in Int /\ k[2] \in Int
  /\ \A q \in 1..QAQueries["v1"], a \in 1..2 : <<q, a>> \in QAKeys /\ <<q, a>>[1] = q /\ <<q, a>>[2] = a
<1>1. QAQueries["v1"] \in Nat
  BY RepliesAnswer DEF Versions
<1> QED
  BY <1>1 DEF QAKeys

LEMMA QAKeyIsAKey ==
  ASSUME QAShape, OnDisk
  PROVE  QAKey \in QAKeys /\ QAKey[1] = qaAt.query /\ QAKey[2] = qaAt.attempt
BY QAKeysArePairs DEF QAShape, OnDisk, QAKey

\* Settling a question leaves it behind, or ends the execution, and never goes on where the
\* circuit breaker has seen enough.
LEMMA SettlingMovesOn ==
  ASSUME QAShape, qaAt.phase # "end", ~Repeats(qaSignatures, QAPatience), qaStop = "none",
         UNCHANGED qaSetting, NEW reply, Settles(reply)
  PROVE  /\ qaAt' \in [query : 1..QAQueries[qaSetting.version], attempt : 1..2, phase : {"ask", "checkpoint", "end"}]
         /\ qaAt'.phase # "checkpoint"
         /\ qaAt'.phase # "end" =>
              /\ \A k \in QAKeys : OnDisk /\ (QABehind(k) \/ k = QAKey) => QABehind(k)'
              /\ ~Repeats(qaSignatures', QAPatience) /\ qaStop' = "none"
<1> DEFINE query == qaAt.query
           attempt == qaAt.attempt
           result == Judged(qaSetting.version, qaSetting.question, reply)
           repair == qaSetting.version = "v1" /\ qaAt.attempt = 1 /\ result.execution = "transport_failed"
<1>1. /\ qaSetting.version \in Versions /\ QAQueries[qaSetting.version] \in Nat \ {0}
      /\ query \in 1..QAQueries[qaSetting.version] /\ attempt \in 1..2
      /\ qaAt = [query |-> query, attempt |-> attempt, phase |-> qaAt.phase]
  BY RepliesAnswer DEF QAShape
<1>2. \A k \in QAKeys : k[1] \in Int /\ k[2] \in Int
  BY QAKeysArePairs
<1>3. OnDisk => QAKey[1] = query /\ QAKey[2] = attempt
  BY QAKeyIsAKey
<1>4. CASE repair
  <2>1. qaAt' = [qaAt EXCEPT !.attempt = 2, !.phase = "ask"] /\ UNCHANGED <<qaSignatures, qaStop>>
    BY <1>4 DEF Settles
  <2>2. qaAt'.query = query /\ qaAt'.attempt = 2 /\ qaAt'.phase = "ask" /\ attempt = 1
        /\ qaAt' \in [query : 1..QAQueries[qaSetting.version], attempt : 1..2, phase : {"ask", "checkpoint", "end"}]
    <3>1. qaAt' = [query |-> query, attempt |-> 2, phase |-> "ask"]
      BY <1>1, <2>1
    <3>2. attempt = 1
      BY <1>4
    <3> HIDE DEF query, attempt, result, repair
    <3> QED
      BY <1>1, <3>1, <3>2
  <2>3. \A k \in QAKeys : OnDisk /\ (QABehind(k) \/ k = QAKey) => QABehind(k)'
    <3> HIDE DEF query, attempt, result, repair
    <3>1. \A k : QABehind(k) <=> k[1] < query \/ (k[1] = query /\ k[2] < 1)
      BY <2>2 DEF QABehind, query, attempt
    <3>2. \A k : QABehind(k)' <=> k[1] < query \/ (k[1] = query /\ k[2] < 2)
      BY <2>2 DEF QABehind
    <3> QED
      BY <1>2, <1>3, <2>2, <3>1, <3>2
  <2> QED
    BY <2>1, <2>2, <2>3
<1>5. CASE ~repair
  <2>1. /\ qaSignatures' = SignaturesAfter(result) /\ qaStop' = StopAfter(result)
        /\ qaAt' = IF StopAfter(result) # "none" \/ qaAt.query = QAQueries[qaSetting.version]
                   THEN [qaAt EXCEPT !.phase = "end"]
                   ELSE [query |-> qaAt.query + 1, attempt |-> 1, phase |-> "ask"]
    BY <1>5 DEF Settles
  <2>2. CASE StopAfter(result) # "none" \/ query = QAQueries[qaSetting.version]
    <3>1. qaAt' = [qaAt EXCEPT !.phase = "end"]
      BY <2>1, <2>2
    <3> QED
      BY <1>1, <3>1
  <2>3. CASE StopAfter(result) = "none" /\ query # QAQueries[qaSetting.version]
    <3>1. qaAt' = [query |-> query + 1, attempt |-> 1, phase |-> "ask"] /\ query + 1 \in 1..QAQueries[qaSetting.version]
      BY <1>1, <2>1, <2>3
    <3>2. \A k \in QAKeys : OnDisk /\ (QABehind(k) \/ k = QAKey) => QABehind(k)'
      <4> HIDE DEF query, attempt, result, repair
      <4>1. \A k : QABehind(k) => k[1] < query \/ k[1] = query
        BY DEF QABehind, query, attempt
      <4>2. \A k : k[1] < query + 1 => QABehind(k)'
        BY <3>1 DEF QABehind
      <4> QED
        BY <1>1, <1>2, <1>3, <4>1, <4>2
    <3>3. ~Repeats(qaSignatures', QAPatience)
      <4>1. ~(/\ SignaturesAfter(result) # qaSignatures /\ Repeats(SignaturesAfter(result), QAPatience))
        BY <2>3 DEF StopAfter, QAPatience
      <4> QED
        BY <2>1, <4>1
    <3> QED
      BY <2>1, <2>3, <3>1, <3>2, <3>3
  <2> QED
    BY <2>2, <2>3
<1> QED
  BY <1>4, <1>5

\* What does not touch the directory, what was paid and where it is keeps what was paid for.
LEMMA QABeginsKeeps ==
  ASSUME QAInv, QABegins
  PROVE  QAInv'
<1>1. PICK id \in QAIdentities, resume \in BOOLEAN :
        /\ qaRun' = [id |-> id, resume |-> resume]
        /\ qaDisk' = [qaDisk EXCEPT !.exists = TRUE, !.last = id]
        /\ qaPaid' = IF resume /\ id = qaDisk.last THEN qaPaid ELSE [k \in QAKeys |-> 0]
  BY DEF QABegins
<1>2. /\ qaRun = NoQARun /\ qaAt' = [query |-> 1, attempt |-> 1, phase |-> "ask"]
      /\ qaSignatures' = <<>> /\ qaStop' = "none" /\ qaSetting' = qaSetting
  BY DEF QABegins
<1>3. /\ qaRun'.id = id /\ qaRun'.resume = resume /\ qaAt'.phase = "ask"
      /\ qaDisk'.last = id /\ qaDisk'.raw = qaDisk.raw /\ qaDisk'.checkpoints = qaDisk.checkpoints
      /\ (OnDisk' <=> OnDisk)
  BY <1>1, <1>2 DEF QAInv, QAShape, OnDisk
<1>4. QAShape'
  <2>1. qaAt' \in [query : 1..QAQueries[qaSetting.version], attempt : 1..2, phase : {"ask", "checkpoint", "end"}]
    BY <1>2, RepliesAnswer DEF QAInv, QAShape
  <2>2. qaPaid' \in [QAKeys -> 0..1]
    BY <1>1 DEF QAInv, QAShape
  <2>3. qaDisk' \in [exists : BOOLEAN, manifest : BOOLEAN, last : QAIdentities \cup {"none"},
                     raw : [QAKeys -> ReplyShape \cup {Unanswered}],
                     checkpoints : [QAKeys -> QAIdentities \cup {"none"}]]
    BY <1>1 DEF QAInv, QAShape
  <2> QED
    BY <1>2, <1>3, <2>1, <2>2, <2>3 DEF QAInv, QAShape
<1>5. QAPaidFor'
  <2>1. CASE resume /\ id = qaDisk.last
    <3>1. qaPaid' = qaPaid
      BY <1>1, <2>1
    <3>2. \A k \in QAKeys : qaPaid[k] = 1 => QAKept(k)
      BY <1>2 DEF QAInv, QAPaidFor
    <3>3. \A k : QAKept(k) => QAKept(k)'
      BY <1>3, <2>1 DEF QAKept
    <3> QED
      BY <1>3, <2>1, <3>1, <3>2, <3>3 DEF QAInv, QAPaidFor
  <2>2. CASE ~(resume /\ id = qaDisk.last)
    <3>1. \A k \in QAKeys : qaPaid'[k] = 0
      BY <1>1, <2>2
    <3> QED
      BY <1>3, <3>1 DEF QAPaidFor
  <2> QED
    BY <2>1, <2>2
<1>6. QAPatient'
  <2>1. QAPatience \in {2, 3} /\ QAPatience' = QAPatience
    BY <1>2 DEF QAPatience
  <2>2. ~Repeats(<<>>, QAPatience)
    BY <2>1 DEF Repeats
  <2> QED
    BY <1>2, <2>1, <2>2 DEF QAPatient
<1> QED
  BY <1>4, <1>5, <1>6 DEF QAInv

\* Settling, where everything that was paid for is kept or is the question that is settled.
LEMMA SettlingKeepsInv ==
  ASSUME QAInv, qaRun # NoQARun, qaAt.phase # "end", NEW reply, Settles(reply),
         UNCHANGED <<qaRun, qaSetting, qaPaid>>,
         qaDisk' \in [exists : BOOLEAN, manifest : BOOLEAN, last : QAIdentities \cup {"none"},
                      raw : [QAKeys -> ReplyShape \cup {Unanswered}],
                      checkpoints : [QAKeys -> QAIdentities \cup {"none"}]],
         qaDisk'.last = qaDisk.last,
         \A k \in QAKeys : QAKept(k) \/ (qaAt.phase = "checkpoint" /\ k = QAKey /\ OnDisk) => QAKept(k)'
  PROVE  QAInv'
<1>1. /\ QAShape /\ QAPaidFor /\ ~Repeats(qaSignatures, QAPatience) /\ qaStop = "none"
  BY DEF QAInv, QAPatient
<1>2. /\ qaAt' \in [query : 1..QAQueries[qaSetting.version], attempt : 1..2, phase : {"ask", "checkpoint", "end"}]
      /\ qaAt'.phase # "checkpoint"
      /\ qaAt'.phase # "end" =>
            /\ \A k \in QAKeys : OnDisk /\ (QABehind(k) \/ k = QAKey) => QABehind(k)'
            /\ ~Repeats(qaSignatures', QAPatience) /\ qaStop' = "none"
  BY <1>1, SettlingMovesOn
<1>3. (OnDisk' <=> OnDisk) /\ QAPatience' = QAPatience
  BY DEF OnDisk, QAPatience
<1>4. QAShape'
  BY <1>1, <1>2 DEF QAShape
<1>5. QAPaidFor'
  <2>1. ~OnDisk' => \A k \in QAKeys : qaPaid'[k] = 0
    BY <1>1, <1>3 DEF QAPaidFor
  <2>2. \A k \in QAKeys : qaPaid[k] = 1 => OnDisk
    BY <1>1 DEF QAPaidFor
  <2>3. \A k \in QAKeys : qaPaid'[k] = 1 => QAKept(k)'
    BY <1>1, <2>2 DEF QAPaidFor
  <2>4. ASSUME ~qaRun.resume, qaAt'.phase # "end", NEW k \in QAKeys, qaPaid[k] = 1
        PROVE  QABehind(k)'
    BY <1>1, <1>2, <2>2, <2>4 DEF QAPaidFor
  <2> QED
    BY <1>2, <2>1, <2>3, <2>4 DEF QAPaidFor
<1>6. QAPatient'
  BY <1>2, <1>3 DEF QAPatient
<1> QED
  BY <1>4, <1>5, <1>6 DEF QAInv

LEMMA QAReusesKeeps ==
  ASSUME QAInv, QAReuses
  PROVE  QAInv'
<1>1. /\ qaRun # NoQARun /\ qaAt.phase = "ask" /\ Settles(qaDisk.raw[QAKey])
      /\ UNCHANGED <<qaRun, qaSetting, qaPaid, qaDisk>>
  BY DEF QAReuses, QAAsks
<1>2. \A k \in QAKeys : QAKept(k) => QAKept(k)'
  BY <1>1 DEF QAKept
<1> QED
  BY <1>1, <1>2, SettlingKeepsInv DEF QAInv, QAShape

LEMMA QACallRaisesKeeps ==
  ASSUME QAInv, QACallRaises
  PROVE  QAInv'
<1>1. PICK reply : Settles(reply)
  BY DEF QACallRaises
<1>2. /\ qaRun # NoQARun /\ qaAt.phase = "ask"
      /\ UNCHANGED <<qaRun, qaSetting, qaPaid, qaDisk>>
  BY DEF QACallRaises, QAAsks
<1>3. \A k \in QAKeys : QAKept(k) => QAKept(k)'
  BY <1>2 DEF QAKept
<1> QED
  BY <1>1, <1>2, <1>3, SettlingKeepsInv DEF QAInv, QAShape

LEMMA QACheckpointsKeeps ==
  ASSUME QAInv, QACheckpoints
  PROVE  QAInv'
<1>1. /\ qaRun # NoQARun /\ qaAt.phase = "checkpoint" /\ Settles(qaReply)
      /\ qaDisk' = IF OnDisk THEN [qaDisk EXCEPT !.checkpoints[QAKey] = qaRun.id] ELSE qaDisk
      /\ UNCHANGED <<qaRun, qaSetting, qaPaid>>
  BY DEF QACheckpoints
<1>2. QAShape /\ QAPaidFor /\ qaRun.id = qaDisk.last /\ qaRun.id \in QAIdentities
  BY <1>1 DEF QAInv, QAShape
<1>3. CASE OnDisk
  <2>1. QAKey \in QAKeys
    BY <1>2, <1>3, QAKeyIsAKey
  <2>2. qaDisk' = [qaDisk EXCEPT !.checkpoints[QAKey] = qaRun.id]
    BY <1>1, <1>3
  <2>3. /\ qaDisk'.last = qaDisk.last /\ qaDisk'.raw = qaDisk.raw
        /\ \A k \in QAKeys : qaDisk'.checkpoints[k] = IF k = QAKey THEN qaDisk.last ELSE qaDisk.checkpoints[k]
    BY <1>2, <2>2 DEF QAShape
  <2>4. qaDisk' \in [exists : BOOLEAN, manifest : BOOLEAN, last : QAIdentities \cup {"none"},
                     raw : [QAKeys -> ReplyShape \cup {Unanswered}],
                     checkpoints : [QAKeys -> QAIdentities \cup {"none"}]]
    BY <1>2, <2>2 DEF QAShape
  <2>5. qaDisk.raw[QAKey] # Unanswered
    BY <1>1, <1>2, <1>3 DEF QAPaidFor
  <2>6. \A k \in QAKeys : QAKept(k) \/ k = QAKey => QAKept(k)'
    BY <2>1, <2>3, <2>5 DEF QAKept
  <2> QED
    BY <1>1, <2>3, <2>4, <2>6, SettlingKeepsInv
<1>4. CASE ~OnDisk
  <2>1. qaDisk' = qaDisk
    BY <1>1, <1>4
  <2>2. \A k \in QAKeys : QAKept(k) => QAKept(k)'
    BY <2>1 DEF QAKept
  <2> QED
    BY <1>1, <1>2, <1>4, <2>1, <2>2, SettlingKeepsInv DEF QAShape
<1> QED
  BY <1>3, <1>4

\* A question is only asked where its answer is not kept for this execution.
LEMMA QACallKeeps ==
  ASSUME QAInv, QACall
  PROVE  QAInv'
<1>1. PICK reply \in QAReplies[qaSetting.version] :
        /\ qaReply' = reply
        /\ qaDisk' = IF OnDisk THEN [qaDisk EXCEPT !.raw[QAKey] = reply] ELSE qaDisk
  BY DEF QACall
<1>2. /\ qaRun # NoQARun /\ qaAt.phase = "ask" /\ ~(OnDisk /\ Reusable(QAKey))
      /\ qaPaid' = IF OnDisk THEN [qaPaid EXCEPT ![QAKey] = @ + 1] ELSE qaPaid
      /\ qaAt' = [qaAt EXCEPT !.phase = "checkpoint"]
      /\ UNCHANGED <<qaRun, qaSetting, qaSignatures, qaStop>>
  BY DEF QACall, QAAsks
<1>3. /\ QAShape /\ QAPaidFor /\ QAPatient /\ qaRun.id = qaDisk.last
      /\ reply \in ReplyShape /\ reply # Unanswered
  BY <1>1, <1>2, RepliesAnswer DEF QAInv, QAShape
<1>4. /\ qaAt'.phase = "checkpoint" /\ qaAt'.query = qaAt.query /\ qaAt'.attempt = qaAt.attempt
      /\ qaAt' \in [query : 1..QAQueries[qaSetting.version], attempt : 1..2, phase : {"ask", "checkpoint", "end"}]
  BY <1>2, <1>3 DEF QAShape
<1>5. /\ QAKey' = QAKey /\ (\A k : QABehind(k)' <=> QABehind(k))
      /\ (OnDisk' <=> OnDisk) /\ QAPatience' = QAPatience
  BY <1>2, <1>4 DEF QAKey, QABehind, OnDisk, QAPatience
<1>6. QAPatient'
  BY <1>2, <1>3, <1>5 DEF QAPatient
<1>7. CASE OnDisk
  <2>1. QAKey \in QAKeys /\ QAKey[1] = qaAt.query /\ QAKey[2] = qaAt.attempt
    BY <1>3, <1>7, QAKeyIsAKey
  <2>2. ~QABehind(QAKey)
    BY <1>3, <2>1 DEF QABehind, QAShape
  <2>3. qaPaid[QAKey] = 0
    <3>1. CASE qaRun.resume
      <4>1. ~QAKept(QAKey)
        BY <1>2, <1>3, <1>7, <3>1 DEF Reusable, QAKept
      <4> QED
        BY <1>2, <1>3, <2>1, <4>1 DEF QAPaidFor, QAShape
    <3>2. CASE ~qaRun.resume
      BY <1>2, <1>3, <2>1, <2>2, <3>2 DEF QAPaidFor, QAShape
    <3> QED
      BY <3>1, <3>2
  <2>4. /\ \A k \in QAKeys : qaPaid'[k] = IF k = QAKey THEN 1 ELSE qaPaid[k]
        /\ qaPaid' \in [QAKeys -> 0..1]
    BY <1>2, <1>3, <1>7, <2>1, <2>3 DEF QAShape
  <2>5. qaDisk' = [qaDisk EXCEPT !.raw[QAKey] = reply]
    BY <1>1, <1>7
  <2>6. /\ qaDisk'.last = qaDisk.last /\ qaDisk'.checkpoints = qaDisk.checkpoints
        /\ \A k \in QAKeys : qaDisk'.raw[k] = IF k = QAKey THEN reply ELSE qaDisk.raw[k]
    BY <1>3, <2>5 DEF QAShape
  <2>7. qaDisk' \in [exists : BOOLEAN, manifest : BOOLEAN, last : QAIdentities \cup {"none"},
                     raw : [QAKeys -> ReplyShape \cup {Unanswered}],
                     checkpoints : [QAKeys -> QAIdentities \cup {"none"}]]
    BY <1>3, <2>5 DEF QAShape
  <2>8. \A k \in QAKeys : QAKept(k) => QAKept(k)'
    BY <1>3, <2>6 DEF QAKept
  <2>9. QAShape'
    BY <1>1, <1>2, <1>3, <1>4, <2>4, <2>6, <2>7 DEF QAShape
  <2>10. QAPaidFor'
    <3>1. \A k \in QAKeys : qaPaid'[k] = 1 => QAKept(k)' \/ k = QAKey
      BY <1>2, <1>3, <2>4, <2>8 DEF QAPaidFor
    <3>2. ~qaRun.resume => \A k \in QAKeys : qaPaid'[k] = 1 => QABehind(k) \/ k = QAKey
      BY <1>2, <1>3, <2>4 DEF QAPaidFor
    <3>3. qaPaid'[QAKey] = 1 /\ qaDisk'.raw[QAKey] # Unanswered
      BY <1>3, <2>1, <2>4, <2>6
    <3> QED
      BY <1>2, <1>4, <1>5, <1>7, <3>1, <3>2, <3>3 DEF QAPaidFor
  <2> QED
    BY <1>6, <2>9, <2>10 DEF QAInv
<1>8. CASE ~OnDisk
  <2>1. qaDisk' = qaDisk /\ qaPaid' = qaPaid /\ (\A k \in QAKeys : qaPaid[k] = 0)
    BY <1>1, <1>2, <1>3, <1>8 DEF QAPaidFor
  <2>2. QAShape'
    BY <1>1, <1>2, <1>3, <1>4, <2>1 DEF QAShape
  <2>3. QAPaidFor'
    BY <1>5, <1>8, <2>1 DEF QAPaidFor
  <2> QED
    BY <1>6, <2>2, <2>3 DEF QAInv
<1> QED
  BY <1>7, <1>8

LEMMA QAEndsKeeps ==
  ASSUME QAInv, QAEnds
  PROVE  QAInv'
<1>1. /\ qaRun # NoQARun /\ qaAt.phase = "end" /\ qaRun' = NoQARun
      /\ qaDisk' = [qaDisk EXCEPT !.manifest = TRUE]
      /\ UNCHANGED <<qaSetting, qaAt, qaReply, qaSignatures, qaStop, qaPaid>>
  BY DEF QAEnds
<1>2. /\ qaDisk'.last = qaDisk.last /\ qaDisk'.checkpoints = qaDisk.checkpoints /\ qaDisk'.raw = qaDisk.raw
      /\ (OnDisk' <=> OnDisk)
  BY <1>1 DEF QAInv, QAShape, OnDisk
<1>3. QAShape'
  BY <1>1 DEF QAInv, QAShape
<1>4. \A k \in QAKeys : qaPaid[k] = 1 => QAKept(k)
  BY <1>1 DEF QAInv, QAPaidFor
<1>5. \A k : QAKept(k) => QAKept(k)'
  BY <1>2 DEF QAKept
<1>6. QAPaidFor' /\ QAPatient'
  BY <1>1, <1>2, <1>4, <1>5 DEF QAInv, QAPaidFor, QAPatient
<1> QED
  BY <1>3, <1>6 DEF QAInv

\* An answer whose checkpoint is missing is given up, and no other.
LEMMA QADiesKeeps ==
  ASSUME QAInv, QADies
  PROVE  QAInv'
<1>1. /\ qaRun # NoQARun /\ qaRun' = NoQARun
      /\ qaPaid' = IF OnDisk /\ qaAt.phase = "checkpoint" THEN [qaPaid EXCEPT ![QAKey] = @ - 1] ELSE qaPaid
      /\ UNCHANGED <<qaSetting, qaAt, qaDisk>>
  BY DEF QADies
<1>2. QAShape /\ QAPaidFor /\ (OnDisk' <=> OnDisk) /\ (\A k : QAKept(k)' <=> QAKept(k))
  BY <1>1 DEF QAInv, OnDisk, QAKept
<1>3. /\ qaPaid' \in [QAKeys -> 0..1]
      /\ \A k \in QAKeys : qaPaid'[k] = 1 => QAKept(k)
      /\ ~OnDisk => \A k \in QAKeys : qaPaid'[k] = 0
  <2>1. CASE OnDisk /\ qaAt.phase = "checkpoint"
    <3>1. QAKey \in QAKeys /\ qaPaid[QAKey] = 1
      BY <1>1, <1>2, <2>1, QAKeyIsAKey DEF QAPaidFor
    <3>2. qaPaid' = [qaPaid EXCEPT ![QAKey] = qaPaid[QAKey] - 1]
      BY <1>1, <2>1
    <3>3. \A k \in QAKeys : qaPaid'[k] = IF k = QAKey THEN 0 ELSE qaPaid[k]
      BY <1>2, <3>1, <3>2 DEF QAShape
    <3>4. qaPaid' \in [QAKeys -> 0..1]
      BY <1>2, <3>1, <3>2 DEF QAShape
    <3> QED
      BY <1>2, <2>1, <3>3, <3>4 DEF QAPaidFor
  <2>2. CASE ~(OnDisk /\ qaAt.phase = "checkpoint")
    <3>1. qaPaid' = qaPaid
      BY <1>1, <2>2
    <3>2. \A k \in QAKeys : qaPaid[k] = 1 => OnDisk
      BY <1>2 DEF QAPaidFor
    <3> QED
      BY <1>2, <2>2, <3>1, <3>2 DEF QAPaidFor, QAShape
  <2> QED
    BY <2>1, <2>2
<1>4. QAShape'
  BY <1>1, <1>2, <1>3 DEF QAShape
<1>5. QAPaidFor' /\ QAPatient'
  BY <1>1, <1>2, <1>3 DEF QAPaidFor, QAPatient
<1> QED
  BY <1>4, <1>5 DEF QAInv

LEMMA QAInitKeeps == QAInit => QAInv
<1> SUFFICES ASSUME QAInit
             PROVE  QAInv
  OBVIOUS
<1>1. /\ qaRun = NoQARun /\ qaAt = [query |-> 1, attempt |-> 1, phase |-> "ask"]
      /\ qaSetting.version \in Versions
      /\ qaDisk = [exists |-> FALSE, manifest |-> FALSE, last |-> "none",
                   raw |-> [k \in QAKeys |-> Unanswered], checkpoints |-> [k \in QAKeys |-> "none"]]
      /\ qaPaid = [k \in QAKeys |-> 0]
  BY DEF QAInit
<1>2. qaAt \in [query : 1..QAQueries[qaSetting.version], attempt : 1..2, phase : {"ask", "checkpoint", "end"}]
  BY <1>1, RepliesAnswer
<1>3. QAShape
  BY <1>1, <1>2 DEF QAShape
<1>4. QAPaidFor /\ QAPatient
  BY <1>1 DEF QAPaidFor, QAPatient
<1> QED
  BY <1>3, <1>4 DEF QAInv

LEMMA QAStaysKeeps ==
  ASSUME QAInv, UNCHANGED qaVars
  PROVE  QAInv'
<1>1. UNCHANGED <<qaRun, qaSetting, qaAt, qaReply, qaSignatures, qaStop, qaDisk, qaPaid>>
  BY DEF qaVars
<1>2. QAShape' /\ QAPatient'
  BY <1>1 DEF QAInv, QAShape, QAPatient, QAPatience
<1>3. /\ \A k : (QAKept(k)' <=> QAKept(k)) /\ (QABehind(k)' <=> QABehind(k))
      /\ QAKey' = QAKey /\ (OnDisk' <=> OnDisk)
  BY <1>1 DEF QAKept, QABehind, QAKey, OnDisk
<1>4. QAPaidFor'
  BY <1>1, <1>3 DEF QAInv, QAPaidFor
<1> QED
  BY <1>2, <1>4 DEF QAInv

LEMMA QANextKeeps == QAInv /\ [QANext]_qaVars => QAInv'
BY QABeginsKeeps, QAReusesKeeps, QACallRaisesKeeps, QACallKeeps, QACheckpointsKeeps, QAEndsKeeps,
   QADiesKeeps, QAStaysKeeps DEF QANext

\* What the directory of a question answering run has been paid for, at every step of every
\* execution: see the parts of QAInv.
THEOREM QAInvHolds == QASpec => []QAInv
<1>1. QAInit => QAInv
  BY QAInitKeeps
<1>2. QAInv /\ [QANext]_qaVars => QAInv'
  BY QANextKeeps
<1> QED
  BY <1>1, <1>2, PTL DEF QASpec

\* However its executions die and are resumed, run_qa never pays twice for an answer whose
\* checkpoint it can use, and no version asks on after what its circuit breaker is there for.
THEOREM QAPaysOnceHolds == QASpec => []QAPaysOnce
<1>1. QAInv => QAPaysOnce
  BY DEF QAInv, QAShape, QAPatient, QAPatience, QAPaysOnce, QAAsks
<1> QED
  BY <1>1, QAInvHolds, PTL

---------------------------------------------------------------------------
(* Question answering: what a verdict rests on *)

\* A list of verdicts succeeds where each of them does.
LEMMA FirstFailureIsNone ==
  ASSUME NEW n \in Nat, NEW verdicts, DOMAIN verdicts = 1..n, FirstFailure(verdicts) = "success"
  PROVE  \A i \in 1..n : verdicts[i] = "success"
<1> DEFINE failing == {i \in DOMAIN verdicts : verdicts[i] # "success"}
           least == CHOOSE i \in failing : \A j \in failing : i <= j
<1>1. SUFFICES ASSUME failing # {}
               PROVE  FALSE
  OBVIOUS
<1>2. failing \in SUBSET Nat
  OBVIOUS
<1>3. FirstFailure(verdicts) = verdicts[least]
  BY <1>1 DEF FirstFailure
<1>4. \A i \in failing : verdicts[i] # "success"
  OBVIOUS
<1>5. least \in failing
  <2> HIDE DEF failing
  <2> QED
    BY <1>1, <1>2, LeastNumber
<1> QED
  BY <1>3, <1>4, <1>5

\* A quote that is taken is found; letter by letter only once in v1, and later, where it is
\* found there more than once, in one passage only.
LEMMA QuotesAreFound ==
  ASSUME NEW quote \in QuoteShape
  PROVE  /\ MapSpan(quote) = "ok" => quote.exact + quote.whitespace + quote.safe > 0 /\ quote.exact <= 1
         /\ MapQuote(quote) = "ok" =>
                /\ quote.exact + quote.whitespace + quote.safe > 0
                /\ quote.exact > 1 => ~quote.cross
<1>1. quote.exact \in Nat /\ quote.whitespace \in Nat /\ quote.safe \in Nat
  BY DEF QuoteShape
<1>2. MapSpan(quote) = "ok" => quote.exact + quote.whitespace + quote.safe > 0 /\ quote.exact <= 1
  BY <1>1 DEF MapSpan
<1>3. MapQuote(quote) = "ok" => MapSpan(quote) = "ok" \/ (quote.safe >= 2 /\ ~quote.cross)
  BY DEF MapQuote
<1> QED
  BY <1>1, <1>2, <1>3

\* What a claim that passes rests on.
LEMMA ClaimsAreGrounded ==
  ASSUME NEW version \in Versions, NEW top, NEW claim \in ClaimShape,
         ClaimVerdict(version, top, claim) = "success"
  PROVE  /\ \A j \in DOMAIN claim.citations :
              /\ claim.citations[j].passage \in top
              /\ claim.citations[j].quote \in QuoteShape
              /\ version = "v1" => MapSpan(claim.citations[j].quote) = "ok"
              /\ version # "v1" => /\ QAPassages[claim.citations[j].passage].paper = claim.paper
                                   /\ MapQuote(claim.citations[j].quote) = "ok"
         /\ version # "v1" => claim.paper \in PapersOf(top)
         /\ version = "v1.2" => \A e \in claim.mentions : QAEntities[e].paper = claim.paper
<1> DEFINE verdicts == [j \in DOMAIN claim.citations |-> CitationVerdict(version, top, claim, claim.citations[j])]
           cited == FirstFailure(verdicts)
<1>1. /\ claim.citations \in Seq([passage : STRING, quote : QuoteShape])
  BY DEF ClaimShape
<1>2. PICK n \in Nat : DOMAIN claim.citations = 1..n
  BY <1>1
<1>3. ClaimVerdict(version, top, claim) =
        IF version # "v1" /\ claim.paper \notin PapersOf(top) THEN "citation_validation_failed"
        ELSE IF version = "v1.2" /\ cited = "success" THEN BindingVerdict(claim) ELSE cited
  BY DEF ClaimVerdict
<1>4. cited = "success" /\ (version # "v1" => claim.paper \in PapersOf(top))
      /\ (version = "v1.2" => BindingVerdict(claim) = "success")
  <2> HIDE DEF cited
  <2> QED
    BY <1>3
<1>5. DOMAIN verdicts = 1..n
  BY <1>2
<1>6. \A j \in 1..n : verdicts[j] = "success"
  <2> HIDE DEF verdicts
  <2> QED
    BY <1>4, <1>5, FirstFailureIsNone DEF cited
<1>7. \A j \in 1..n : CitationVerdict(version, top, claim, claim.citations[j]) = "success"
  BY <1>2, <1>6
<1>8. \A j \in 1..n : claim.citations[j].quote \in QuoteShape
  <2> DEFINE Citations == [passage : STRING, quote : QuoteShape]
  <2> HIDE DEF Citations
  <2>1. claim.citations \in Seq(Citations)
    BY <1>1 DEF Citations
  <2>2. \A j \in DOMAIN claim.citations : claim.citations[j] \in Citations
    BY <2>1
  <2> QED
    BY <1>2, <2>2 DEF Citations
<1>9. \A citation : CitationVerdict(version, top, claim, citation) = "success" =>
          /\ citation.passage \in top
          /\ version = "v1" => MapSpan(citation.quote) = "ok"
          /\ version # "v1" => QAPassages[citation.passage].paper = claim.paper /\ MapQuote(citation.quote) = "ok"
  BY DEF CitationVerdict
<1>10. BindingVerdict(claim) = "success" => \A e \in claim.mentions : QAEntities[e].paper = claim.paper
  BY DEF BindingVerdict
<1> QED
  BY <1>2, <1>4, <1>7, <1>8, <1>9, <1>10

\* A reply that is verified at all is an answer, in its own envelope or none, that keeps the contract.
LEMMA ParsedIsAnAnswer ==
  ASSUME NEW version \in Versions, NEW reply \in ReplyShape
  PROVE  /\ ParseFailure(version, reply).execution = "success" =>
              reply.kind = "answer" /\ Canonical(version, reply) /\ Contract(reply)
         /\ ParseFailure(version, reply).execution # "none"
<1> DEFINE kind == IF reply.kind # "answer" THEN reply.kind
                   ELSE IF ~Canonical(version, reply) THEN "not_canonical"
                   ELSE IF ~Contract(reply) THEN "domain" ELSE "answer"
           Failure(status, text) == [execution |-> status, text |-> text]
<1>1. reply.kind \in {"raises", "not_json", "not_canonical", "schema", "answer"}
  BY DEF ReplyShape
<1>2. kind \in {"raises", "not_json", "not_canonical", "schema", "domain", "answer"}
      /\ (kind = "answer" => reply.kind = "answer" /\ Canonical(version, reply) /\ Contract(reply))
  BY <1>1
<1>3. ParseFailure(version, reply) =
        CASE kind = "answer" -> Failure("success", "none")
          [] kind = "raises" -> Failure("provider_failed", reply.text)
          [] version = "v1" /\ kind \notin {"answer", "raises"} -> Failure("transport_failed", reply.text)
          [] version # "v1" /\ kind = "not_json" -> Failure("parse_failed", "fixed")
          [] version # "v1" /\ kind = "not_canonical" -> Failure("transport_failed", "fixed")
          [] version # "v1" /\ kind = "schema" -> Failure("schema_failed", reply.text)
          [] version # "v1" /\ kind = "domain" -> Failure("answer_domain_failed", reply.text)
  BY DEF ParseFailure
<1> HIDE DEF kind
<1>4. kind # "answer" => ParseFailure(version, reply).execution \in
        {"provider_failed", "transport_failed", "parse_failed", "schema_failed", "answer_domain_failed"}
  <2>1. CASE kind = "raises"
    BY <1>3, <2>1
  <2>2. CASE version = "v1" /\ kind \notin {"answer", "raises"}
    BY <1>3, <2>2
  <2>3. CASE version # "v1" /\ kind = "not_json"
    BY <1>3, <2>3
  <2>4. CASE version # "v1" /\ kind = "not_canonical"
    BY <1>3, <2>4
  <2>5. CASE version # "v1" /\ kind = "schema"
    BY <1>3, <2>5
  <2>6. CASE version # "v1" /\ kind = "domain"
    BY <1>3, <2>6
  <2> QED
    BY <1>2, <2>1, <2>2, <2>3, <2>4, <2>5, <2>6
<1>5. kind = "answer" => ParseFailure(version, reply).execution = "success"
  BY <1>3
<1> QED
  BY <1>2, <1>4, <1>5

\* Whatever a model replies, what is made of it is grounded.
LEMMA JudgedIsGrounded ==
  ASSUME NEW version \in Versions, NEW question, NEW reply \in ReplyShape
  PROVE  Grounded(version, question, reply, Judged(version, question, reply))
<1> DEFINE result == Judged(version, question, reply)
           claims == reply.claims
           parsed == ParseFailure(version, reply)
           verdicts == [i \in DOMAIN claims |-> ClaimVerdict(version, question.top, claims[i])]
           claimed == FirstFailure(verdicts)
           covered == CoverageVerdict(question, claims)
           verdict == IF parsed.execution # "success" \/ reply.status # "answered" THEN parsed.execution
                      ELSE IF version = "v1.2" /\ claimed = "success" THEN covered ELSE claimed
           answered == verdict = "success" /\ reply.status = "answered"
           final == CASE version # "v1.2" \/ verdict # "success" -> "none"
                      [] version = "v1.2" /\ verdict = "success" /\ ~answered -> "insufficient_evidence"
                      [] answered /\ version = "v1.2" ->
                            IF QACoverage(question, claims) = "partial" THEN "partial_answer" ELSE "answered"
<1>1. result = [execution |-> verdict, text |-> parsed.text,
                answer |-> IF answered THEN "answered" ELSE "insufficient_evidence",
                shows |-> IF answered THEN "claims" ELSE IF verdict = "success" THEN "insufficient" ELSE "failure",
                final |-> final]
  BY DEF Judged
<1>2. /\ result.execution = verdict /\ result.final = final
      /\ result.answer = (IF answered THEN "answered" ELSE "insufficient_evidence")
      /\ result.shows = (IF answered THEN "claims" ELSE IF verdict = "success" THEN "insufficient" ELSE "failure")
  <2> HIDE DEF result, verdict, answered, final, parsed
  <2> QED
    BY <1>1
<1> HIDE DEF result
<1>3. /\ final = "none" <=> version # "v1.2" \/ verdict # "success"
      /\ final = "insufficient_evidence" <=> version = "v1.2" /\ verdict = "success" /\ reply.status # "answered"
      /\ final = "partial_answer" <=> version = "v1.2" /\ answered /\ QACoverage(question, claims) = "partial"
      /\ final = "answered" <=> version = "v1.2" /\ answered /\ QACoverage(question, claims) # "partial"
  <2> HIDE DEF verdict
  <2>1. CASE version # "v1.2" \/ verdict # "success"
    BY <2>1
  <2>2. CASE version = "v1.2" /\ verdict = "success" /\ ~answered
    BY <2>2
  <2>3. CASE version = "v1.2" /\ answered
    BY <2>3
  <2> QED
    BY <2>1, <2>2, <2>3
<1> HIDE DEF final
<1>4. result.answer = "answered" <=> answered
  BY <1>2
<1>5. result.execution \notin {"none", "success"} => result.shows = "failure"
  <2> HIDE DEF verdict
  <2> QED
    BY <1>2
<1>6. InReview(version, result) = "answers" <=> result.answer = "answered"
  <2> HIDE DEF verdict
  <2>1. CASE verdict # "success"
    BY <1>2, <2>1 DEF InReview
  <2>2. CASE verdict = "success" /\ version # "v1.2"
    BY <1>2, <2>2 DEF InReview
  <2>3. CASE verdict = "success" /\ version = "v1.2"
    BY <1>2, <1>3, <2>3 DEF InReview
  <2> QED
    BY <2>1, <2>2, <2>3
<1>7. version = "v1.2" /\ result.execution = "success" => InReview(version, result) # "none"
  BY DEF InReview
<1>8. ASSUME answered
      PROVE  /\ Contract(reply) /\ Canonical(version, reply)
             /\ claimed = "success"
             /\ version = "v1.2" => covered = "success"
  <2>1. parsed.execution = "success" /\ reply.status = "answered"
    <3> HIDE DEF parsed, claimed, covered
    <3> QED
      BY <1>8
  <2>2. Contract(reply) /\ Canonical(version, reply)
    BY <2>1, ParsedIsAnAnswer
  <2>3. claimed = "success" /\ (version = "v1.2" => covered = "success")
    <3> HIDE DEF parsed, claimed, covered
    <3> QED
      BY <1>8, <2>1
  <2> QED
    BY <2>2, <2>3
<1>9. claims \in Seq(ClaimShape)
  BY DEF ReplyShape
<1>10. PICK n \in Nat : DOMAIN claims = 1..n
  BY <1>9
<1>11. ASSUME answered
       PROVE  \A i \in DOMAIN claims : claims[i] \in ClaimShape /\ ClaimVerdict(version, question.top, claims[i]) = "success"
  <2>1. DOMAIN verdicts = 1..n
    BY <1>10
  <2>2. \A i \in 1..n : verdicts[i] = "success"
    <3> HIDE DEF verdicts
    <3> QED
      BY <1>8, <1>11, <2>1, FirstFailureIsNone DEF claimed
  <2> QED
    BY <1>9, <1>10, <2>2
<1>12. ASSUME answered
       PROVE  /\ claims # <<>> /\ reply.shape # "foreign_envelope"
              /\ \A i \in DOMAIN claims : claims[i].citations # <<>>
  BY <1>8, <1>12 DEF Contract, Canonical
<1>13. ASSUME answered, NEW i \in DOMAIN claims, NEW j \in DOMAIN claims[i].citations
       PROVE  LET citation == claims[i].citations[j] IN
              /\ citation.passage \in question.top
              /\ citation.quote.exact + citation.quote.whitespace + citation.quote.safe > 0
              /\ version = "v1" => citation.quote.exact <= 1
              /\ version # "v1" =>
                  /\ QAPassages[citation.passage].paper = claims[i].paper
                  /\ citation.quote.exact > 1 => ~citation.quote.cross
  <2> DEFINE citation == claims[i].citations[j]
  <2>1. /\ citation.passage \in question.top /\ citation.quote \in QuoteShape
        /\ version = "v1" => MapSpan(citation.quote) = "ok"
        /\ version # "v1" => QAPassages[citation.passage].paper = claims[i].paper /\ MapQuote(citation.quote) = "ok"
    BY <1>11, <1>13, ClaimsAreGrounded
  <2> HIDE DEF citation
  <2>2. /\ MapSpan(citation.quote) = "ok" =>
              citation.quote.exact + citation.quote.whitespace + citation.quote.safe > 0 /\ citation.quote.exact <= 1
        /\ MapQuote(citation.quote) = "ok" =>
              /\ citation.quote.exact + citation.quote.whitespace + citation.quote.safe > 0
              /\ citation.quote.exact > 1 => ~citation.quote.cross
    BY <2>1, QuotesAreFound
  <2> QED
    BY <2>1, <2>2 DEF citation
<1>14. ASSUME answered, version = "v1.2", NEW e \in question.requested, QAEntities[e].type = "model"
       PROVE  \/ \E i \in DOMAIN claims : claims[i].entity = e /\ claims[i].paper = QAEntities[e].paper
              \/ \A p \in question.top : QAPassages[p].paper # QAEntities[e].paper
  <2>1. \/ Covered(question, claims, e)
        \/ QAEntities[e].paper \notin PapersOf(question.top)
    BY <1>8, <1>14 DEF CoverageVerdict
  <2> QED
    BY <1>14, <2>1 DEF Covered, PapersOf
<1>15. ASSUME answered, version = "v1.2", NEW i \in DOMAIN claims, NEW e \in claims[i].mentions
       PROVE  QAEntities[e].paper = claims[i].paper
  BY <1>11, <1>15, ClaimsAreGrounded
<1>16. ASSUME answered, version = "v1.2", result.final = "answered", NEW e \in question.requested
       PROVE  \E p \in question.top : QAPassages[p].paper = QAEntities[e].paper
  <2>1. QACoverage(question, claims) # "partial" /\ QACoverage(question, claims) # "none"
    BY <1>2, <1>3, <1>8, <1>16 DEF CoverageVerdict
  <2>2. Covered(question, claims, e)
    BY <2>1 DEF QACoverage
  <2>3. CASE QAEntities[e].type = "model"
    <3>1. PICK i \in DOMAIN claims : claims[i].paper = QAEntities[e].paper
      BY <2>2, <2>3 DEF Covered
    <3>2. claims[i].paper \in PapersOf(question.top)
      BY <1>11, <1>16, ClaimsAreGrounded
    <3> QED
      BY <3>1, <3>2 DEF PapersOf
  <2>4. CASE QAEntities[e].type # "model"
    BY <2>2, <2>4 DEF Covered
  <2> QED
    BY <2>3, <2>4
<1> HIDE DEF answered
<1>17. result.answer = "answered" =>
            /\ claims # <<>> /\ reply.shape # "foreign_envelope"
            /\ \A i \in DOMAIN claims :
                /\ claims[i].citations # <<>>
                /\ \A j \in DOMAIN claims[i].citations : LET citation == claims[i].citations[j] IN
                    /\ citation.passage \in question.top
                    /\ citation.quote.exact + citation.quote.whitespace + citation.quote.safe > 0
                    /\ version = "v1" => citation.quote.exact <= 1
                    /\ version # "v1" =>
                        /\ QAPassages[citation.passage].paper = claims[i].paper
                        /\ citation.quote.exact > 1 => ~citation.quote.cross
            /\ version = "v1.2" =>
                /\ \A e \in question.requested : QAEntities[e].type = "model" =>
                    \/ \E i \in DOMAIN claims : claims[i].entity = e /\ claims[i].paper = QAEntities[e].paper
                    \/ \A p \in question.top : QAPassages[p].paper # QAEntities[e].paper
                /\ \A i \in DOMAIN claims, e \in DOMAIN QAEntities :
                    e \in claims[i].mentions => QAEntities[e].paper = claims[i].paper
                /\ result.final = "answered" => \A e \in question.requested : \E p \in question.top :
                    QAPassages[p].paper = QAEntities[e].paper
  BY <1>4, <1>12, <1>13, <1>14, <1>15, <1>16
<1> QED
  BY <1>5, <1>6, <1>7, <1>17 DEF Grounded, result

\* What is not shown as an answer needs no evidence.
LEMMA NothingIsGrounded ==
  ASSUME NEW version, NEW question
  PROVE  /\ Grounded(version, question, Unanswered, NoOutcome.result)
         /\ version # "v1.2" => Grounded(version, question, Unanswered, ReplayFailure)
<1>1. NoOutcome.result.execution = "none" /\ NoOutcome.result.answer = "none"
  BY DEF NoOutcome
<1>2. /\ ReplayFailure.execution = "transport_failed" /\ ReplayFailure.answer = "insufficient_evidence"
      /\ ReplayFailure.shows = "failure"
  BY DEF ReplayFailure
<1>3. InReview(version, NoOutcome.result) = "none" /\ InReview(version, ReplayFailure) = "none"
  BY <1>1, <1>2 DEF InReview
<1>4. Grounded(version, question, Unanswered, NoOutcome.result)
  BY <1>1, <1>3 DEF Grounded
<1>5. Grounded(version, question, Unanswered, ReplayFailure)
  BY <1>2, <1>3 DEF Grounded
<1> QED
  BY <1>4, <1>5

QAShown == Grounded(qaSetting.version, qaSetting.question, qaOutcome.reply, qaOutcome.result)

LEMMA SettlingIsGrounded ==
  ASSUME QAShape, QAShown, UNCHANGED qaSetting, NEW reply \in ReplyShape, Settles(reply)
  PROVE  QAShown'
<1> DEFINE result == Judged(qaSetting.version, qaSetting.question, reply)
<1>1. Grounded(qaSetting.version, qaSetting.question, reply, result)
  BY JudgedIsGrounded DEF QAShape
<1>2. qaOutcome' = qaOutcome \/ qaOutcome' = [reply |-> reply, result |-> result]
  BY DEF Settles
<1> HIDE DEF result
<1>3. CASE qaOutcome' = qaOutcome
  BY <1>3 DEF QAShown
<1>4. CASE qaOutcome' = [reply |-> reply, result |-> result]
  <2>1. qaOutcome'.reply = reply /\ qaOutcome'.result = result /\ qaSetting' = qaSetting
    BY <1>4
  <2> QED
    BY <1>1, <2>1 DEF QAShown
<1> QED
  BY <1>2, <1>3, <1>4

LEMMA QAShownKeeps ==
  ASSUME QAInv, QAShown, [QANext]_qaVars
  PROVE  QAShown'
<1>1. QAShape
  BY DEF QAInv
<1>2. CASE UNCHANGED <<qaSetting, qaOutcome>>
  BY <1>2 DEF QAShown
<1>3. CASE QAReuses
  <2>1. OnDisk /\ qaDisk.raw[QAKey] # Unanswered /\ Settles(qaDisk.raw[QAKey]) /\ UNCHANGED qaSetting
    BY <1>3 DEF QAReuses, Reusable
  <2>2. QAKey \in QAKeys
    BY <1>1, <2>1, QAKeyIsAKey
  <2>3. qaDisk.raw[QAKey] \in ReplyShape
    BY <1>1, <2>1, <2>2 DEF QAShape
  <2> QED
    BY <1>1, <2>1, <2>3, SettlingIsGrounded
<1>4. CASE QACallRaises
  <2>1. PICK reply \in QAReplies[qaSetting.version] : Settles(reply)
    BY <1>4 DEF QACallRaises
  <2>2. reply \in ReplyShape /\ UNCHANGED qaSetting
    BY <1>1, <1>4, <2>1, RepliesAnswer DEF QAShape, QACallRaises
  <2> QED
    BY <1>1, <2>1, <2>2, SettlingIsGrounded
<1>5. CASE QACall
  <2>1. qaOutcome' = NoOutcome /\ UNCHANGED qaSetting
    BY <1>5 DEF QACall
  <2>2. qaOutcome'.reply = Unanswered /\ qaOutcome'.result = NoOutcome.result
    BY <2>1 DEF NoOutcome
  <2> QED
    BY <2>1, <2>2, NothingIsGrounded DEF QAShown
<1>6. CASE QACheckpoints
  <2>1. qaReply \in ReplyShape /\ Settles(qaReply) /\ UNCHANGED qaSetting
    BY <1>1, <1>6 DEF QACheckpoints, QAShape
  <2> QED
    BY <1>1, <2>1, SettlingIsGrounded
<1>7. CASE QABegins \/ QAEnds \/ QADies \/ UNCHANGED qaVars
  BY <1>2, <1>7 DEF QABegins, QAEnds, QADies, qaVars
<1> QED
  BY <1>3, <1>4, <1>5, <1>6, <1>7 DEF QANext

\* However a question answering run dies, resumes and repairs, the last question it settled is
\* shown with the evidence its version asks for, or not as an answer.
THEOREM QAShownHolds == QASpec => []QAShown
<1>1. QAInit => QAShown
  <2> SUFFICES ASSUME QAInit
               PROVE  QAShown
    OBVIOUS
  <2>1. qaOutcome.reply = Unanswered /\ qaOutcome.result = NoOutcome.result
    BY DEF QAInit, NoOutcome
  <2> QED
    BY <2>1, NothingIsGrounded DEF QAShown
<1>2. QAInv /\ QAShown /\ [QANext]_qaVars => QAShown'
  BY QAShownKeeps
<1> QED
  BY <1>1, <1>2, QAInvHolds, PTL DEF QASpec

---------------------------------------------------------------------------
(* The replays of question answering *)

ReplaySpec == ReplayInit /\ [][ReplayNext]_replayVars

ShownRightly(q, shown) ==
    /\ Grounded(replaySource.version, replaySource.question, shown.reply, shown.result)
    /\ replaySource.fresh =>
        (shown.result.execution = "success" <=> Reported(replaySource.replies[q]) = "success")
ReplayInv ==
    /\ replaySource \in QASources
    /\ \E S : replayShown \in Seq(S)
    /\ Len(replayShown) <= Len(replaySource.replies)
    /\ \A q \in DOMAIN replayShown : ShownRightly(q, replayShown[q])

LEMMA ReplaysAreOfResponses ==
  ASSUME replaySource \in QASources
  PROVE  /\ replaySource.version \in {"v1", "v1.1"} /\ replaySource.version \in Versions
         /\ Len(replaySource.replies) \in Nat
         /\ DOMAIN replaySource.replies = 1..Len(replaySource.replies)
         /\ \A q \in DOMAIN replaySource.replies :
              /\ replaySource.replies[q] \in Seq(ReplyShape) /\ Len(replaySource.replies[q]) <= 2
              /\ replaySource.fresh /\ Len(replaySource.replies[q]) = 2 =>
                    ReplayJudged(replaySource.replies[q][1]).execution = "transport_failed"
         /\ replaySource.version = "v1.1" /\ replaySource.sound =>
              Len(replaySource.replies) = 1 /\ Len(replaySource.replies[1]) = 1
<1> DEFINE Responses == Seq(ReplyShape)
           source == replaySource
<1>1. /\ source.version \in {"v1", "v1.1"} /\ source.replies \in Seq(Responses)
      /\ source.version = "v1.1" /\ source.sound => Len(source.replies) = 1 /\ Len(source.replies[1]) = 1
      /\ \A q \in DOMAIN source.replies :
          /\ Len(source.replies[q]) <= 2
          /\ source.fresh /\ Len(source.replies[q]) = 2 =>
              Judged(source.version, source.question, source.replies[q][1]).execution = "transport_failed"
  BY QAReplayConstants
<1> HIDE DEF Responses
<1>2. /\ Len(source.replies) \in Nat /\ DOMAIN source.replies = 1..Len(source.replies)
      /\ \A q \in DOMAIN source.replies : source.replies[q] \in Responses
  BY <1>1
<1> QED
  BY <1>1, <1>2 DEF Responses, Versions, ReplayJudged

\* The replay of a question shows what its responses support, as the run did.
LEMMA ChosenIsRight ==
  ASSUME replaySource \in QASources, replaySource.version = "v1",
         NEW q \in DOMAIN replaySource.replies, ~Missing(replaySource.replies[q])
  PROVE  ShownRightly(q, Chosen(replaySource.replies[q]))
<1> DEFINE replies == replaySource.replies[q]
           read == {i \in DOMAIN replies : Succeeds(replies[i])}
           first == CHOOSE i \in read : \A j \in read : i <= j
<1>1. /\ replies \in Seq(ReplyShape) /\ Len(replies) <= 2 /\ replies # <<>>
      /\ Len(replies) = 1 => Succeeds(replies[1])
      /\ replaySource.fresh /\ Len(replies) = 2 => ReplayJudged(replies[1]).execution = "transport_failed"
  BY ReplaysAreOfResponses DEF Missing
<1>2. Reported(replies) =
        IF replies = <<>> THEN "provider_failed"
        ELSE IF ReplayJudged(replies[1]).execution # "transport_failed" THEN ReplayJudged(replies[1]).execution
        ELSE IF Len(replies) = 1 THEN "provider_failed" ELSE ReplayJudged(replies[2]).execution
  BY DEF Reported
<1>3. Chosen(replies) = IF read = {} THEN [reply |-> Unanswered, result |-> ReplayFailure]
                        ELSE [reply |-> replies[first], result |-> ReplayJudged(replies[first])]
  BY DEF Chosen
<1>4. \A i : Succeeds(replies[i]) <=> ReplayJudged(replies[i]).execution = "success"
  BY DEF Succeeds
<1> HIDE DEF replies
<1>5. Len(replies) \in {1, 2} /\ DOMAIN replies = 1..Len(replies)
  <2>1. Len(replies) \in Nat /\ DOMAIN replies = 1..Len(replies)
    BY <1>1
  <2>2. Len(replies) # 0
    BY <1>1
  <2> QED
    BY <1>1, <2>1, <2>2
<1>6. CASE read = {}
  <2>1. Chosen(replies).reply = Unanswered /\ Chosen(replies).result = ReplayFailure
    <3> HIDE DEF read
    <3> QED
      BY <1>3, <1>6
  <2>2. ReplayFailure.execution = "transport_failed"
    BY DEF ReplayFailure
  <2>3. \A i \in DOMAIN replies : ReplayJudged(replies[i]).execution # "success"
    BY <1>4, <1>6
  <2>4. Len(replies) = 2
    BY <1>1, <1>4, <1>5, <2>3
  <2>5. Reported(replies) # "success"
    BY <1>2, <1>5, <2>3, <2>4
  <2>6. Grounded(replaySource.version, replaySource.question, Unanswered, ReplayFailure)
    BY NothingIsGrounded
  <2> QED
    BY <2>1, <2>2, <2>5, <2>6 DEF ShownRightly, replies
<1>7. CASE read # {}
  <2>1. first \in read /\ \A j \in read : first <= j
    <3>1. read \in SUBSET Nat
      BY <1>5
    <3> HIDE DEF read
    <3> QED
      BY <1>7, <3>1, LeastNumber
  <2> HIDE DEF first
  <2>2. first \in DOMAIN replies /\ ReplayJudged(replies[first]).execution = "success"
    BY <1>4, <2>1
  <2>3. first = 2 => ReplayJudged(replies[1]).execution # "success"
    BY <1>4, <1>5, <2>1
  <2> HIDE DEF read
  <2>4. Chosen(replies).reply = replies[first] /\ Chosen(replies).result = ReplayJudged(replies[first])
    BY <1>3, <1>7
  <2>5. replies[first] \in ReplyShape
    BY <1>1, <2>2
  <2>6. Grounded(replaySource.version, replaySource.question, replies[first], ReplayJudged(replies[first]))
    BY <2>5, JudgedIsGrounded, ReplaysAreOfResponses DEF ReplayJudged
  <2>7. replaySource.fresh => Reported(replies) = "success"
    <3>1. CASE first = 1
      BY <1>1, <1>2, <2>2, <3>1
    <3>2. CASE first = 2
      BY <1>1, <1>2, <1>5, <2>2, <3>2
    <3> QED
      BY <1>5, <2>2, <3>1, <3>2
  <2> QED
    BY <2>2, <2>4, <2>6, <2>7 DEF ShownRightly, replies
<1> QED
  BY <1>6, <1>7

LEMMA ReplayKeepsInv ==
  ASSUME ReplayInv, [ReplayNext]_replayVars
  PROVE  ReplayInv'
<1>1. PICK S : replayShown \in Seq(S)
  BY DEF ReplayInv
<1>2. /\ replaySource \in QASources /\ Len(replayShown) <= Len(replaySource.replies)
      /\ \A q \in DOMAIN replayShown : ShownRightly(q, replayShown[q])
      /\ Len(replayShown) \in Nat /\ DOMAIN replayShown = 1..Len(replayShown)
      /\ Len(replaySource.replies) \in Nat
      /\ DOMAIN replaySource.replies = 1..Len(replaySource.replies)
  BY <1>1, ReplaysAreOfResponses DEF ReplayInv
<1>3. replaySource' = replaySource
  BY DEF ReplayNext, QAReplayBegins, ReplayStops, ReplayQuestion, ReplayCanary, ReplayEnds, ReplayDies, replayVars
<1>4. \A q, shown : ShownRightly(q, shown)' <=> ShownRightly(q, shown)
  BY <1>3 DEF ShownRightly, Reported, ReplayJudged
<1>5. CASE replayShown' = replayShown
  BY <1>2, <1>3, <1>4, <1>5 DEF ReplayInv
<1>6. CASE replayShown' = <<>>
  <2>1. <<>> \in Seq(S) /\ Len(<<>>) = 0 /\ DOMAIN <<>> = {}
    OBVIOUS
  <2> QED
    BY <1>2, <1>3, <1>6, <2>1 DEF ReplayInv
<1>7. CASE ReplayQuestion
  <2> DEFINE n == Len(replayShown) + 1
             shown == Chosen(replaySource.replies[n])
  <2>1. /\ replaySource.version = "v1" /\ Len(replayShown) < Len(replaySource.replies)
        /\ ~Missing(replaySource.replies[n]) /\ replayShown' = Append(replayShown, shown)
    BY <1>7 DEF ReplayQuestion, Replaying, Question
  <2>2. n \in DOMAIN replaySource.replies
    BY <1>2, <2>1
  <2>3. ShownRightly(n, shown)
    BY <1>2, <2>1, <2>2, ChosenIsRight
  <2> HIDE DEF shown
  <2>4. /\ replayShown' \in Seq(S \cup {shown}) /\ Len(replayShown') = n
        /\ DOMAIN replayShown' = 1..n
        /\ \A q \in 1..n : replayShown'[q] = IF q = n THEN shown ELSE replayShown[q]
    <3>1. replayShown \in Seq(S \cup {shown}) /\ shown \in S \cup {shown}
      BY <1>1
    <3> QED
      BY <2>1, <3>1
  <2>5. \A q \in DOMAIN replayShown' : ShownRightly(q, replayShown'[q])
    BY <1>2, <2>3, <2>4
  <2>6. Len(replayShown') <= Len(replaySource.replies)
    BY <1>2, <2>1, <2>4
  <2> QED
    BY <1>2, <1>3, <1>4, <2>4, <2>5, <2>6 DEF ReplayInv
<1>8. CASE ReplayCanary
  <2> DEFINE reply == replaySource.replies[1][1]
             shown == [reply |-> reply, result |-> ReplayJudged(reply)]
  <2>1. /\ replaySource.version = "v1.1" /\ replaySource.sound /\ Len(replayShown) < Len(replaySource.replies)
        /\ replayShown' = <<[reply |-> Question[1], result |-> ReplayJudged(Question[1])]>>
    BY <1>8 DEF ReplayCanary, Replaying
  <2>2. Len(replaySource.replies) = 1 /\ Len(replaySource.replies[1]) = 1 /\ replaySource.version \in Versions
        /\ replaySource.replies[1] \in Seq(ReplyShape)
    BY <1>2, <2>1, ReplaysAreOfResponses
  <2>3. Len(replayShown) = 0
    BY <1>2, <2>1, <2>2
  <2>4. Question = replaySource.replies[1]
    BY <2>3 DEF Question
  <2>5. replayShown' = <<shown>>
    BY <2>1, <2>4
  <2>6. reply \in ReplyShape
    BY <2>2
  <2>7. Grounded(replaySource.version, replaySource.question, reply, ReplayJudged(reply))
    BY <2>2, <2>6, JudgedIsGrounded DEF ReplayJudged
  <2>8. Reported(replaySource.replies[1]) = "success" <=> ReplayJudged(reply).execution = "success"
    <3>1. replaySource.replies[1] # <<>>
      BY <2>2
    <3> QED
      BY <2>2, <3>1 DEF Reported
  <2>9. ShownRightly(1, shown)
    <3>1. shown.reply = reply /\ shown.result = ReplayJudged(reply)
      OBVIOUS
    <3> HIDE DEF shown, reply
    <3> QED
      BY <2>7, <2>8, <3>1 DEF ShownRightly
  <2> HIDE DEF shown, reply
  <2>10. /\ replayShown' \in Seq({shown}) /\ Len(replayShown') = 1 /\ DOMAIN replayShown' = {1} /\ replayShown'[1] = shown
    BY <2>5
  <2> QED
    BY <1>2, <1>3, <1>4, <2>2, <2>9, <2>10 DEF ReplayInv
<1>9. CASE QAReplayBegins \/ ReplayStops \/ ReplayEnds \/ ReplayDies \/ UNCHANGED replayVars
  BY <1>5, <1>6, <1>9 DEF QAReplayBegins, ReplayStops, ReplayEnds, ReplayDies, replayVars
<1> QED
  BY <1>7, <1>8, <1>9 DEF ReplayNext

\* What a replay shows is grounded, and succeeds where the run it replays succeeded.
THEOREM ReplayInvHolds == ReplaySpec => []ReplayInv
<1>1. ReplayInit => ReplayInv
  <2> SUFFICES ASSUME ReplayInit
               PROVE  ReplayInv
    OBVIOUS
  <2>1. replaySource \in QASources /\ replayShown = <<>>
    BY DEF ReplayInit
  <2>2. <<>> \in Seq({}) /\ Len(<<>>) = 0 /\ DOMAIN <<>> = {}
    OBVIOUS
  <2>3. Len(replaySource.replies) \in Nat
    BY <2>1, ReplaysAreOfResponses
  <2> QED
    BY <2>1, <2>2, <2>3 DEF ReplayInv
<1>2. ReplayInv /\ [ReplayNext]_replayVars => ReplayInv'
  BY ReplayKeepsInv
<1> QED
  BY <1>1, <1>2, PTL DEF ReplaySpec

\* Whatever the model replies, in every version, run and replay of rag/qa.py an answer is only
\* shown with evidence the reader can check, and what is not verified never as an answer.
THEOREM AnswersGrounded == QASpec /\ ReplaySpec => []AnswersAreGrounded
<1>1. QAShown /\ ReplayInv => AnswersAreGrounded
  BY DEF QAShown, ReplayInv, ShownRightly, AnswersAreGrounded
<1> QED
  BY <1>1, QAShownHolds, ReplayInvHolds, PTL

---------------------------------------------------------------------------
(* The vault: what the reader wrote *)

VaultSpec == VaultInit /\ [][VaultNext]_vaultVars

VaultNote ==
    [key : STRING \cup {"none"}, readable : BOOLEAN, text : SUBSET Edits, inside : SUBSET Edits,
     section : Sections \cup {"none"}, regions : 0..2]
VaultNotes == {NoNote} \cup VaultNote
BackupNames == Files \X (0..MaxSeconds)
Paper == [key : STRING, file : Files \cup {"none"}]
WriteJob == [op : {"write"}, papers : Seq(Paper), overwrite : BOOLEAN, indexed : SUBSET (STRING \cup {"none"})]
ApplyJob == [op : {"backup", "apply"}, target : Files, read : VaultNote, second : 0..MaxSeconds]

VaultShape ==
    /\ notes \in [Files -> VaultNotes] /\ backups \in [BackupNames -> VaultNotes]
    /\ vaultJob \in {Idle} \cup WriteJob \cup ApplyJob
    /\ preview \in Sections \cup {"none"} /\ renames \in SUBSET [from : Files, to : Files]
    /\ seconds \in 0..MaxSeconds /\ vaultEdited \in SUBSET Edits

BackupAt == <<vaultJob.target, vaultJob.second>>
\* What the write of an update replaces is in the backup it made, or was forsaken since.
TargetSaved ==
    vaultJob.op = "apply" =>
        TextOf(notes[vaultJob.target]) \subseteq TextOf(backups[BackupAt]) \cup vaultForsaken
Survives(edit) ==
    \/ \E file \in Files : edit \in TextOf(notes[file])
    \/ \E at \in BackupNames : edit \in TextOf(backups[at])
    \/ edit \in vaultForsaken
VaultInv == VaultShape /\ TargetSaved /\ \A edit \in vaultEdited : Survives(edit)

LEMMA NotesDiffer ==
  /\ NoNote \notin VaultNote
  /\ \A key \in STRING : FreshNote(key) \in VaultNote /\ FreshNote(key) # NoNote /\ TextOf(FreshNote(key)) = {}
  /\ Truncated \in VaultNote /\ Truncated # NoNote /\ TextOf(Truncated) = {}
  /\ TextOf(NoNote) = {}
  /\ \A note \in VaultNote : TextOf(note) = note.text /\ note # NoNote
<1>1. "text" \notin DOMAIN NoNote
  BY DEF NoNote
<1>2. \A note \in VaultNote : "text" \in DOMAIN note
  BY DEF VaultNote
<1>3. \A note \in VaultNote : note # NoNote
  BY <1>1, <1>2
<1>4. \A key \in STRING : FreshNote(key) \in VaultNote /\ FreshNote(key).text = {}
  BY DEF FreshNote, VaultNote
<1>5. Truncated \in VaultNote /\ Truncated.text = {}
  BY DEF Truncated, VaultNote
<1> QED
  BY <1>3, <1>4, <1>5 DEF TextOf

LEMMA JobsDiffer ==
  /\ Idle.op = "idle"
  /\ \A job \in WriteJob : job.op = "write" /\ job # Idle
  /\ \A job \in ApplyJob : job.op \in {"backup", "apply"} /\ job # Idle
BY DEF Idle, WriteJob, ApplyJob

\* What a step leaves of every text it finds, and of the text written in it, is enough.
LEMMA TextsSurvive ==
  ASSUME \A edit \in vaultEdited : Survives(edit),
         \A file \in Files : \A edit \in TextOf(notes[file]) : Survives(edit)',
         \A at \in BackupNames : \A edit \in TextOf(backups[at]) : Survives(edit)',
         vaultForsaken \subseteq vaultForsaken',
         \A edit \in vaultEdited' : edit \in vaultEdited \/ Survives(edit)'
  PROVE  \A edit \in vaultEdited' : Survives(edit)'
<1>1. \A edit \in vaultForsaken : Survives(edit)'
  BY DEF Survives
<1> QED
  BY <1>1 DEF Survives

\* A step that leaves notes and backups alone.
LEMMA QuietKeepsVault ==
  ASSUME VaultInv, UNCHANGED <<notes, backups, vaultEdited, vaultForsaken>>,
         vaultJob' \in {Idle} \cup WriteJob \cup ApplyJob,
         vaultJob'.op = "apply" => vaultJob' = vaultJob,
         preview' \in Sections \cup {"none"}, renames' \in SUBSET [from : Files, to : Files],
         seconds' \in 0..MaxSeconds
  PROVE  VaultInv'
<1>1. VaultShape'
  BY DEF VaultInv, VaultShape
<1>2. TargetSaved'
  BY DEF VaultInv, TargetSaved, BackupAt
<1>3. \A edit \in vaultEdited' : Survives(edit)'
  BY DEF VaultInv, Survives
<1> QED
  BY <1>1, <1>2, <1>3 DEF VaultInv

\* A note that is replaced, by one without text.
LEMMA ReplacingKeepsTexts ==
  ASSUME VaultInv, NEW replaced \in SUBSET Files, NEW fresh \in VaultNote,
         \A file \in Files : notes'[file] = IF file \in replaced THEN fresh ELSE notes[file],
         \A file \in replaced : TextOf(notes[file]) \subseteq vaultForsaken'
                                    \cup UNION {TextOf(backups[at]) : at \in BackupNames},
         vaultForsaken \subseteq vaultForsaken', UNCHANGED <<backups, vaultEdited>>
  PROVE  \A edit \in vaultEdited' : Survives(edit)'
<1>1. \A at \in BackupNames : \A edit \in TextOf(backups[at]) : Survives(edit)'
  BY DEF Survives
<1>2. \A edit \in vaultForsaken' : Survives(edit)'
  BY DEF Survives
<1>3. ASSUME NEW file \in Files, NEW edit \in TextOf(notes[file])
      PROVE  Survives(edit)'
  <2>1. CASE file \in replaced
    BY <1>1, <1>2, <1>3, <2>1
  <2>2. CASE file \notin replaced
    <3>1. notes'[file] = notes[file]
      BY <2>2
    <3>2. edit \in TextOf(notes'[file])
      BY <1>3, <3>1
    <3>3. TextOf(notes'[file]) = TextOf(notes[file])'
      BY DEF TextOf
    <3> QED
      BY <3>2, <3>3 DEF Survives
  <2> QED
    BY <2>1, <2>2
<1> QED
  BY <1>1, <1>3, TextsSurvive DEF VaultInv

LEMMA KeysAreKeys ==
  ASSUME VaultShape
  PROVE  /\ \A file \in Files : notes[file].key \in STRING \cup {"none"}
         /\ KeysIndexed \in SUBSET (STRING \cup {"none"})
<1>1. \A note \in VaultNote : note.key \in STRING \cup {"none"}
  BY DEF VaultNote
<1>2. NoNote.key = "none"
  BY DEF NoNote
<1>3. \A file \in Files : notes[file].key \in STRING \cup {"none"}
  BY <1>1, <1>2 DEF VaultShape, VaultNotes
<1> QED
  BY <1>3 DEF KeysIndexed

\* The note a key leads to is one that is there.
LEMMA KeysLeadToNotes ==
  \A key : NoteWith(key) # "none" => NoteWith(key) \in Files
<1> SUFFICES ASSUME NEW key, NoteWith(key) # "none"
             PROVE  NoteWith(key) \in Files
  OBVIOUS
<1> DEFINE found == {i \in DOMAIN VaultFiles : HasKey(VaultFiles[i], key)}
           first == CHOOSE i \in found : \A j \in found : i <= j
<1>1. found # {} /\ NoteWith(key) = VaultFiles[first]
  BY DEF NoteWith
<1>2. found \in SUBSET Nat
  BY VaultConstants
<1>3. first \in found
  <2> HIDE DEF found
  <2> QED
    BY <1>1, <1>2, LeastNumber
<1> QED
  BY <1>1, <1>3 DEF Files

LEMMA WriterStartsKeeps ==
  ASSUME VaultInv, WriterStarts
  PROVE  VaultInv'
<1>1. PICK papers \in PaperLists, overwrite \in BOOLEAN :
        Starts([op |-> "write", papers |-> papers, overwrite |-> overwrite, indexed |-> KeysIndexed])
  BY DEF WriterStarts
<1>2. /\ vaultJob' = [op |-> "write", papers |-> papers, overwrite |-> overwrite, indexed |-> KeysIndexed]
      /\ UNCHANGED <<notes, preview, renames, backups, seconds, vaultEdited, vaultForsaken>>
  BY <1>1 DEF Starts, WriterStarts
<1>3. papers \in Seq(Paper)
  BY VaultConstants DEF Paper
<1>4. vaultJob' \in WriteJob /\ vaultJob'.op = "write"
  BY <1>2, <1>3, KeysAreKeys DEF WriteJob, VaultInv
<1> QED
  BY <1>2, <1>4, QuietKeepsVault DEF VaultInv, VaultShape

LEMMA PlanMigrationKeeps ==
  ASSUME VaultInv, PlanMigration
  PROVE  VaultInv'
<1>1. PICK papers \in PaperLists :
        renames' = {[from |-> NoteWith(papers[i].key), to |-> papers[i].file] :
                        i \in {j \in DOMAIN papers : PlanAction(papers[j]) = "rename_recommended"}}
  BY DEF PlanMigration
<1>2. vaultJob' = Idle /\ UNCHANGED <<notes, preview, backups, seconds, vaultEdited, vaultForsaken>>
  BY DEF PlanMigration, Starts
<1>3. \A paper : PlanAction(paper) = "rename_recommended" => paper.file # "none" /\ NoteWith(paper.key) # "none"
  <2> TAKE paper
  <2> DEFINE current == NoteWith(paper.key)
  <2>1. CASE paper.file = "none"
    BY <2>1 DEF PlanAction
  <2>2. CASE paper.file # "none" /\ current = "none" /\ ~Exists(paper.file)
    BY <2>2 DEF PlanAction
  <2>3. CASE paper.file # "none" /\ Exists(paper.file) /\ current = "none"
    BY <2>3 DEF PlanAction
  <2> QED
    BY <2>1, <2>2, <2>3
<1>4. papers \in Seq(Paper)
  BY VaultConstants DEF Paper
<1>5. \A i \in DOMAIN papers : papers[i].file \in Files \cup {"none"}
  <2>1. \A i \in DOMAIN papers : papers[i] \in Paper
    BY <1>4
  <2> QED
    BY <2>1 DEF Paper
<1>6. renames' \in SUBSET [from : Files, to : Files]
  BY <1>1, <1>3, <1>5, KeysLeadToNotes
<1> QED
  BY <1>2, <1>6, QuietKeepsVault, JobsDiffer DEF VaultInv, VaultShape

LEMMA PreviewUpdateKeeps ==
  ASSUME VaultInv, PreviewUpdate
  PROVE  VaultInv'
<1>1. /\ vaultJob' = Idle /\ preview' \in Sections \cup {preview}
      /\ UNCHANGED <<notes, renames, backups, seconds, vaultEdited, vaultForsaken>>
  BY DEF PreviewUpdate, Starts
<1> QED
  BY <1>1, QuietKeepsVault, JobsDiffer DEF VaultInv, VaultShape

LEMMA ApplyReadsKeeps ==
  ASSUME VaultInv, ApplyReads
  PROVE  VaultInv'
<1>1. PICK target \in Files :
        /\ Exists(target)
        /\ \/ Starts([op |-> "backup", target |-> target, read |-> notes[target], second |-> seconds])
           \/ Starts(Idle)
  BY DEF ApplyReads
<1>2. UNCHANGED <<notes, preview, renames, backups, seconds, vaultEdited, vaultForsaken>>
  BY DEF ApplyReads
<1>3. notes[target] \in VaultNote /\ seconds \in 0..MaxSeconds
  BY <1>1 DEF Exists, VaultInv, VaultShape, VaultNotes
<1>4. vaultJob' \in {Idle} \cup ApplyJob /\ vaultJob'.op # "apply"
  BY <1>1, <1>3, JobsDiffer DEF Starts, ApplyJob
<1> QED
  BY <1>2, <1>4, QuietKeepsVault DEF VaultInv, VaultShape

LEMMA ApplyingKnowsItsTarget ==
  ASSUME VaultShape, vaultJob.op \in {"backup", "apply"}
  PROVE  vaultJob \in ApplyJob /\ vaultJob.target \in Files /\ vaultJob.read \in VaultNote
         /\ vaultJob.second \in 0..MaxSeconds /\ BackupAt \in BackupNames
<1>1. vaultJob \in ApplyJob
  BY JobsDiffer DEF VaultShape
<1> QED
  BY <1>1 DEF ApplyJob, BackupAt, BackupNames

LEMMA ApplyBacksUpKeeps ==
  ASSUME VaultInv, ApplyBacksUp
  PROVE  VaultInv'
<1> DEFINE target == vaultJob.target
           at == BackupAt
<1>1. /\ vaultJob.op = "backup" /\ Exists(target)
      /\ backups' = [backups EXCEPT ![at] = notes[target]]
      /\ vaultForsaken' = vaultForsaken \cup TextOf(backups[at])
      /\ vaultJob' = [vaultJob EXCEPT !.op = "apply"]
      /\ UNCHANGED <<notes, preview, renames, seconds, vaultEdited>>
  BY DEF ApplyBacksUp, Backup, BackupAt
<1>2. VaultShape /\ vaultJob \in ApplyJob /\ target \in Files /\ at \in BackupNames
  BY <1>1, ApplyingKnowsItsTarget DEF VaultInv
<1>3. vaultJob' \in ApplyJob /\ vaultJob'.target = target /\ BackupAt' = at
  BY <1>1, <1>2 DEF ApplyJob, BackupAt
<1>4. /\ \A name \in BackupNames : backups'[name] = IF name = at THEN notes[target] ELSE backups[name]
      /\ backups' \in [BackupNames -> VaultNotes]
  BY <1>1, <1>2 DEF VaultShape
<1> HIDE DEF target, at
<1>5. VaultShape'
  BY <1>1, <1>2, <1>3, <1>4 DEF VaultShape
<1>6. TargetSaved'
  <2>1. backups'[at] = notes[target]
    BY <1>2, <1>4
  <2>2. TextOf(notes'[target]) = TextOf(backups'[at])
    BY <1>1, <2>1
  <2> QED
    BY <1>3, <2>2 DEF TargetSaved, TextOf
<1>7. \A edit \in vaultEdited' : Survives(edit)'
  <2>1. \A file \in Files : \A edit \in TextOf(notes[file]) : Survives(edit)'
    BY <1>1 DEF Survives
  <2>2. ASSUME NEW name \in BackupNames, NEW edit \in TextOf(backups[name])
        PROVE  Survives(edit)'
    <3>1. CASE name = at
      BY <1>1, <2>2, <3>1 DEF Survives
    <3>2. CASE name # at
      <4>1. TextOf(backups'[name]) = TextOf(backups[name])
        BY <1>4, <3>2
      <4>2. edit \in TextOf(backups[name])'
        BY <2>2, <4>1 DEF TextOf
      <4> QED
        BY <4>2 DEF Survives
    <3> QED
      BY <3>1, <3>2
  <2> QED
    BY <1>1, <2>1, <2>2, TextsSurvive DEF VaultInv
<1> QED
  BY <1>5, <1>6, <1>7 DEF VaultInv

LEMMA BackupFailsKeeps ==
  ASSUME VaultInv, BackupFails
  PROVE  VaultInv'
<1>1. vaultJob' = Idle /\ UNCHANGED <<notes, preview, renames, backups, seconds, vaultEdited, vaultForsaken>>
  BY DEF BackupFails
<1> QED
  BY <1>1, QuietKeepsVault, JobsDiffer DEF VaultInv, VaultShape

\* The write of an update replaces only what its backup, or vaultForsaken, has.
LEMMA ApplyWritesKeeps ==
  ASSUME VaultInv, ApplyWrites
  PROVE  VaultInv'
<1> DEFINE target == vaultJob.target
           fresh == WithSection(vaultJob.read, preview)
<1>1. /\ vaultJob.op = "apply" /\ notes' = [notes EXCEPT ![target] = fresh] /\ vaultJob' = Idle
      /\ UNCHANGED <<preview, renames, backups, seconds, vaultEdited, vaultForsaken>>
  BY DEF ApplyWrites
<1>2. VaultShape /\ target \in Files /\ vaultJob.read \in VaultNote /\ BackupAt \in BackupNames
  BY <1>1, ApplyingKnowsItsTarget DEF VaultInv
<1>3. fresh \in VaultNote
  <2> DEFINE regions == IF preview = "marked" THEN 2 ELSE 1
  <2>1. \A note \in VaultNote :
            note = [key |-> note.key, readable |-> note.readable, text |-> note.text, inside |-> note.inside,
                    section |-> note.section, regions |-> note.regions]
    BY DEF VaultNote
  <2>2. regions \in 0..2 /\ preview \in Sections \cup {"none"}
    BY <1>2 DEF VaultShape
  <2> HIDE DEF regions
  <2>4. ASSUME NEW note \in VaultNote
        PROVE  WithSection(note, preview) =
                  [key |-> note.key, readable |-> note.readable, text |-> note.text \ note.inside, inside |-> {},
                   section |-> preview, regions |-> regions]
    <3>1. PICK key, readable, text, inside, section, number :
            note = [key |-> key, readable |-> readable, text |-> text, inside |-> inside, section |-> section, regions |-> number]
      BY <2>1
    <3>2. note.text \ note.inside = text \ inside /\ note.key = key /\ note.readable = readable
      BY <3>1
    <3>3. WithSection(note, preview) =
            [note EXCEPT !.section = preview, !.text = note.text \ note.inside, !.inside = {}, !.regions = regions]
      BY DEF WithSection, regions
    <3> QED
      BY <3>1, <3>2, <3>3
  <2>5. \A note \in VaultNote : note.key \in STRING \cup {"none"} /\ note.readable \in BOOLEAN /\ note.text \in SUBSET Edits
    BY DEF VaultNote
  <2>6. \A note \in VaultNote : WithSection(note, preview) \in VaultNote
    BY <2>2, <2>4, <2>5 DEF VaultNote
  <2> QED
    BY <1>2, <2>6
<1> HIDE DEF fresh
<1>4. /\ \A file \in Files : notes'[file] = IF file \in {target} THEN fresh ELSE notes[file]
      /\ notes' \in [Files -> VaultNotes]
  BY <1>1, <1>2, <1>3 DEF VaultShape, VaultNotes
<1>5. VaultShape' /\ TargetSaved'
  BY <1>1, <1>2, <1>4, JobsDiffer DEF VaultShape, TargetSaved
<1>6. TextOf(notes[target]) \subseteq vaultForsaken' \cup UNION {TextOf(backups[at]) : at \in BackupNames}
  BY <1>1, <1>2 DEF VaultInv, TargetSaved
<1>7. \A edit \in vaultEdited' : Survives(edit)'
  <2> HIDE DEF target
  <2>1. {target} \in SUBSET Files /\ \A file \in {target} : file = target
    BY <1>2
  <2> QED
    BY <1>1, <1>3, <1>4, <1>6, <2>1, ReplacingKeepsTexts
<1> QED
  BY <1>5, <1>7 DEF VaultInv

\* Without overwrite a note is only written where there is none.
LEMMA WriterWritesKeeps ==
  ASSUME VaultInv, WriterWrites
  PROVE  VaultInv'
<1> DEFINE paper == Head(vaultJob.papers)
<1>1. /\ vaultJob.op = "write" /\ vaultJob.papers # <<>>
      /\ IF Skips(vaultJob, paper) THEN UNCHANGED <<notes, vaultForsaken>>
         ELSE /\ notes' = [notes EXCEPT ![paper.file] = FreshNote(paper.key)]
              /\ vaultForsaken' = IF vaultJob.overwrite THEN vaultForsaken \cup TextOf(notes[paper.file])
                                  ELSE vaultForsaken
      /\ vaultJob' = IF Len(vaultJob.papers) = 1 THEN Idle ELSE [vaultJob EXCEPT !.papers = Tail(@)]
      /\ UNCHANGED <<preview, renames, backups, seconds, vaultEdited>>
  BY DEF WriterWrites
<1>2. VaultShape /\ vaultJob \in WriteJob
  BY <1>1, JobsDiffer DEF VaultInv, VaultShape
<1>3. vaultJob.papers \in Seq(Paper) /\ paper \in Paper
  <2>1. vaultJob.papers \in Seq(Paper)
    BY <1>2 DEF WriteJob
  <2> QED
    BY <1>1, <2>1
<1>4. vaultJob' \in {Idle} \cup WriteJob /\ vaultJob'.op # "apply"
  <2>1. CASE Len(vaultJob.papers) = 1
    BY <1>1, <2>1, JobsDiffer
  <2>2. CASE Len(vaultJob.papers) # 1
    <3>1. Tail(vaultJob.papers) \in Seq(Paper)
      BY <1>1, <1>3
    <3>2. vaultJob' = [vaultJob EXCEPT !.papers = Tail(vaultJob.papers)]
      BY <1>1, <2>2
    <3>3. vaultJob' \in WriteJob
      BY <1>2, <3>1, <3>2 DEF WriteJob
    <3> QED
      BY <3>3, JobsDiffer
  <2> QED
    BY <2>1, <2>2
<1>5. CASE Skips(vaultJob, paper)
  <2>1. UNCHANGED <<notes, vaultForsaken>>
    BY <1>1, <1>5
  <2> QED
    BY <1>1, <1>2, <1>4, <2>1, QuietKeepsVault DEF VaultShape
<1>6. CASE ~Skips(vaultJob, paper)
  <2> DEFINE fresh == FreshNote(paper.key)
             replaced == {paper.file} \cap Files
  <2>1. /\ notes' = [notes EXCEPT ![paper.file] = fresh]
        /\ vaultForsaken' = IF vaultJob.overwrite THEN vaultForsaken \cup TextOf(notes[paper.file]) ELSE vaultForsaken
    BY <1>1, <1>6
  <2>2. vaultJob.overwrite \/ notes[paper.file] = NoNote
    BY <1>6 DEF Skips, Exists
  <2>3. paper.key \in STRING
    BY <1>3 DEF Paper
  <2>4. fresh \in VaultNote
    BY <2>3, NotesDiffer
  <2> HIDE DEF fresh, paper
  <2>5. /\ \A file \in Files : notes'[file] = IF file \in replaced THEN fresh ELSE notes[file]
        /\ notes' \in [Files -> VaultNotes]
    BY <1>2, <2>1, <2>4 DEF VaultShape, VaultNotes
  <2>6. VaultShape' /\ TargetSaved'
    BY <1>1, <1>2, <1>4, <2>5 DEF VaultShape, TargetSaved
  <2>7. TextOf(notes[paper.file]) \subseteq vaultForsaken' /\ vaultForsaken \subseteq vaultForsaken'
    BY <2>1, <2>2, NotesDiffer
  <2>8. replaced \in SUBSET Files /\ \A file \in replaced : TextOf(notes[file]) \subseteq vaultForsaken'
    BY <2>7
  <2> HIDE DEF replaced
  <2>9. \A edit \in vaultEdited' : Survives(edit)'
    BY <1>1, <2>4, <2>5, <2>7, <2>8, ReplacingKeepsTexts
  <2> QED
    BY <2>6, <2>9 DEF VaultInv
<1> QED
  BY <1>5, <1>6

LEMMA VaultDiesKeeps ==
  ASSUME VaultInv, VaultDies
  PROVE  VaultInv'
<1> DEFINE replaced == Writing \cap Files
<1>1. /\ vaultJob # Idle /\ vaultJob' = Idle
      /\ notes' = [file \in Files |-> IF file \in Writing THEN Truncated ELSE notes[file]]
      /\ vaultForsaken' = IF vaultJob.op = "write" THEN vaultForsaken \cup UNION {TextOf(notes[file]) : file \in Writing}
                          ELSE vaultForsaken
      /\ UNCHANGED <<preview, renames, backups, seconds, vaultEdited>>
  BY DEF VaultDies
<1>2. VaultShape /\ vaultJob \in WriteJob \cup ApplyJob /\ vaultJob.op \in {"write", "backup", "apply"}
  BY <1>1, JobsDiffer DEF VaultInv, VaultShape
<1>3. \A file \in replaced : TextOf(notes[file]) \subseteq vaultForsaken'
                                \cup UNION {TextOf(backups[at]) : at \in BackupNames}
  <2>1. CASE vaultJob.op = "write"
    BY <1>1, <2>1
  <2>2. CASE vaultJob.op = "apply"
    <3>1. Writing = {vaultJob.target}
      BY <2>2 DEF Writing
    <3>2. BackupAt \in BackupNames
      BY <1>2, <2>2, ApplyingKnowsItsTarget
    <3>3. TextOf(notes[vaultJob.target]) \subseteq TextOf(backups[BackupAt]) \cup vaultForsaken
      BY <2>2 DEF VaultInv, TargetSaved
    <3> QED
      BY <1>1, <2>2, <3>1, <3>2, <3>3
  <2>3. CASE vaultJob.op = "backup"
    <3>1. Writing = {}
      BY <2>3 DEF Writing
    <3> QED
      BY <3>1
  <2> QED
    BY <1>2, <2>1, <2>2, <2>3
<1>4. vaultForsaken \subseteq vaultForsaken'
  BY <1>1
<1>5. replaced \in SUBSET Files /\ \A file \in Files : notes'[file] = IF file \in replaced THEN Truncated ELSE notes[file]
  BY <1>1
<1> HIDE DEF replaced
<1>6. \A edit \in vaultEdited' : Survives(edit)'
  BY <1>1, <1>3, <1>4, <1>5, NotesDiffer, ReplacingKeepsTexts
<1>7. notes' \in [Files -> VaultNotes]
  <2>1. \A file \in Files : (IF file \in Writing THEN Truncated ELSE notes[file]) \in VaultNotes
    BY <1>2, NotesDiffer DEF VaultShape, VaultNotes
  <2> QED
    BY <1>1, <2>1
<1>8. VaultShape' /\ TargetSaved'
  BY <1>1, <1>2, <1>7, JobsDiffer DEF VaultShape, TargetSaved
<1> QED
  BY <1>6, <1>8 DEF VaultInv

\* What the reader adds while an update is about to write over it is forsaken.
LEMMA ReaderEditsKeeps ==
  ASSUME VaultInv, ReaderEdits
  PROVE  VaultInv'
<1>1. PICK file \in Files, edit \in Edits \ vaultEdited, inside \in BOOLEAN :
        /\ Exists(file)
        /\ notes' = [notes EXCEPT ![file].text = @ \cup {edit}, ![file].inside = IF inside THEN @ \cup {edit} ELSE @]
        /\ vaultEdited' = vaultEdited \cup {edit}
        /\ vaultForsaken' = IF Overwrites(file) THEN vaultForsaken \cup {edit} ELSE vaultForsaken
  BY DEF ReaderEdits
<1>2. /\ UNCHANGED <<vaultJob, preview, renames, backups, seconds>> /\ VaultShape /\ TargetSaved
      /\ vaultForsaken \subseteq vaultForsaken'
  BY <1>1 DEF ReaderEdits, VaultInv
<1>3. notes[file] \in VaultNote
  BY <1>1, <1>2 DEF Exists, VaultShape, VaultNotes
<1> DEFINE edited == notes'[file]
<1>4. /\ \A other \in Files : other # file => notes'[other] = notes[other]
      /\ edited \in VaultNote /\ edited.text = notes[file].text \cup {edit}
      /\ notes' \in [Files -> VaultNotes]
  <2> DEFINE new == IF inside THEN notes[file].inside \cup {edit} ELSE notes[file].inside
  <2>1. PICK key \in STRING \cup {"none"}, readable \in BOOLEAN, text \in SUBSET Edits, in \in SUBSET Edits,
             section \in Sections \cup {"none"}, number \in 0..2 :
          notes[file] = [key |-> key, readable |-> readable, text |-> text, inside |-> in, section |-> section, regions |-> number]
    BY <1>3 DEF VaultNote
  <2> DEFINE note == notes[file]
             written == [note EXCEPT !.text = note.text \cup {edit}]
  <2>2. notes'[file] = [written EXCEPT !.inside = IF inside THEN written.inside \cup {edit} ELSE written.inside]
    BY <1>1, <1>2 DEF VaultShape
  <2>3. new \in SUBSET Edits
    BY <2>1
  <2> HIDE DEF new
  <2>4. notes'[file] = [key |-> key, readable |-> readable, text |-> text \cup {edit}, inside |-> new,
                        section |-> section, regions |-> number]
    <3>1. note = [key |-> key, readable |-> readable, text |-> text, inside |-> in, section |-> section, regions |-> number]
      BY <2>1
    <3> HIDE DEF note
    <3>2. written = [key |-> key, readable |-> readable, text |-> text \cup {edit}, inside |-> in,
                     section |-> section, regions |-> number]
      BY <3>1
    <3>3. new = IF inside THEN in \cup {edit} ELSE in
      BY <3>1 DEF new, note
    <3> HIDE DEF written
    <3>4. written.inside = in
      BY <3>2
    <3>5. notes'[file] = [written EXCEPT !.inside = new]
      BY <2>2, <3>3, <3>4
    <3> QED
      BY <3>2, <3>5
  <2>5. text \cup {edit} \in SUBSET Edits /\ text = notes[file].text
    BY <2>1
  <2>6. edited \in VaultNote /\ edited.text = notes[file].text \cup {edit}
    BY <2>3, <2>4, <2>5 DEF VaultNote
  <2>7. \A other \in Files : other # file => notes'[other] = notes[other]
    BY <1>1, <1>2 DEF VaultShape
  <2>8. notes' = [other \in Files |-> notes'[other]]
    BY <1>1, <1>2 DEF VaultShape
  <2>9. \A other \in Files : notes'[other] \in VaultNotes
    BY <1>2, <2>6, <2>7 DEF VaultShape, VaultNotes
  <2> QED
    BY <2>6, <2>7, <2>8, <2>9
<1> HIDE DEF edited
<1>5. TextOf(edited) = TextOf(notes[file]) \cup {edit} /\ edited = notes'[file]
  BY <1>3, <1>4, NotesDiffer DEF edited
<1>6. VaultShape'
  BY <1>1, <1>2, <1>4 DEF VaultShape
<1>7. TargetSaved'
  <2> SUFFICES ASSUME vaultJob.op = "apply"
               PROVE  TextOf(notes'[vaultJob.target]) \subseteq TextOf(backups[BackupAt]) \cup vaultForsaken'
    BY <1>2 DEF TargetSaved, TextOf, BackupAt
  <2>1. vaultJob.target \in Files
    BY <1>2, ApplyingKnowsItsTarget
  <2>2. CASE vaultJob.target = file
    <3>1. vaultForsaken' = vaultForsaken \cup {edit}
      BY <1>1, <2>2 DEF Overwrites
    <3> QED
      BY <1>2, <1>5, <2>2, <3>1 DEF TargetSaved
  <2>3. CASE vaultJob.target # file
    BY <1>2, <1>4, <2>1, <2>3 DEF TargetSaved
  <2> QED
    BY <2>2, <2>3
<1>8. \A written \in vaultEdited' : Survives(written)'
  <2>1. ASSUME NEW other \in Files, NEW written, written \in TextOf(notes[other]) \/ (other = file /\ written = edit)
        PROVE  Survives(written)'
    <3>1. written \in TextOf(notes'[other])
      BY <1>4, <1>5, <2>1
    <3>2. written \in TextOf(notes[other])'
      BY <3>1 DEF TextOf
    <3> QED
      BY <3>2 DEF Survives
  <2>2. \A at \in BackupNames : \A written \in TextOf(backups[at]) : Survives(written)'
    BY <1>2 DEF Survives, TextOf
  <2>3. \A written \in vaultEdited' : written \in vaultEdited \/ Survives(written)'
    BY <1>1, <2>1
  <2> QED
    BY <1>2, <2>1, <2>2, <2>3, TextsSurvive DEF VaultInv
<1> QED
  BY <1>6, <1>7, <1>8 DEF VaultInv

LEMMA ReaderRenamesKeeps ==
  ASSUME VaultInv, ReaderRenames
  PROVE  VaultInv'
<1>1. PICK rename \in renames :
        /\ Exists(rename.from) /\ ~Exists(rename.to)
        /\ notes' = [notes EXCEPT ![rename.to] = notes[rename.from], ![rename.from] = NoNote]
        /\ renames' = renames \ {rename}
        /\ vaultForsaken' = IF Overwrites(rename.to) THEN vaultForsaken \cup TextOf(notes[rename.from]) ELSE vaultForsaken
  BY DEF ReaderRenames
<1> DEFINE from == rename.from
           to == rename.to
<1>2. /\ UNCHANGED <<vaultJob, preview, backups, seconds, vaultEdited>> /\ VaultShape /\ TargetSaved
      /\ vaultForsaken \subseteq vaultForsaken'
  BY <1>1 DEF ReaderRenames, VaultInv
<1>3. from \in Files /\ to \in Files /\ from # to /\ notes[to] = NoNote
  BY <1>1, <1>2 DEF VaultShape, Exists
<1>4. /\ \A file \in Files : notes'[file] = IF file = from THEN NoNote ELSE IF file = to THEN notes[from] ELSE notes[file]
      /\ notes' \in [Files -> VaultNotes]
  BY <1>1, <1>2, <1>3 DEF VaultShape, VaultNotes
<1>5. vaultForsaken' = IF Overwrites(to) THEN vaultForsaken \cup TextOf(notes[from]) ELSE vaultForsaken
  BY <1>1
<1>6. VaultShape'
  BY <1>1, <1>2, <1>4 DEF VaultShape
<1> HIDE DEF from, to
<1>7. TargetSaved'
  <2> SUFFICES ASSUME vaultJob.op = "apply"
               PROVE  TextOf(notes'[vaultJob.target]) \subseteq TextOf(backups[BackupAt]) \cup vaultForsaken'
    BY <1>2 DEF TargetSaved, TextOf, BackupAt
  <2>1. vaultJob.target \in Files
    BY <1>2, ApplyingKnowsItsTarget
  <2>2. CASE vaultJob.target = to
    <3>1. vaultForsaken' = vaultForsaken \cup TextOf(notes[from])
      BY <1>5, <2>2 DEF Overwrites
    <3> QED
      BY <1>3, <1>4, <2>2, <3>1
  <2>3. CASE vaultJob.target = from
    BY <1>4, <2>1, <2>3, NotesDiffer
  <2>4. CASE vaultJob.target # from /\ vaultJob.target # to
    BY <1>2, <1>4, <2>1, <2>4 DEF TargetSaved
  <2> QED
    BY <2>2, <2>3, <2>4
<1>8. \A edit \in vaultEdited' : Survives(edit)'
  <2>1. ASSUME NEW file \in Files, NEW edit \in TextOf(notes[file])
        PROVE  Survives(edit)'
    <3>1. PICK other \in Files : edit \in TextOf(notes'[other])
      <4>1. file # to
        BY <1>3, <2>1, NotesDiffer
      <4>2. CASE file = from
        BY <1>3, <1>4, <2>1, <4>2
      <4>3. CASE file # from
        BY <1>4, <2>1, <4>1, <4>3
      <4> QED
        BY <4>2, <4>3
    <3>2. edit \in TextOf(notes[other])'
      BY <3>1 DEF TextOf
    <3> QED
      BY <3>2 DEF Survives
  <2>2. \A at \in BackupNames : \A edit \in TextOf(backups[at]) : Survives(edit)'
    BY <1>2 DEF Survives, TextOf
  <2> QED
    BY <1>2, <2>1, <2>2, TextsSurvive DEF VaultInv
<1> QED
  BY <1>6, <1>7, <1>8 DEF VaultInv

LEMMA ReaderBreaksKeeps ==
  ASSUME VaultInv, ReaderBreaks
  PROVE  VaultInv'
<1>1. PICK broken \in Files : Exists(broken) /\ notes' = [notes EXCEPT ![broken].readable = FALSE]
  BY DEF ReaderBreaks
<1>2. /\ UNCHANGED <<vaultJob, preview, renames, backups, seconds, vaultEdited, vaultForsaken>> /\ VaultShape /\ TargetSaved
  BY DEF ReaderBreaks, VaultInv
<1>3. notes[broken] \in VaultNote
  BY <1>1, <1>2 DEF Exists, VaultShape, VaultNotes
<1>4. /\ notes'[broken] = [notes[broken] EXCEPT !.readable = FALSE]
      /\ \A file \in Files : file # broken => notes'[file] = notes[file]
      /\ notes' = [file \in Files |-> notes'[file]]
  BY <1>1, <1>2 DEF VaultShape
<1>5. notes'[broken] \in VaultNote /\ notes'[broken].text = notes[broken].text
  BY <1>3, <1>4 DEF VaultNote
<1>6. \A file \in Files : TextOf(notes'[file]) = TextOf(notes[file]) /\ notes'[file] \in VaultNotes
  BY <1>2, <1>3, <1>4, <1>5, NotesDiffer DEF VaultShape, VaultNotes
<1>7. VaultShape'
  BY <1>2, <1>4, <1>6 DEF VaultShape
<1>8. \A file \in Files : TextOf(notes[file])' = TextOf(notes[file])
  BY <1>6 DEF TextOf
<1>9. TargetSaved'
  <2>1. vaultJob.op = "apply" => vaultJob.target \in Files
    BY <1>2, ApplyingKnowsItsTarget
  <2> QED
    BY <1>2, <1>6, <2>1 DEF TargetSaved, TextOf, BackupAt
<1>10. \A edit \in vaultEdited' : Survives(edit)'
  BY <1>2, <1>8 DEF VaultInv, Survives, TextOf
<1> QED
  BY <1>7, <1>9, <1>10 DEF VaultInv

LEMMA SecondPassesKeeps ==
  ASSUME VaultInv, SecondPasses
  PROVE  VaultInv'
<1>1. /\ seconds < MaxSeconds /\ seconds' = seconds + 1
      /\ UNCHANGED <<notes, vaultJob, preview, renames, backups, vaultEdited, vaultForsaken>>
  BY DEF SecondPasses
<1>2. seconds' \in 0..MaxSeconds
  BY <1>1, VaultConstants DEF VaultInv, VaultShape
<1> QED
  BY <1>1, <1>2, QuietKeepsVault DEF VaultInv, VaultShape

LEMMA VaultInitKeeps == VaultInit => VaultInv
<1> SUFFICES ASSUME VaultInit
             PROVE  VaultInv
  OBVIOUS
<1>1. /\ notes = [file \in Files |-> NoNote] /\ vaultJob = Idle /\ preview = "none" /\ renames = {}
      /\ backups = [at \in BackupNames |-> NoNote] /\ seconds = 0 /\ vaultEdited = {}
  BY DEF VaultInit, BackupNames
<1>2. 0 \in 0..MaxSeconds
  BY VaultConstants
<1>3. VaultShape
  BY <1>1, <1>2 DEF VaultShape, VaultNotes
<1> QED
  BY <1>1, <1>3, JobsDiffer DEF VaultInv, TargetSaved

LEMMA VaultNextKeeps == VaultInv /\ [VaultNext]_vaultVars => VaultInv'
<1> SUFFICES ASSUME VaultInv, [VaultNext]_vaultVars
             PROVE  VaultInv'
  OBVIOUS
<1>1. CASE UNCHANGED vaultVars
  BY <1>1, QuietKeepsVault DEF vaultVars, VaultInv, VaultShape
<1>2. CASE VaultNext
  BY <1>2, WriterStartsKeeps, WriterWritesKeeps, PlanMigrationKeeps, PreviewUpdateKeeps, ApplyReadsKeeps,
     ApplyBacksUpKeeps, BackupFailsKeeps, ApplyWritesKeeps, VaultDiesKeeps, ReaderEditsKeeps,
     ReaderRenamesKeeps, ReaderBreaksKeeps, SecondPassesKeeps DEF VaultNext
<1> QED
  BY <1>1, <1>2

\* What the files of the vault and the operation under way have of each other: see VaultInv.
THEOREM VaultInvHolds == VaultSpec => []VaultInv
<1>1. VaultInit => VaultInv
  BY VaultInitKeeps
<1>2. VaultInv /\ [VaultNext]_vaultVars => VaultInv'
  BY VaultNextKeeps
<1> QED
  BY <1>1, <1>2, PTL DEF VaultSpec

\* Whatever notes the exporter creates and updates, and wherever it dies, what the reader wrote
\* in the vault is in a note or in a backup, or was lost in a way the design accepts.
THEOREM ReaderTextsSurvive == VaultSpec => []ReaderTextSurvives
<1>1. VaultInv => ReaderTextSurvives
  <2> SUFFICES ASSUME VaultInv
               PROVE  ReaderTextSurvives
    OBVIOUS
  <2> DEFINE inNotes == UNION {TextOf(notes[file]) : file \in Files}
             inBackups == UNION {TextOf(backups[at]) : at \in DOMAIN backups}
  <2>1. DOMAIN backups = BackupNames
    BY DEF VaultInv, VaultShape
  <2>2. ASSUME NEW edit \in vaultEdited
        PROVE  edit \in inNotes \cup inBackups \cup vaultForsaken
    <3>1. Survives(edit)
      BY DEF VaultInv
    <3> QED
      BY <2>1, <3>1 DEF Survives
  <2> HIDE DEF inNotes, inBackups
  <2>3. vaultEdited \subseteq inNotes \cup inBackups \cup vaultForsaken
    BY <2>2
  <2> QED
    BY <2>3 DEF inNotes, inBackups, ReaderTextSurvives
<1> QED
  BY <1>1, VaultInvHolds, PTL

---------------------------------------------------------------------------
(* The aggregation of runs: what stands at the output directory *)

AggSpec == AggInit /\ [][AggNext]_aggVars

AggUnderWay == {"write", "clear", "publish"}
AggPlaces == AggUnderWay \cup {"idle", "published", "refused", "failed", "died"}
AggTold(p) ==
    [kind |-> "summary", by |-> p, files |-> Len(Outputs), summary |-> Summary(aggRequest[p].runs)]

AggShape ==
    /\ aggAt \in [Aggregators -> AggPlaces]
    /\ aggTemp \in [Aggregators -> -1..Len(Outputs)]
    /\ aggRequest = [p \in Aggregators |-> aggRequest[p]]
\* Who has begun was asked for runs that belong together; who goes on to publish has written
\* every file; what was published is the summary of who published it, and nothing else is one.
AggBegun ==
    \A p \in Aggregators : aggAt[p] \in AggUnderWay \cup {"published"} => RunsBelongTogether(aggRequest[p])
AggWritten ==
    \A p \in Aggregators : /\ aggAt[p] = "write" => aggTemp[p] \in 0..(Len(Outputs) - 1)
                           /\ aggAt[p] \in {"clear", "publish"} => aggTemp[p] = Len(Outputs)
AggStands ==
    /\ \A p \in Aggregators : aggAt[p] = "published" => aggOut = AggTold(p)
    /\ Published => \E p \in Aggregators : aggAt[p] = "published"
AggInv == AggShape /\ AggBegun /\ AggWritten /\ AggStands

LEMMA OutputsCount == Len(Outputs) = 6
  BY DEF Outputs

\* The rows of a summary are of the papers of its runs, in their order.
LEMMA SummaryRows ==
  ASSUME NEW runs
  PROVE  /\ DOMAIN Summary(runs).papers = DOMAIN runs
         /\ \A i \in DOMAIN runs : Summary(runs).papers[i].paper = PaperOf(runs[i])
         /\ Summary(runs).config = runs[1].config
  BY DEF Summary

LEMMA AggInitKeeps == AggInit => AggInv
<1> SUFFICES ASSUME AggInit
             PROVE  AggInv
  OBVIOUS
<1>1. AggShape
  BY OutputsCount DEF AggInit, AggShape, AggPlaces
<1>2. aggOut.kind \in {"absent", "empty", "file", "foreign"} /\ \A p \in Aggregators : aggAt[p] = "idle"
  BY DEF AggInit
<1> QED
  BY <1>1, <1>2 DEF AggInv, AggBegun, AggWritten, AggStands, AggUnderWay, Published

\* While nothing is published, none has published.
LEMMA VacantIsUntold ==
  ASSUME AggInv, Vacant
  PROVE  \A p \in Aggregators : aggAt[p] # "published"
<1> SUFFICES ASSUME NEW p \in Aggregators, aggAt[p] = "published"
             PROVE  FALSE
  OBVIOUS
<1>1. aggOut = AggTold(p)
  BY DEF AggInv, AggStands
<1>2. aggOut.kind = "summary"
  BY <1>1 DEF AggTold
<1> QED
  BY <1>2 DEF Vacant

LEMMA AggChecksKeeps ==
  ASSUME AggInv, NEW p \in Aggregators, AggChecks(p)
  PROVE  AggInv'
<1> USE DEF AggInv
<1>1. PICK request \in AggRequests :
        IF Vacant /\ RunsBelongTogether(request)
        THEN /\ aggRequest' = [aggRequest EXCEPT ![p] = request]
             /\ aggAt' = [aggAt EXCEPT ![p] = "write"] /\ aggTemp' = [aggTemp EXCEPT ![p] = 0]
        ELSE aggAt' = [aggAt EXCEPT ![p] = "refused"] /\ UNCHANGED <<aggRequest, aggTemp>>
  BY DEF AggChecks
<1>2. aggAt[p] = "idle" /\ aggOut' = aggOut
  BY DEF AggChecks
<1>3. CASE Vacant /\ RunsBelongTogether(request)
  <2>1. /\ aggRequest' = [aggRequest EXCEPT ![p] = request]
        /\ aggAt' = [aggAt EXCEPT ![p] = "write"] /\ aggTemp' = [aggTemp EXCEPT ![p] = 0]
    BY <1>1, <1>3
  <2>2. \A q \in Aggregators : aggAt'[q] # "published"
    BY <1>3, <2>1, VacantIsUntold DEF AggShape
  <2>3. AggShape'
    BY <2>1, OutputsCount DEF AggShape, AggPlaces, AggUnderWay
  <2>4. AggBegun'
    <3> SUFFICES ASSUME NEW q \in Aggregators, aggAt'[q] \in AggUnderWay \cup {"published"}
                 PROVE  RunsBelongTogether(aggRequest'[q])
      BY DEF AggBegun
    <3>1. CASE q = p
      BY <1>3, <2>1, <3>1 DEF AggShape
    <3>2. CASE q # p
      BY <2>1, <3>2 DEF AggShape, AggBegun
    <3> QED
      BY <3>1, <3>2
  <2>5. AggWritten'
    BY <2>1, OutputsCount DEF AggShape, AggWritten
  <2>6. ~ Published'
    BY <1>2, <1>3 DEF Published, Vacant
  <2> QED
    BY <2>2, <2>3, <2>4, <2>5, <2>6 DEF AggStands
<1>4. CASE ~ (Vacant /\ RunsBelongTogether(request))
  <2>1. aggAt' = [aggAt EXCEPT ![p] = "refused"] /\ aggRequest' = aggRequest /\ aggTemp' = aggTemp
    BY <1>1, <1>4
  <2>2. AggShape'
    BY <2>1 DEF AggShape, AggPlaces
  <2>3. \A q \in Aggregators : aggAt'[q] # "refused" => aggAt'[q] = aggAt[q]
    BY <2>1 DEF AggShape
  <2>4. AggBegun' /\ AggWritten'
    BY <2>1, <2>3 DEF AggBegun, AggWritten, AggUnderWay
  <2>5. \A q \in Aggregators : aggAt[q] = "published" <=> aggAt'[q] = "published"
    BY <1>2, <2>1 DEF AggShape
  <2>6. AggStands'
    BY <1>2, <2>1, <2>5 DEF AggStands, AggTold, Published
  <2> QED
    BY <2>2, <2>4, <2>6
<1> QED
  BY <1>3, <1>4

LEMMA AggWritesKeeps ==
  ASSUME AggInv, NEW p \in Aggregators, AggWrites(p)
  PROVE  AggInv'
<1> USE DEF AggInv
<1>1. /\ aggAt[p] = "write" /\ aggTemp' = [aggTemp EXCEPT ![p] = aggTemp[p] + 1]
      /\ aggAt' = [aggAt EXCEPT ![p] = IF aggTemp'[p] = Len(Outputs) THEN "clear" ELSE "write"]
      /\ aggOut' = aggOut /\ aggRequest' = aggRequest
  BY DEF AggWrites
<1>2. aggTemp[p] \in 0..5 /\ aggTemp'[p] = aggTemp[p] + 1
  BY <1>1, OutputsCount DEF AggWritten, AggShape
<1>3. AggShape'
  BY <1>1, <1>2, OutputsCount DEF AggShape, AggPlaces, AggUnderWay
<1>4. /\ aggAt'[p] = (IF aggTemp'[p] = Len(Outputs) THEN "clear" ELSE "write")
      /\ \A q \in Aggregators \ {p} : aggAt'[q] = aggAt[q] /\ aggTemp'[q] = aggTemp[q]
  BY <1>1 DEF AggShape
<1>5. AggBegun'
  BY <1>1, <1>4 DEF AggBegun, AggUnderWay
<1>6. AggWritten'
  <2> SUFFICES ASSUME NEW q \in Aggregators
               PROVE  /\ aggAt'[q] = "write" => aggTemp'[q] \in 0..(Len(Outputs) - 1)
                      /\ aggAt'[q] \in {"clear", "publish"} => aggTemp'[q] = Len(Outputs)
    BY DEF AggWritten
  <2>1. CASE q = p
    BY <1>2, <1>4, <2>1, OutputsCount
  <2>2. CASE q # p
    BY <1>4, <2>2 DEF AggWritten
  <2> QED
    BY <2>1, <2>2
<1>7. \A q \in Aggregators : aggAt[q] = "published" <=> aggAt'[q] = "published"
  BY <1>1, <1>4
<1>8. AggStands'
  BY <1>1, <1>7 DEF AggStands, AggTold, Published
<1> QED
  BY <1>3, <1>5, <1>6, <1>8

\* Whoever fails or dies before it has published leaves the invariant as it is.
LEMMA AggStopKeeps ==
  ASSUME AggInv, NEW p \in Aggregators, NEW how \in {"failed", "died"}, aggAt[p] \in AggUnderWay,
         aggAt' = [aggAt EXCEPT ![p] = how], aggTemp' \in {aggTemp, [aggTemp EXCEPT ![p] = -1]},
         UNCHANGED <<aggOut, aggRequest>>
  PROVE  AggInv'
<1> USE DEF AggInv
<1>1. AggShape'
  BY OutputsCount DEF AggShape, AggPlaces
<1>2. /\ aggAt'[p] = how
      /\ \A q \in Aggregators \ {p} : aggAt'[q] = aggAt[q] /\ aggTemp'[q] = aggTemp[q]
  BY DEF AggShape
<1>3. AggBegun' /\ AggWritten'
  BY <1>2 DEF AggBegun, AggWritten, AggUnderWay
<1>4. \A q \in Aggregators : aggAt[q] = "published" <=> aggAt'[q] = "published"
  BY <1>2 DEF AggUnderWay
<1>5. AggStands'
  BY <1>4 DEF AggStands, AggTold, Published
<1> QED
  BY <1>1, <1>3, <1>5

LEMMA AggClearsKeeps ==
  ASSUME AggInv, NEW p \in Aggregators, AggClears(p)
  PROVE  AggInv'
<1>1. CASE ~ Vacant
  <2>1. aggAt[p] = "clear" /\ AggFails(p)
    BY <1>1 DEF AggClears
  <2> QED
    BY <2>1, AggStopKeeps DEF AggFails, AggUnderWay
<1>2. CASE Vacant
  <2> USE DEF AggInv
  <2>1. /\ aggAt[p] = "clear" /\ aggOut' = [kind |-> "absent"] /\ aggAt' = [aggAt EXCEPT ![p] = "publish"]
        /\ aggRequest' = aggRequest /\ aggTemp' = aggTemp
    BY <1>2 DEF AggClears
  <2>2. AggShape'
    BY <2>1 DEF AggShape, AggPlaces, AggUnderWay
  <2>3. aggAt'[p] = "publish" /\ \A q \in Aggregators \ {p} : aggAt'[q] = aggAt[q]
    BY <2>1 DEF AggShape
  <2>4. AggBegun' /\ AggWritten'
    BY <2>1, <2>3 DEF AggBegun, AggWritten, AggUnderWay
  <2>5. \A q \in Aggregators : aggAt'[q] # "published"
    BY <1>2, <2>3, VacantIsUntold
  <2>6. ~ Published'
    BY <2>1 DEF Published
  <2> QED
    BY <2>2, <2>4, <2>5, <2>6 DEF AggStands
<1> QED
  BY <1>1, <1>2

LEMMA AggPublishesKeeps ==
  ASSUME AggInv, NEW p \in Aggregators, AggPublishes(p)
  PROVE  AggInv'
<1>1. CASE ~ Vacant
  <2>1. aggAt[p] = "publish" /\ AggFails(p)
    BY <1>1 DEF AggPublishes
  <2> QED
    BY <2>1, AggStopKeeps DEF AggFails, AggUnderWay
<1>2. CASE Vacant
  <2> USE DEF AggInv
  <2>1. /\ aggAt[p] = "publish"
        /\ aggOut' = [kind |-> "summary", by |-> p, files |-> aggTemp[p], summary |-> Summary(aggRequest[p].runs)]
        /\ aggAt' = [aggAt EXCEPT ![p] = "published"] /\ aggTemp' = [aggTemp EXCEPT ![p] = -1]
        /\ aggRequest' = aggRequest
    BY <1>2 DEF AggPublishes
  <2>2. AggShape'
    BY <2>1, OutputsCount DEF AggShape, AggPlaces
  <2>3. /\ aggAt'[p] = "published"
        /\ \A q \in Aggregators \ {p} : aggAt'[q] = aggAt[q] /\ aggTemp'[q] = aggTemp[q]
    BY <2>1 DEF AggShape
  <2>4. AggBegun' /\ AggWritten'
    BY <2>1, <2>3 DEF AggBegun, AggWritten, AggUnderWay
  <2>5. \A q \in Aggregators \ {p} : aggAt'[q] # "published"
    BY <1>2, <2>3, VacantIsUntold
  <2>6. aggTemp[p] = Len(Outputs)
    BY <2>1 DEF AggWritten
  <2>7. aggOut' = AggTold(p)'
    BY <2>1, <2>6 DEF AggTold
  <2> QED
    BY <2>2, <2>3, <2>4, <2>5, <2>7 DEF AggStands
<1> QED
  BY <1>1, <1>2

LEMMA AggNextKeeps == AggInv /\ [AggNext]_aggVars => AggInv'
<1> SUFFICES ASSUME AggInv, [AggNext]_aggVars
             PROVE  AggInv'
  OBVIOUS
<1>1. CASE UNCHANGED aggVars
  BY <1>1 DEF aggVars, AggInv, AggShape, AggBegun, AggWritten, AggStands, AggTold, Published
<1>2. ASSUME NEW p \in Aggregators, AggChecks(p)
      PROVE  AggInv'
  BY <1>2, AggChecksKeeps
<1>3. ASSUME NEW p \in Aggregators, AggWrites(p)
      PROVE  AggInv'
  BY <1>3, AggWritesKeeps
<1>4. ASSUME NEW p \in Aggregators, AggWriteFails(p)
      PROVE  AggInv'
  BY <1>4, AggStopKeeps DEF AggWriteFails, AggFails, AggUnderWay
<1>5. ASSUME NEW p \in Aggregators, AggClears(p)
      PROVE  AggInv'
  BY <1>5, AggClearsKeeps
<1>6. ASSUME NEW p \in Aggregators, AggPublishes(p)
      PROVE  AggInv'
  BY <1>6, AggPublishesKeeps
<1>7. ASSUME NEW p \in Aggregators, AggDies(p)
      PROVE  AggInv'
  BY <1>7, AggStopKeeps DEF AggDies, AggUnderWay
<1> QED
  BY <1>1, <1>2, <1>3, <1>4, <1>5, <1>6, <1>7 DEF AggNext

\* However aggregations run into each other at one output directory, fail and die, the invariant
\* holds: what is under way was checked, what is put in place was written in full and is the
\* summary of who put it there, and nobody removes or replaces it.
THEOREM AggInvHolds == AggSpec => []AggInv
<1>1. AggInit => AggInv
  BY AggInitKeeps
<1>2. AggInv /\ [AggNext]_aggVars => AggInv'
  BY AggNextKeeps
<1> QED
  BY <1>1, <1>2, PTL DEF AggSpec

LEMMA WholeFromInv == AggInv => AggregatesAreWhole
<1> SUFFICES ASSUME AggInv
             PROVE  AggregatesAreWhole
  OBVIOUS
<1> USE DEF AggInv
<1>1. ASSUME NEW p \in Aggregators, aggAt[p] = "published"
      PROVE  /\ Published /\ aggOut.by = p /\ aggOut.files = Len(Outputs)
             /\ aggOut.summary = Summary(aggRequest[p].runs)
  <2>1. aggOut = AggTold(p)
    BY <1>1 DEF AggStands
  <2> QED
    BY <2>1 DEF AggTold, Published
<1>2. ASSUME NEW p \in Aggregators, aggAt[p] = "published"
      PROVE  LET runs == aggRequest[p].runs  rows == aggOut.summary.papers  expected == aggRequest[p].expected
             IN  /\ DOMAIN rows = DOMAIN runs
                 /\ \A i \in DOMAIN rows : /\ rows[i].paper \in DOMAIN expected
                                           /\ runs[i].reviewed = expected[rows[i].paper]
                                           /\ runs[i].config = aggOut.summary.config
                 /\ \A paper \in DOMAIN expected :
                      \E i \in DOMAIN rows : \A j \in DOMAIN rows : rows[j].paper = paper <=> j = i
  <2> DEFINE runs == aggRequest[p].runs  rows == aggOut.summary.papers  expected == aggRequest[p].expected
  <2>1. /\ DOMAIN rows = DOMAIN runs
        /\ \A i \in DOMAIN runs : rows[i].paper = PaperOf(runs[i])
        /\ aggOut.summary.config = runs[1].config
    BY <1>1, <1>2, SummaryRows
  <2>2. RunsBelongTogether(aggRequest[p])
    BY <1>2 DEF AggBegun
  <2>3. /\ \A i \in DOMAIN runs : RunAccepted(runs[i], expected) /\ runs[i].config = runs[1].config
        /\ \A i, j \in DOMAIN runs : PaperOf(runs[i]) = PaperOf(runs[j]) => i = j
        /\ DOMAIN expected = {PaperOf(runs[i]) : i \in DOMAIN runs}
    BY <2>2 DEF RunsBelongTogether
  <2>4. \A i \in DOMAIN runs : PaperOf(runs[i]) \in DOMAIN expected /\ expected[PaperOf(runs[i])] = runs[i].reviewed
    BY <2>3 DEF RunAccepted
  <2> HIDE DEF runs, rows, expected
  <2>5. ASSUME NEW paper \in DOMAIN expected
        PROVE  \E i \in DOMAIN rows : \A j \in DOMAIN rows : rows[j].paper = paper <=> j = i
    <3>1. PICK i \in DOMAIN runs : paper = PaperOf(runs[i])
      BY <2>3, <2>5
    <3>2. \A j \in DOMAIN rows : rows[j].paper = paper <=> j = i
      BY <2>1, <2>3, <3>1
    <3> QED
      BY <2>1, <3>1, <3>2
  <2>6. \A i \in DOMAIN rows : /\ rows[i].paper \in DOMAIN expected
                               /\ runs[i].reviewed = expected[rows[i].paper]
                               /\ runs[i].config = aggOut.summary.config
    BY <2>1, <2>3, <2>4
  <2> QED
    BY <2>1, <2>5, <2>6 DEF runs, rows, expected
<1>3. Published => aggOut.files = Len(Outputs) /\ aggAt[aggOut.by] = "published"
  BY <1>1 DEF AggStands
<1> QED
  BY <1>1, <1>2, <1>3 DEF AggregatesAreWhole

\* Whatever aggregations run into each other, die or fail, the output directory holds all six
\* files of one of them or none, what one has published stays, and it speaks of one
\* configuration and of every expected paper once, reviewed as expected.
THEOREM AggregatesStayWhole == AggSpec => []AggregatesAreWhole
  BY AggInvHolds, WholeFromInv, PTL

---------------------------------------------------------------------------
(* Lists: functions on 1..n, whatever their elements *)

ListOfLength(s, n) == s = [i \in 1..n |-> s[i]]

LEMMA ListIs ==
  ASSUME NEW n \in Nat, NEW s, ListOfLength(s, n)
  PROVE  DOMAIN s = 1..n /\ Len(s) = n /\ s \in Seq({s[i] : i \in 1..n})
<1> DEFINE S == {s[i] : i \in 1..n}
<1>1. DOMAIN s = 1..n
  BY Zenon DEF ListOfLength
<1>2. \A i \in 1..n : s[i] \in S
  OBVIOUS
<1> HIDE DEF S
<1>3. s \in [1..n -> S]
  BY <1>1, <1>2 DEF ListOfLength
<1>4. s \in Seq(S)
  BY <1>3, SeqDef
<1>5. Len(s) = n
  BY <1>1, <1>4, LenProperties
<1> QED
  BY <1>1, <1>4, <1>5 DEF S

LEMMA SeqIsList ==
  ASSUME NEW S, NEW s \in Seq(S)
  PROVE  Len(s) \in Nat /\ ListOfLength(s, Len(s)) /\ DOMAIN s = 1..Len(s)
  BY DEF ListOfLength

WithLast(s, e) == Append(s, e)
LEMMA ListAppended ==
  ASSUME NEW n \in Nat, NEW s, ListOfLength(s, n), NEW e
  PROVE  /\ ListOfLength(WithLast(s, e), n + 1)
         /\ \A i \in 1..n : WithLast(s, e)[i] = s[i]
         /\ WithLast(s, e)[n + 1] = e
<1> DEFINE S == {s[i] : i \in 1..n} \cup {e}
<1>1. DOMAIN s = 1..n /\ Len(s) = n
  BY ListIs
<1>2. \A i \in 1..n : s[i] \in S
  OBVIOUS
<1>3. e \in S
  OBVIOUS
<1> HIDE DEF S
<1>4. s \in Seq(S)
  <2>1. s \in [1..n -> S]
    BY <1>1, <1>2 DEF ListOfLength
  <2> QED
    BY <2>1, SeqDef
<1>5. /\ Append(s, e) \in Seq(S) /\ Len(Append(s, e)) = n + 1
      /\ \A i \in 1..n : Append(s, e)[i] = s[i]
      /\ Append(s, e)[n + 1] = e
  BY <1>1, <1>3, <1>4, AppendProperties
<1> QED
  BY <1>5, SeqIsList DEF WithLast

Joined(s, t) == s \o t
LEMMA ListsJoined ==
  ASSUME NEW m \in Nat, NEW s, ListOfLength(s, m), NEW n \in Nat, NEW t, ListOfLength(t, n)
  PROVE  /\ ListOfLength(Joined(s, t), m + n)
         /\ \A i \in 1..(m + n) : Joined(s, t)[i] = IF i <= m THEN s[i] ELSE t[i - m]
<1> DEFINE S == {s[i] : i \in 1..m} \cup {t[i] : i \in 1..n}
<1>1. DOMAIN s = 1..m /\ Len(s) = m /\ DOMAIN t = 1..n /\ Len(t) = n
  BY ListIs
<1>2. (\A i \in 1..m : s[i] \in S) /\ \A i \in 1..n : t[i] \in S
  OBVIOUS
<1> HIDE DEF S
<1>3. s \in Seq(S) /\ t \in Seq(S)
  <2>1. s \in [1..m -> S] /\ t \in [1..n -> S]
    BY <1>1, <1>2 DEF ListOfLength
  <2> QED
    BY <2>1, SeqDef
<1>4. /\ s \o t \in Seq(S) /\ Len(s \o t) = m + n
      /\ \A i \in 1..(m + n) : (s \o t)[i] = IF i <= m THEN s[i] ELSE t[i - m]
  BY <1>1, <1>3, ConcatProperties
<1> QED
  BY <1>4, SeqIsList DEF Joined

\* What is left of a list after its first k elements.
After(s, n, k) == [i \in 1..(n - k) |-> s[k + i]]
Rest(s) == Tail(s)
LEMMA AfterIs ==
  ASSUME NEW n \in Nat, NEW s, ListOfLength(s, n), NEW k \in 0..n
  PROVE  /\ ListOfLength(After(s, n, k), n - k)
         /\ k < n => /\ After(s, n, k)[1] = s[k + 1] /\ After(s, n, k) # <<>>
                     /\ Rest(After(s, n, k)) = After(s, n, k + 1)
         /\ After(s, n, k) = <<>> <=> k = n
         /\ After(s, n, 0) = s
<1> DEFINE t == After(s, n, k)
<1>1. n - k \in Nat
  OBVIOUS
<1>2. ListOfLength(t, n - k) /\ \A i \in 1..(n - k) : t[i] = s[k + i]
  BY DEF After, ListOfLength
<1>3. After(s, n, 0) = s
  BY DEF After, ListOfLength
<1> HIDE DEF t
<1>4. DOMAIN t = 1..(n - k) /\ Len(t) = n - k /\ t \in Seq({t[i] : i \in 1..(n - k)})
  BY <1>1, <1>2, ListIs
<1>5. t = <<>> <=> k = n
  BY <1>4, EmptySeq
<1>6. ASSUME k < n
      PROVE  t[1] = s[k + 1] /\ t # <<>> /\ Rest(t) = After(s, n, k + 1)
  <2>1. t # <<>> /\ t[1] = s[k + 1]
    BY <1>2, <1>5, <1>6
  <2>2. /\ Tail(t) \in Seq({t[i] : i \in 1..(n - k)}) /\ Len(Tail(t)) = n - k - 1
        /\ \A i \in 1..(n - k - 1) : Tail(t)[i] = t[i + 1]
    BY <1>4, <2>1, HeadTailProperties
  <2>3. DOMAIN Tail(t) = 1..(n - k - 1) /\ ListOfLength(Tail(t), n - k - 1)
    BY <2>2, SeqIsList
  <2>4. \A i \in 1..(n - k - 1) : Tail(t)[i] = s[k + 1 + i]
    BY <1>2, <2>2
  <2>5. n - k - 1 = n - (k + 1)
    OBVIOUS
  <2>6. Tail(t) = [i \in 1..(n - (k + 1)) |-> s[(k + 1) + i]]
    BY <2>3, <2>4, <2>5 DEF ListOfLength
  <2> QED
    BY <2>1, <2>6, Zenon DEF After, Rest
<1> QED
  BY <1>2, <1>3, <1>5, <1>6 DEF t

LEMMA NaturalsByOne ==
  ASSUME NEW S, 0 \in S, \A n \in Nat : n \in S => n + 1 \in S
  PROVE  Nat \subseteq S
<1> SUFFICES ASSUME Nat \ S # {}
             PROVE  FALSE
  OBVIOUS
<1> DEFINE m == CHOOSE m \in Nat \ S : \A k \in Nat \ S : m <= k
<1>1. m \in Nat \ S /\ \A k \in Nat \ S : m <= k
  BY LeastNumber
<1> HIDE DEF m
<1>2. m # 0 /\ m - 1 \in Nat
  BY <1>1
<1>3. m - 1 \in S
  BY <1>1, <1>2
<1>4. m - 1 + 1 \in S
  BY <1>2, <1>3
<1> QED
  BY <1>1, <1>2, <1>4

---------------------------------------------------------------------------
(* Deep reading: what is assembled from a reply *)

\* The values of all objects, in order, are a list.
JoinedUpTo(objects, m, f) ==
    f = [n \in 0..m |-> IF n = 0 THEN <<>> ELSE AddValues(f[n - 1], objects[n])]
LEMMA JoinedExists ==
  ASSUME NEW objects, NEW m \in Nat
  PROVE  \E f : JoinedUpTo(objects, m, f)
<1> DEFINE S == {k \in Nat : \E f : JoinedUpTo(objects, k, f)}
<1>1. 0 \in S
  <2>1. JoinedUpTo(objects, 0, [n \in 0..0 |-> <<>>])
    BY DEF JoinedUpTo
  <2> QED
    BY <2>1
<1>2. ASSUME NEW k \in Nat, k \in S
      PROVE  k + 1 \in S
  <2>1. PICK f : JoinedUpTo(objects, k, f)
    BY <1>2
  <2> DEFINE last == AddValues(f[k], objects[k + 1])
             g == [n \in 0..(k + 1) |-> IF n = k + 1 THEN last ELSE f[n]]
  <2>2. \A n \in 0..k : f[n] = IF n = 0 THEN <<>> ELSE AddValues(f[n - 1], objects[n])
    BY <2>1 DEF JoinedUpTo
  <2>3. g[k + 1] = last /\ \A n \in 0..k : g[n] = f[n]
    OBVIOUS
  <2>4. ASSUME NEW n \in 0..(k + 1)
        PROVE  g[n] = IF n = 0 THEN <<>> ELSE AddValues(g[n - 1], objects[n])
    <3>1. CASE n = k + 1
      <4>1. n - 1 = k /\ k \in 0..k /\ n # 0
        BY <3>1
      <4> HIDE DEF g
      <4> QED
        BY <2>3, <3>1, <4>1
    <3>2. CASE n # k + 1
      <4>1. n \in 0..k /\ (n # 0 => n - 1 \in 0..k)
        BY <3>2
      <4> HIDE DEF g
      <4> QED
        BY <2>2, <2>3, <4>1
    <3> QED
      BY <3>1, <3>2
  <2>5. DOMAIN g = 0..(k + 1) /\ g = [n \in 0..(k + 1) |-> g[n]]
    OBVIOUS
  <2> HIDE DEF g
  <2>6. JoinedUpTo(objects, k + 1, g)
    BY <2>4, <2>5 DEF JoinedUpTo
  <2> QED
    BY <2>6
<1> HIDE DEF S
<1>3. Nat \subseteq S
  BY <1>1, <1>2, NaturalsByOne
<1> QED
  BY <1>3 DEF S

HasFields(values) == \E n \in Nat : ListOfLength(values, n) /\ \A i \in 1..n : IsList(values[i].quotes)
LEMMA AddedValuesAreList ==
  ASSUME NEW fields, HasFields(fields), NEW object, HasFields(object.values)
  PROVE  HasFields(AddValues(fields, object))
<1> DEFINE values == object.values
           all == Joined(fields, values)
<1>1. PICK a \in Nat : ListOfLength(fields, a) /\ \A i \in 1..a : IsList(fields[i].quotes)
  BY DEF HasFields
<1>2. PICK b \in Nat : ListOfLength(values, b) /\ \A i \in 1..b : IsList(values[i].quotes)
  BY DEF HasFields
<1> HIDE DEF values
<1>3. /\ ListOfLength(all, a + b)
      /\ \A i \in 1..(a + b) : all[i] = IF i <= a THEN fields[i] ELSE values[i - a]
  BY <1>1, <1>2, ListsJoined
<1> HIDE DEF all
<1>4. \A i \in 1..(a + b) : IsList(all[i].quotes)
  <2> TAKE i \in 1..(a + b)
  <2>1. (i <= a /\ i \in 1..a) \/ (~(i <= a) /\ i - a \in 1..b)
    BY <1>1, <1>2
  <2> QED
    BY <1>1, <1>2, <1>3, <2>1
<1>5. HasFields(all)
  BY <1>1, <1>2, <1>3, <1>4 DEF HasFields
<1>6. AddValues(fields, object) = all
  BY Zenon DEF AddValues, Joined, all, values
<1> QED
  BY <1>5, <1>6

LEMMA FieldsAreList ==
  ASSUME NEW objects, IsList(objects), \A i \in DOMAIN objects : HasFields(objects[i].values)
  PROVE  HasFields(FieldsOf(objects))
<1> DEFINE m == Len(objects)
           f == CHOOSE f : JoinedUpTo(objects, m, f)
<1>1. m \in Nat /\ DOMAIN objects = 1..m
  BY SeqIsList DEF IsList
<1>2. JoinedUpTo(objects, m, f)
  BY <1>1, JoinedExists
<1>3. FieldsOf(objects) = f[m]
  BY DEF FieldsOf, JoinedUpTo
<1> HIDE DEF f, m
<1>4. f[0] = <<>> /\ \A n \in 1..m : f[n] = AddValues(f[n - 1], objects[n])
  BY <1>1, <1>2 DEF JoinedUpTo
<1> DEFINE S == {n \in Nat : n <= m => HasFields(f[n])}
<1>5. 0 \in S
  <2>1. ListOfLength(<<>>, 0)
    BY DEF ListOfLength
  <2>2. HasFields(<<>>)
    BY <2>1 DEF HasFields
  <2> QED
    BY <1>4, <2>2
<1>6. ASSUME NEW n \in Nat, n \in S
      PROVE  n + 1 \in S
  <2> SUFFICES ASSUME n + 1 <= m
               PROVE  HasFields(f[n + 1])
    OBVIOUS
  <2>1. n + 1 \in 1..m /\ n + 1 - 1 = n /\ n <= m
    BY <1>1
  <2>2. f[n + 1] = AddValues(f[n], objects[n + 1])
    BY <1>4, <2>1
  <2>3. HasFields(f[n]) /\ HasFields(objects[n + 1].values)
    BY <1>1, <1>6, <2>1
  <2> QED
    BY <2>2, <2>3, AddedValuesAreList
<1> HIDE DEF S
<1>7. Nat \subseteq S
  BY <1>5, <1>6, NaturalsByOne
<1> QED
  BY <1>1, <1>3, <1>7 DEF S

\* Evidence is numbered by where it comes from: the candidates of the bank first, then the
\* quotes of the reply, each of which is found in the paper.
EvidenceIds(registry) == {EvidenceId(registry[i]) : i \in DOMAIN registry}
NumberedTo(registry, held, n) ==
    /\ held <= n /\ ListOfLength(registry, n)
    /\ \A i \in 1..n : /\ Relocatable(registry[i].quote)
                       /\ registry[i].origin = IF i <= held THEN "existing_candidate" ELSE "deep_quote"
                       /\ registry[i].number = IF i <= held THEN i ELSE i - held
Numbered(registry, held) == held \in Nat /\ \E n \in Nat : NumberedTo(registry, held, n)

LEMMA LoadedIsNumbered ==
  ASSUME NEW bank, IsList(bank), RegistryLoads(bank)
  PROVE  Numbered(LoadRegistry(bank), Len(bank))
<1> DEFINE n == Len(bank)
           registry == LoadRegistry(bank)
<1>1. n \in Nat /\ DOMAIN bank = 1..n
  BY SeqIsList DEF IsList
<1> HIDE DEF n
<1>2. registry = [i \in 1..n |-> [origin |-> "existing_candidate", number |-> i, quote |-> bank[i]]]
  BY <1>1 DEF LoadRegistry
<1> HIDE DEF registry
<1>3. NumberedTo(registry, n, n)
  BY <1>1, <1>2 DEF NumberedTo, ListOfLength, RegistryLoads
<1> QED
  BY <1>1, <1>3 DEF Numbered, n, registry

\* One record under one number.
LEMMA NumbersDiffer ==
  ASSUME NEW registry, NEW held, Numbered(registry, held)
  PROVE  /\ Cardinality(EvidenceIds(registry)) = Len(registry)
         /\ \A i \in DOMAIN registry : Relocatable(registry[i].quote)
<1>1. PICK n \in Nat : NumberedTo(registry, held, n)
  BY DEF Numbered
<1>2. held \in Nat /\ DOMAIN registry = 1..n /\ Len(registry) = n
  BY <1>1, ListIs DEF NumberedTo, Numbered
<1> DEFINE f == [i \in 1..n |-> EvidenceId(registry[i])]
<1>3. \A i, j \in 1..n : EvidenceId(registry[i]) = EvidenceId(registry[j]) => i = j
  <2> SUFFICES ASSUME NEW i \in 1..n, NEW j \in 1..n, EvidenceId(registry[i]) = EvidenceId(registry[j])
               PROVE  i = j
    OBVIOUS
  <2>1. registry[i].origin = registry[j].origin /\ registry[i].number = registry[j].number
    BY DEF EvidenceId
  <2>2. i <= held <=> j <= held
    BY <1>1, <2>1 DEF NumberedTo
  <2> QED
    BY <1>1, <1>2, <2>1, <2>2 DEF NumberedTo
<1>4. f \in Bijection(1..n, EvidenceIds(registry))
  <2>1. EvidenceIds(registry) = {EvidenceId(registry[i]) : i \in 1..n}
    BY <1>2 DEF EvidenceIds
  <2> QED
    BY <1>3, <2>1 DEF Bijection, Injection, Surjection, IsInjective
<1>5. IsFiniteSet(1..n) /\ Cardinality(1..n) = n
  BY <1>1, FS_Interval
<1>6. Cardinality(EvidenceIds(registry)) = Cardinality(1..n)
  BY <1>4, <1>5, FS_Bijection DEF ExistsBijection
<1> QED
  BY <1>1, <1>2, <1>5, <1>6 DEF NumberedTo

LEMMA AddQuoteNumbers ==
  ASSUME NEW registry, NEW held, Numbered(registry, held), NEW quote
  PROVE  /\ Numbered(AddQuote(registry, quote), held)
         /\ EvidenceIds(registry) \subseteq EvidenceIds(AddQuote(registry, quote))
<1>1. CASE ~Relocatable(quote)
  BY <1>1 DEF AddQuote
<1>2. CASE Relocatable(quote)
  <2>1. PICK n \in Nat : NumberedTo(registry, held, n)
    BY DEF Numbered
  <2>2. held \in Nat /\ held <= n /\ DOMAIN registry = 1..n
    BY <2>1, ListIs DEF NumberedTo, Numbered
  <2> DEFINE deep == {i \in DOMAIN registry : registry[i].origin = "deep_quote"}
             record == [origin |-> "deep_quote", quote |-> quote, number |-> Cardinality(deep) + 1]
             all == WithLast(registry, record)
  <2>3. Cardinality(deep) = n - held
    <3>1. deep = (held + 1)..n
      BY <2>1, <2>2 DEF NumberedTo
    <3>2. Cardinality((held + 1)..n) = IF held + 1 > n THEN 0 ELSE n - (held + 1) + 1
      BY <2>2, FS_Interval
    <3> HIDE DEF deep
    <3> QED
      BY <2>2, <3>1, <3>2
  <2>4. /\ record.origin = "deep_quote" /\ record.number = n + 1 - held /\ record.quote = quote
    BY <2>2, <2>3
  <2>5. AddQuote(registry, quote) = all
    BY <1>2, Zenon DEF AddQuote, WithLast
  <2> HIDE DEF record
  <2>6. /\ ListOfLength(all, n + 1) /\ all[n + 1] = record
        /\ \A i \in 1..n : all[i] = registry[i]
    BY <2>1, ListAppended DEF NumberedTo
  <2> HIDE DEF all
  <2>7. NumberedTo(all, held, n + 1)
    <3>1. ASSUME NEW i \in 1..(n + 1)
          PROVE  /\ Relocatable(all[i].quote)
                 /\ all[i].origin = IF i <= held THEN "existing_candidate" ELSE "deep_quote"
                 /\ all[i].number = IF i <= held THEN i ELSE i - held
      <4>1. CASE i = n + 1
        BY <1>2, <2>2, <2>4, <2>6, <4>1
      <4>2. CASE i \in 1..n
        BY <2>1, <2>6, <4>2 DEF NumberedTo
      <4> QED
        BY <4>1, <4>2
    <3> QED
      BY <2>2, <2>6, <3>1 DEF NumberedTo
  <2>8. EvidenceIds(registry) \subseteq EvidenceIds(all)
    <3>1. n + 1 \in Nat /\ DOMAIN all = 1..(n + 1)
      BY <2>6, ListIs, n + 1 \in Nat
    <3> QED
      BY <2>2, <2>6, <3>1 DEF EvidenceIds
  <2> QED
    BY <2>2, <2>5, <2>7, <2>8 DEF Numbered
<1> QED
  BY <1>1, <1>2

QuotedUpTo(registry, quotes, m, f) ==
    f = [n \in 0..m |-> IF n = 0 THEN registry ELSE AddQuote(f[n - 1], quotes[n])]
LEMMA QuotedExists ==
  ASSUME NEW registry, NEW quotes, NEW m \in Nat
  PROVE  \E f : QuotedUpTo(registry, quotes, m, f)
<1> DEFINE S == {k \in Nat : \E f : QuotedUpTo(registry, quotes, k, f)}
<1>1. 0 \in S
  <2>1. QuotedUpTo(registry, quotes, 0, [n \in 0..0 |-> registry])
    BY DEF QuotedUpTo
  <2> QED
    BY <2>1
<1>2. ASSUME NEW k \in Nat, k \in S
      PROVE  k + 1 \in S
  <2>1. PICK f : QuotedUpTo(registry, quotes, k, f)
    BY <1>2
  <2> DEFINE last == AddQuote(f[k], quotes[k + 1])
             g == [n \in 0..(k + 1) |-> IF n = k + 1 THEN last ELSE f[n]]
  <2>2. \A n \in 0..k : f[n] = IF n = 0 THEN registry ELSE AddQuote(f[n - 1], quotes[n])
    BY <2>1 DEF QuotedUpTo
  <2>3. g[k + 1] = last /\ \A n \in 0..k : g[n] = f[n]
    OBVIOUS
  <2>4. ASSUME NEW n \in 0..(k + 1)
        PROVE  g[n] = IF n = 0 THEN registry ELSE AddQuote(g[n - 1], quotes[n])
    <3>1. CASE n = k + 1
      <4>1. n - 1 = k /\ k \in 0..k /\ n # 0
        BY <3>1
      <4> HIDE DEF g
      <4> QED
        BY <2>3, <3>1, <4>1
    <3>2. CASE n # k + 1
      <4>1. n \in 0..k /\ (n # 0 => n - 1 \in 0..k)
        BY <3>2
      <4> HIDE DEF g
      <4> QED
        BY <2>2, <2>3, <4>1
    <3> QED
      BY <3>1, <3>2
  <2>5. DOMAIN g = 0..(k + 1) /\ g = [n \in 0..(k + 1) |-> g[n]]
    OBVIOUS
  <2> HIDE DEF g
  <2>6. QuotedUpTo(registry, quotes, k + 1, g)
    BY <2>4, <2>5 DEF QuotedUpTo
  <2> QED
    BY <2>6
<1> HIDE DEF S
<1>3. Nat \subseteq S
  BY <1>1, <1>2, NaturalsByOne
<1> QED
  BY <1>3 DEF S

LEMMA AddQuotesNumbers ==
  ASSUME NEW registry, NEW held, Numbered(registry, held), NEW quotes, IsList(quotes)
  PROVE  /\ Numbered(AddQuotes(registry, quotes), held)
         /\ EvidenceIds(registry) \subseteq EvidenceIds(AddQuotes(registry, quotes))
<1> DEFINE m == Len(quotes)
           f == CHOOSE f : QuotedUpTo(registry, quotes, m, f)
<1>1. m \in Nat
  BY SeqIsList DEF IsList
<1>2. QuotedUpTo(registry, quotes, m, f)
  BY <1>1, QuotedExists
<1>3. AddQuotes(registry, quotes) = f[m]
  BY DEF AddQuotes, QuotedUpTo
<1> HIDE DEF f, m
<1>4. f[0] = registry /\ \A n \in 1..m : f[n] = AddQuote(f[n - 1], quotes[n])
  BY <1>1, <1>2 DEF QuotedUpTo
<1> DEFINE S == {n \in Nat : n <= m => Numbered(f[n], held) /\ EvidenceIds(registry) \subseteq EvidenceIds(f[n])}
<1>5. 0 \in S
  BY <1>4
<1>6. ASSUME NEW n \in Nat, n \in S
      PROVE  n + 1 \in S
  <2> SUFFICES ASSUME n + 1 <= m
               PROVE  Numbered(f[n + 1], held) /\ EvidenceIds(registry) \subseteq EvidenceIds(f[n + 1])
    OBVIOUS
  <2>1. n + 1 \in 1..m /\ n + 1 - 1 = n /\ n <= m
    BY <1>1
  <2>2. f[n + 1] = AddQuote(f[n], quotes[n + 1])
    BY <1>4, <2>1
  <2>3. Numbered(f[n], held) /\ EvidenceIds(registry) \subseteq EvidenceIds(f[n])
    BY <1>6, <2>1
  <2>4. Numbered(f[n + 1], held) /\ EvidenceIds(f[n]) \subseteq EvidenceIds(f[n + 1])
    BY <2>2, <2>3, AddQuoteNumbers
  <2> QED
    BY <2>3, <2>4
<1> HIDE DEF S
<1>7. Nat \subseteq S
  BY <1>5, <1>6, NaturalsByOne
<1> QED
  BY <1>1, <1>3, <1>7 DEF S

\* What a value cites is registered, and it is stated exactly if it cites anything.
Backs(registry, value) ==
    value.evidence \subseteq EvidenceIds(registry) /\ (value.status = "stated" <=> value.evidence # {})
AllBacked(registry, values) ==
    \E n \in Nat : ListOfLength(values, n) /\ \A i \in 1..n : Backs(registry, values[i])
Taken(acc, held) ==
    /\ acc = [valid |-> acc.valid, registry |-> acc.registry, values |-> acc.values]
    /\ Numbered(acc.registry, held) /\ AllBacked(acc.registry, acc.values)

LEMMA OneMoreBacked ==
  ASSUME NEW registry, NEW values, AllBacked(registry, values),
         NEW more, EvidenceIds(registry) \subseteq EvidenceIds(more), NEW value, Backs(more, value)
  PROVE  AllBacked(more, WithLast(values, value))
<1> DEFINE all == WithLast(values, value)
<1>1. PICK n \in Nat : ListOfLength(values, n) /\ \A i \in 1..n : Backs(registry, values[i])
  BY DEF AllBacked
<1>2. ListOfLength(all, n + 1) /\ all[n + 1] = value /\ \A i \in 1..n : all[i] = values[i]
  BY <1>1, ListAppended
<1> HIDE DEF all
<1>3. \A i \in 1..n : Backs(more, values[i])
  BY <1>1 DEF Backs
<1>4. \A i \in 1..(n + 1) : Backs(more, all[i])
  <2> TAKE i \in 1..(n + 1)
  <2>1. i = n + 1 \/ i \in 1..n
    OBVIOUS
  <2> QED
    BY <1>2, <1>3, <2>1
<1>5. AllBacked(more, all)
  BY <1>2, <1>4 DEF AllBacked
<1> QED
  BY <1>5 DEF all

LEMMA TakeValueBacks ==
  ASSUME NEW acc, NEW held, Taken(acc, held), NEW value, IsList(value.quotes)
  PROVE  Taken(TakeValue(acc, value), held)
<1> DEFINE found == AddQuotes(acc.registry, value.quotes)
           added == {EvidenceId(found[i]) : i \in DOMAIN found \ DOMAIN acc.registry}
           foreign == value.ids \ {EvidenceId(acc.registry[i]) : i \in DOMAIN acc.registry}
           backed == value.content # "none" /\ value.ids \cup added # {} /\ Cardinality(added) = Len(value.quotes)
           stated == [status |-> "stated", content |-> value.content, evidence |-> value.ids \cup added,
                      refers |-> value.refers, warned |-> FALSE]
           dropped == [Downgraded EXCEPT !.status = value.status, !.warned = FALSE]
           kept == IF backed THEN stated ELSE Downgraded
<1>1. /\ acc = [valid |-> acc.valid, registry |-> acc.registry, values |-> acc.values]
      /\ Numbered(acc.registry, held) /\ AllBacked(acc.registry, acc.values)
  BY DEF Taken
<1>2. CASE ~acc.valid
  <2>1. TakeValue(acc, value) = acc
    BY <1>2, Zenon DEF TakeValue
  <2> QED
    BY <2>1
<1>3. CASE acc.valid /\ value.status # "stated"
  <2> DEFINE all == WithLast(acc.values, dropped)
  <2>1. TakeValue(acc, value) = [acc EXCEPT !.values = all]
    BY <1>3, Zenon DEF TakeValue, WithLast
  <2>2. dropped.evidence = {} /\ dropped.status = value.status
    BY DEF Downgraded
  <2> HIDE DEF dropped
  <2>3. Backs(acc.registry, dropped)
    BY <1>3, <2>2 DEF Backs
  <2>4. AllBacked(acc.registry, all)
    BY <1>1, <2>3, OneMoreBacked
  <2> HIDE DEF all
  <2>5. TakeValue(acc, value) = [valid |-> acc.valid, registry |-> acc.registry, values |-> all]
    BY <1>1, <2>1
  <2> QED
    BY <1>1, <2>4, <2>5 DEF Taken
<1>4. CASE acc.valid /\ value.status = "stated" /\ foreign # {}
  <2>1. TakeValue(acc, value) = [acc EXCEPT !.valid = FALSE]
    BY <1>4, Zenon DEF TakeValue
  <2>2. TakeValue(acc, value) = [valid |-> FALSE, registry |-> acc.registry, values |-> acc.values]
    BY <1>1, <2>1
  <2> QED
    BY <1>1, <2>2 DEF Taken
<1>5. CASE acc.valid /\ value.status = "stated" /\ foreign = {}
  <2> DEFINE all == WithLast(acc.values, kept)
  <2>1. TakeValue(acc, value) = [acc EXCEPT !.registry = found, !.values = all]
    BY <1>5, Zenon DEF TakeValue, WithLast
  <2>2. Numbered(found, held) /\ EvidenceIds(acc.registry) \subseteq EvidenceIds(found)
    BY <1>1, AddQuotesNumbers
  <2> HIDE DEF found
  <2>3. Backs(found, kept)
    <3>1. CASE backed
      <4>1. kept.evidence = value.ids \cup added /\ kept.status = "stated"
        BY <3>1
      <4>2. added \subseteq EvidenceIds(found)
        BY DEF EvidenceIds
      <4>3. value.ids \subseteq EvidenceIds(found)
        BY <1>5, <2>2 DEF EvidenceIds
      <4>4. value.ids \cup added # {}
        BY <3>1
      <4> HIDE DEF kept, added
      <4> QED
        BY <4>1, <4>2, <4>3, <4>4 DEF Backs
    <3>2. CASE ~backed
      <4>1. kept = Downgraded
        BY <3>2
      <4> HIDE DEF kept
      <4> QED
        BY <4>1 DEF Backs, Downgraded
    <3> QED
      BY <3>1, <3>2
  <2> HIDE DEF kept
  <2>4. AllBacked(found, all)
    BY <1>1, <2>2, <2>3, OneMoreBacked
  <2> HIDE DEF all
  <2>5. TakeValue(acc, value) = [valid |-> acc.valid, registry |-> found, values |-> all]
    BY <1>1, <2>1
  <2> QED
    BY <2>2, <2>4, <2>5 DEF Taken
<1> QED
  BY <1>2, <1>3, <1>4, <1>5

TakenUpTo(start, values, m, f) ==
    f = [n \in 0..m |-> IF n = 0 THEN start ELSE TakeValue(f[n - 1], values[n])]
LEMMA TakenExists ==
  ASSUME NEW start, NEW values, NEW m \in Nat
  PROVE  \E f : TakenUpTo(start, values, m, f)
<1> DEFINE S == {k \in Nat : \E f : TakenUpTo(start, values, k, f)}
<1>1. 0 \in S
  <2>1. TakenUpTo(start, values, 0, [n \in 0..0 |-> start])
    BY DEF TakenUpTo
  <2> QED
    BY <2>1
<1>2. ASSUME NEW k \in Nat, k \in S
      PROVE  k + 1 \in S
  <2>1. PICK f : TakenUpTo(start, values, k, f)
    BY <1>2
  <2> DEFINE last == TakeValue(f[k], values[k + 1])
             g == [n \in 0..(k + 1) |-> IF n = k + 1 THEN last ELSE f[n]]
  <2>2. \A n \in 0..k : f[n] = IF n = 0 THEN start ELSE TakeValue(f[n - 1], values[n])
    BY <2>1 DEF TakenUpTo
  <2>3. g[k + 1] = last /\ \A n \in 0..k : g[n] = f[n]
    OBVIOUS
  <2>4. ASSUME NEW n \in 0..(k + 1)
        PROVE  g[n] = IF n = 0 THEN start ELSE TakeValue(g[n - 1], values[n])
    <3>1. CASE n = k + 1
      <4>1. n - 1 = k /\ k \in 0..k /\ n # 0
        BY <3>1
      <4> HIDE DEF g
      <4> QED
        BY <2>3, <3>1, <4>1
    <3>2. CASE n # k + 1
      <4>1. n \in 0..k /\ (n # 0 => n - 1 \in 0..k)
        BY <3>2
      <4> HIDE DEF g
      <4> QED
        BY <2>2, <2>3, <4>1
    <3> QED
      BY <3>1, <3>2
  <2>5. DOMAIN g = 0..(k + 1) /\ g = [n \in 0..(k + 1) |-> g[n]]
    OBVIOUS
  <2> HIDE DEF g
  <2>6. TakenUpTo(start, values, k + 1, g)
    BY <2>4, <2>5 DEF TakenUpTo
  <2> QED
    BY <2>6
<1> HIDE DEF S
<1>3. Nat \subseteq S
  BY <1>1, <1>2, NaturalsByOne
<1> QED
  BY <1>3 DEF S

LEMMA TakeValuesBacks ==
  ASSUME NEW start, NEW held, Taken(start, held), NEW values, NEW m \in Nat, ListOfLength(values, m),
         \A i \in 1..m : IsList(values[i].quotes)
  PROVE  Taken(TakeValues(start, values), held)
<1> DEFINE f == CHOOSE f : TakenUpTo(start, values, m, f)
<1>1. Len(values) = m
  BY ListIs
<1>2. TakenUpTo(start, values, m, f)
  BY TakenExists
<1>3. TakeValues(start, values) = f[m]
  BY <1>1 DEF TakeValues, TakenUpTo
<1> HIDE DEF f
<1>4. f[0] = start /\ \A n \in 1..m : f[n] = TakeValue(f[n - 1], values[n])
  BY <1>2 DEF TakenUpTo
<1> DEFINE S == {n \in Nat : n <= m => Taken(f[n], held)}
<1>5. 0 \in S
  BY <1>4
<1>6. ASSUME NEW n \in Nat, n \in S
      PROVE  n + 1 \in S
  <2> SUFFICES ASSUME n + 1 <= m
               PROVE  Taken(f[n + 1], held)
    OBVIOUS
  <2>1. n + 1 \in 1..m /\ n + 1 - 1 = n /\ n <= m
    OBVIOUS
  <2>2. f[n + 1] = TakeValue(f[n], values[n + 1])
    BY <1>4, <2>1
  <2>3. Taken(f[n], held)
    BY <1>6, <2>1
  <2> QED
    BY <2>1, <2>2, <2>3, TakeValueBacks
<1> HIDE DEF S
<1>7. Nat \subseteq S
  BY <1>5, <1>6, NaturalsByOne
<1> QED
  BY <1>3, <1>7 DEF S

LEMMA NormalizedQuotes ==
  ASSUME NEW value
  PROVE  Normalized(value).quotes = value.quotes
  BY DEF Normalized

\* Whatever the reply and the bank, what is assembled cites only evidence that is registered,
\* each record under a number of its own and found in the paper.
THEOREM AssembledIsCited ==
  ASSUME NEW reply \in DeepReplies, NEW bank \in Banks, RegistryLoads(bank)
  PROVE  Cited(Assemble(reply, bank))
<1> DEFINE fields == FieldsOf(reply.objects)
           values == [i \in DOMAIN fields |-> Normalized(fields[i])]
           start == [valid |-> reply.kind = "object" /\ \A i \in DOMAIN fields : fields[i].status # "unsupported",
                     registry |-> LoadRegistry(bank), values |-> <<>>]
           taken == TakeValues(start, values)
           held == Len(bank)
<1>1. IsList(bank) /\ IsList(reply.objects)
  BY DeepConstants
<1>2. \A i \in DOMAIN reply.objects : HasFields(reply.objects[i].values)
  <2> TAKE i \in DOMAIN reply.objects
  <2> DEFINE own == reply.objects[i].values
  <2>1. IsList(own) /\ \A j \in DOMAIN own : IsList(own[j].quotes)
    BY DeepConstants
  <2> HIDE DEF own
  <2>2. Len(own) \in Nat /\ ListOfLength(own, Len(own)) /\ DOMAIN own = 1..Len(own)
    BY <2>1, SeqIsList DEF IsList
  <2>3. HasFields(own)
    BY <2>1, <2>2 DEF HasFields
  <2> QED
    BY <2>3 DEF own
<1>3. PICK m \in Nat : ListOfLength(fields, m) /\ \A i \in 1..m : IsList(fields[i].quotes)
  BY <1>1, <1>2, FieldsAreList DEF HasFields
<1>4. DOMAIN fields = 1..m
  BY <1>3, ListIs
<1> HIDE DEF fields
<1>5. ListOfLength(values, m) /\ \A i \in 1..m : values[i] = Normalized(fields[i])
  BY <1>4 DEF ListOfLength
<1> HIDE DEF values
<1>6. \A i \in 1..m : IsList(values[i].quotes)
  <2> TAKE i \in 1..m
  <2>1. values[i].quotes = fields[i].quotes
    BY <1>5, NormalizedQuotes
  <2> QED
    BY <1>3, <2>1
<1>7. Taken(start, held)
  <2>1. Numbered(LoadRegistry(bank), held)
    BY <1>1, LoadedIsNumbered
  <2>2. AllBacked(LoadRegistry(bank), <<>>)
    <3>1. ListOfLength(<<>>, 0)
      BY DEF ListOfLength
    <3> QED
      BY <3>1 DEF AllBacked
  <2>3. start.registry = LoadRegistry(bank) /\ start.values = <<>>
    OBVIOUS
  <2>4. start = [valid |-> start.valid, registry |-> start.registry, values |-> start.values]
    OBVIOUS
  <2> HIDE DEF start
  <2> QED
    BY <2>1, <2>2, <2>3, <2>4 DEF Taken
<1> HIDE DEF start
<1>8. Taken(taken, held)
  BY <1>5, <1>6, <1>7, TakeValuesBacks
<1>9. Assemble(reply, bank).registry = taken.registry /\ Assemble(reply, bank).values = taken.values
  BY DEF Assemble, fields, start, values
<1> HIDE DEF taken
<1> DEFINE sidecar == Assemble(reply, bank)
<1>10. Numbered(sidecar.registry, held) /\ AllBacked(sidecar.registry, sidecar.values)
  BY <1>8, <1>9 DEF Taken
<1> HIDE DEF sidecar
<1>11. /\ Cardinality(EvidenceIds(sidecar.registry)) = Len(sidecar.registry)
       /\ \A i \in DOMAIN sidecar.registry : Relocatable(sidecar.registry[i].quote)
  BY <1>10, NumbersDiffer
<1>12. \A i \in DOMAIN sidecar.values : Backs(sidecar.registry, sidecar.values[i])
  <2>1. PICK n \in Nat : /\ ListOfLength(sidecar.values, n)
                         /\ \A i \in 1..n : Backs(sidecar.registry, sidecar.values[i])
    BY <1>10 DEF AllBacked
  <2>2. DOMAIN sidecar.values = 1..n
    BY <2>1, ListIs
  <2> QED
    BY <2>1, <2>2
<1>13. Cited(sidecar)
  BY <1>11, <1>12 DEF Cited, Backs, EvidenceIds
<1> QED
  BY <1>13 DEF sidecar

---------------------------------------------------------------------------
(* Deep reading: the files of a run *)

DeepSpec == DeepInit /\ [][DeepNext \/ NoteNext]_deepVars

\* What a run has still to write: everything after the model has answered, or what follows
\* from the response it was resumed from.
DeepScript(run, reply, paid) ==
    IF paid THEN Joined(AnswerFiles(run, reply), ResultFiles(run, reply, reply.usage))
    ELSE ResultFiles(run, reply, "resumed")
DeepLength(run, reply) == IF Assemble(reply, run.bank).valid THEN 7 ELSE 4

\* After n files of the result, or -n before them, the response and its checkpoint are there,
\* and so is what was assembled so far.
AnswerStored(files, run, reply, n) ==
    /\ n < 0 => "manifest" \notin DOMAIN files
    /\ n > -4 => "raw" \in DOMAIN files /\ files["raw"] = reply
    /\ n > -3 => /\ "checkpoint" \in DOMAIN files
                 /\ files["checkpoint"].identity = Identity(run) /\ files["checkpoint"].response = reply
SidecarStored(files, run, reply, n) ==
    Assemble(reply, run.bank).valid =>
        /\ n > 0 => "objects" \in DOMAIN files /\ files["objects"] = Assemble(reply, run.bank)
        /\ n > 1 => "registry" \in DOMAIN files /\ files["registry"] = Assemble(reply, run.bank).registry
        /\ n > 2 => "normalization_ledger" \in DOMAIN files
        /\ n > 3 => "failure_ledger" \in DOMAIN files
        /\ n > 4 => "report" \in DOMAIN files /\ files["report"].valid
        /\ n > 5 => "usage" \in DOMAIN files

\* A manifest is of the checkpointed response; one that tells of success, of all that follows from it.
FilesBacked(files) ==
    "manifest" \in DOMAIN files =>
        LET manifest == files["manifest"]
        IN  /\ {"raw", "checkpoint"} \subseteq DOMAIN files /\ manifest.identity = Identity(manifest.identity)
            /\ files["checkpoint"].identity = manifest.identity /\ files["checkpoint"].response = files["raw"]
            /\ manifest.status = "validation_success" =>
                /\ {"objects", "registry", "normalization_ledger", "failure_ledger", "report", "usage"} \subseteq DOMAIN files
                /\ Assemble(files["raw"], manifest.identity.bank).valid
                /\ files["objects"] = Assemble(files["raw"], manifest.identity.bank)
                /\ files["registry"] = files["objects"].registry
                /\ files["report"].valid

\* What is stored as objects is cited, and what is stored as the response is one of the model.
FileFits(name, content) == (name = "objects" => Cited(content)) /\ (name = "raw" => content \in DeepReplies)
FitList(writes) ==
    \E n \in Nat : ListOfLength(writes, n) /\ \A i \in 1..n : FileFits(writes[i][1], writes[i][2])

DeepShape ==
    /\ deepDisk = [dir \in {"note", "run", "replay"} |-> deepDisk[dir]]
    /\ deepRun # NoDeepRun => deepRun.dir \in {"run", "replay"} /\ deepRun.bank \in Banks /\ RegistryLoads(deepRun.bank)
    /\ deepAsking => deepRun # NoDeepRun /\ deepRun.dir = "run" /\ deepWrites = <<>> /\ "manifest" \notin Stored("run")
    /\ deepWrites # <<>> => deepRun # NoDeepRun
DeepFits ==
    /\ FitList(deepWrites)
    /\ \A dir \in {"run", "replay"} : \A file \in Stored(dir) : FileFits(file, deepDisk[dir][file])
Pending(files, run, writes) ==
    \E paid \in BOOLEAN, reply \in DeepReplies, n \in -4..6 :
        LET length == DeepLength(run, reply)
            before == IF paid THEN 4 ELSE 0
        IN  /\ 0 <= n + before /\ n < length
            /\ writes = After(DeepScript(run, reply, paid), length + before, n + before)
            /\ AnswerStored(files, run, reply, n) /\ SidecarStored(files, run, reply, n)
\* What is written in the directory of a run is the end of a script of which the rest is stored.
DeepPending == deepWrites # <<>> /\ deepRun.dir = "run" => Pending(deepDisk["run"], deepRun, deepWrites)
DeepInv == DeepShape /\ DeepFits /\ FilesBacked(deepDisk["run"]) /\ DeepPending /\ NoteIsAnchored

\* The files of a result, of an answer, and of both.
LEMMA ResultIs ==
  ASSUME NEW run, NEW reply, NEW usage
  PROVE  /\ ListOfLength(ResultFiles(run, reply, usage), DeepLength(run, reply))
         /\ Assemble(reply, run.bank).valid =>
              /\ ResultFiles(run, reply, usage)[1] = <<"objects", Assemble(reply, run.bank)>>
              /\ ResultFiles(run, reply, usage)[2] = <<"registry", Assemble(reply, run.bank).registry>>
              /\ ResultFiles(run, reply, usage)[3] = <<"normalization_ledger", NormalizationLedger(reply)>>
              /\ ResultFiles(run, reply, usage)[4] = <<"failure_ledger", FailureLedger(Assemble(reply, run.bank))>>
              /\ ResultFiles(run, reply, usage)[5] = <<"report", ReportOf(Assemble(reply, run.bank))>>
              /\ ResultFiles(run, reply, usage)[6] = <<"usage", usage>>
              /\ ResultFiles(run, reply, usage)[7] = <<"manifest", Manifest(run, "validation_success")>>
         /\ ~Assemble(reply, run.bank).valid =>
              /\ ResultFiles(run, reply, usage)[1] = <<"error", reply>>
              /\ ResultFiles(run, reply, usage)[2] = InvalidReport
              /\ ResultFiles(run, reply, usage)[3] = <<"usage", usage>>
              /\ ResultFiles(run, reply, usage)[4] = <<"manifest", Manifest(run, "validation_failed")>>
<1> DEFINE sidecar == Assemble(reply, run.bank)
           s == ResultFiles(run, reply, usage)
           done == TransportFiles(run, usage, "validation_success")
           failed == TransportFiles(run, usage, "validation_failed")
           objects == ObjectFiles(reply, sidecar)
           errors == <<<<"error", reply>>, InvalidReport>>
<1>1. /\ ListOfLength(done, 2) /\ done[1] = <<"usage", usage>>
      /\ done[2] = <<"manifest", Manifest(run, "validation_success")>>
      /\ ListOfLength(failed, 2) /\ failed[1] = <<"usage", usage>>
      /\ failed[2] = <<"manifest", Manifest(run, "validation_failed")>>
  BY DEF TransportFiles, ListOfLength
<1>2. /\ ListOfLength(objects, 5) /\ objects[1] = <<"objects", sidecar>>
      /\ objects[2] = <<"registry", sidecar.registry>>
      /\ objects[3] = <<"normalization_ledger", NormalizationLedger(reply)>>
      /\ objects[4] = <<"failure_ledger", FailureLedger(sidecar)>>
      /\ objects[5] = <<"report", ReportOf(sidecar)>>
  BY DEF ObjectFiles, ListOfLength
<1>3. ListOfLength(errors, 2) /\ errors[1] = <<"error", reply>> /\ errors[2] = InvalidReport
  BY DEF ListOfLength
<1>4. sidecar.valid => s = Joined(objects, done)
  BY Zenon DEF ResultFiles, Joined
<1>5. ~sidecar.valid => s = Joined(errors, failed)
  BY Zenon DEF ResultFiles, Joined
<1>6. DeepLength(run, reply) = IF sidecar.valid THEN 7 ELSE 4
  BY DEF DeepLength
<1> HIDE DEF s, sidecar, done, failed, objects, errors
<1>7. CASE sidecar.valid
  <2>0. 5 \in Nat /\ 2 \in Nat /\ ListOfLength(objects, 5) /\ ListOfLength(done, 2) /\ s = Joined(objects, done)
    BY <1>1, <1>2, <1>4, <1>7
  <2>1. /\ ListOfLength(s, 5 + 2)
        /\ \A i \in 1..(5 + 2) : s[i] = IF i <= 5 THEN objects[i] ELSE done[i - 5]
    BY <2>0, ListsJoined
  <2>2. /\ ListOfLength(s, 7) /\ s[1] = objects[1] /\ s[2] = objects[2] /\ s[3] = objects[3] /\ s[4] = objects[4]
        /\ s[5] = objects[5] /\ s[6] = done[1] /\ s[7] = done[2]
    BY <2>1
  <2> QED
    BY <1>1, <1>2, <1>6, <1>7, <2>2 DEF s, sidecar
<1>8. CASE ~sidecar.valid
  <2>0. 2 \in Nat /\ ListOfLength(errors, 2) /\ ListOfLength(failed, 2) /\ s = Joined(errors, failed)
    BY <1>1, <1>3, <1>5, <1>8
  <2>1. /\ ListOfLength(s, 2 + 2)
        /\ \A i \in 1..(2 + 2) : s[i] = IF i <= 2 THEN errors[i] ELSE failed[i - 2]
    BY <2>0, ListsJoined
  <2>2. /\ ListOfLength(s, 4) /\ s[1] = errors[1] /\ s[2] = errors[2]
        /\ s[3] = failed[1] /\ s[4] = failed[2]
    BY <2>1
  <2> QED
    BY <1>1, <1>3, <1>6, <1>8, <2>2 DEF s, sidecar
<1> QED
  BY <1>7, <1>8

LEMMA AnswerIs ==
  ASSUME NEW run, NEW reply
  PROVE  /\ ListOfLength(AnswerFiles(run, reply), 4)
         /\ AnswerFiles(run, reply)[1] = <<"raw", reply>>
         /\ AnswerFiles(run, reply)[2] = <<"checkpoint", [identity |-> Identity(run), response |-> reply]>>
         /\ AnswerFiles(run, reply)[3] = <<"usage", reply.usage>>
         /\ AnswerFiles(run, reply)[4] = <<"manifest", Manifest(run, "provider_response_received")>>
<1> DEFINE s == AnswerFiles(run, reply)
           told == TransportFiles(run, reply.usage, "provider_response_received")
           paid == <<<<"raw", reply>>, <<"checkpoint", [identity |-> Identity(run), response |-> reply]>>>>
<1>1. /\ ListOfLength(told, 2) /\ told[1] = <<"usage", reply.usage>>
      /\ told[2] = <<"manifest", Manifest(run, "provider_response_received")>>
  BY DEF TransportFiles, ListOfLength
<1>2. /\ ListOfLength(paid, 2) /\ paid[1] = <<"raw", reply>>
      /\ paid[2] = <<"checkpoint", [identity |-> Identity(run), response |-> reply]>>
  BY DEF ListOfLength
<1>3. s = Joined(paid, told)
  BY Zenon DEF AnswerFiles, Joined
<1> HIDE DEF s, told, paid
<1>4. /\ ListOfLength(s, 2 + 2)
      /\ \A i \in 1..(2 + 2) : s[i] = IF i <= 2 THEN paid[i] ELSE told[i - 2]
  BY <1>1, <1>2, <1>3, ListsJoined
<1>5. ListOfLength(s, 4) /\ s[1] = paid[1] /\ s[2] = paid[2] /\ s[3] = told[1] /\ s[4] = told[2]
  BY <1>4
<1> QED
  BY <1>1, <1>2, <1>5 DEF s

LEMMA ScriptIs ==
  ASSUME NEW run, NEW reply, NEW paid \in BOOLEAN
  PROVE  LET s == DeepScript(run, reply, paid)
             length == DeepLength(run, reply)
             before == IF paid THEN 4 ELSE 0
         IN  /\ ListOfLength(s, length + before)
             /\ paid => \A i \in 1..4 : s[i] = AnswerFiles(run, reply)[i]
             /\ \A i \in 1..length : s[i + before] =
                    ResultFiles(run, reply, IF paid THEN reply.usage ELSE "resumed")[i]
<1> DEFINE length == DeepLength(run, reply)
<1>1. length \in Nat
  BY DEF DeepLength
<1>2. \A usage : ListOfLength(ResultFiles(run, reply, usage), length)
  BY ResultIs
<1> HIDE DEF length
<1>3. CASE paid
  <2> DEFINE s == DeepScript(run, reply, paid)
             answer == AnswerFiles(run, reply)
             result == ResultFiles(run, reply, reply.usage)
  <2>1. s = Joined(answer, result)
    BY <1>3 DEF DeepScript
  <2>2. ListOfLength(answer, 4) /\ ListOfLength(result, length)
    BY <1>2, AnswerIs
  <2> HIDE DEF s, answer, result
  <2>3. /\ ListOfLength(s, 4 + length)
        /\ \A i \in 1..(4 + length) : s[i] = IF i <= 4 THEN answer[i] ELSE result[i - 4]
    BY <1>1, <2>1, <2>2, ListsJoined
  <2>4. /\ ListOfLength(s, length + 4) /\ \A i \in 1..4 : s[i] = answer[i]
        /\ \A i \in 1..length : s[i + 4] = result[i]
    BY <1>1, <2>3
  <2> QED
    BY <1>3, <2>4 DEF s, answer, result, length
<1>4. CASE ~paid
  <2> DEFINE s == DeepScript(run, reply, paid)
             result == ResultFiles(run, reply, "resumed")
  <2>1. s = result
    BY <1>4 DEF DeepScript
  <2>2. ListOfLength(result, length)
    BY <1>2
  <2> HIDE DEF s, result
  <2>3. ListOfLength(s, length + 0) /\ \A i \in 1..length : s[i + 0] = result[i]
    BY <1>1, <2>1, <2>2
  <2> QED
    BY <1>4, <2>3 DEF s, result, length
<1> QED
  BY <1>3, <1>4

\* What storing the next file of an answer, or of a result, leaves behind.
LEMMA StoringAnswer ==
  ASSUME NEW files, NEW run, NEW reply, NEW n \in -4..-1, AnswerStored(files, run, reply, n)
  PROVE  LET write == AnswerFiles(run, reply)[n + 5]
             all == WithFile(files, write[1], write[2])
         IN  AnswerStored(all, run, reply, n + 1) /\ SidecarStored(all, run, reply, n + 1) /\ FilesBacked(all)
<1> DEFINE s == AnswerFiles(run, reply)
           write == s[n + 5]
           all == WithFile(files, write[1], write[2])
<1>1. /\ s[1] = <<"raw", reply>>
      /\ s[2] = <<"checkpoint", [identity |-> Identity(run), response |-> reply]>>
      /\ s[3] = <<"usage", reply.usage>>
      /\ s[4] = <<"manifest", Manifest(run, "provider_response_received")>>
  BY AnswerIs
<1>2. SidecarStored(all, run, reply, n + 1)
  BY DEF SidecarStored
<1>3. /\ DOMAIN all = DOMAIN files \cup {write[1]} /\ all[write[1]] = write[2]
      /\ \A file \in DOMAIN files : file # write[1] => all[file] = files[file]
  <2> HIDE DEF write
  <2> QED
    BY DEF WithFile
<1> HIDE DEF s, all
<1> DEFINE identity == Identity(run)
<1>8. identity = Identity(identity)
  BY DEF Identity
<1> HIDE DEF identity
<1>4. CASE n = -4
  BY <1>1, <1>2, <1>3, <1>4 DEF AnswerStored, FilesBacked, all, s
<1>5. CASE n = -3
  BY <1>1, <1>2, <1>3, <1>5 DEF AnswerStored, FilesBacked, all, s
<1>6. CASE n = -2
  BY <1>1, <1>2, <1>3, <1>6 DEF AnswerStored, FilesBacked, all, s
<1>7. CASE n = -1
  BY <1>1, <1>2, <1>3, <1>7, <1>8 DEF AnswerStored, FilesBacked, Manifest, all, s, identity
<1> QED
  BY <1>4, <1>5, <1>6, <1>7

LEMMA StoringResult ==
  ASSUME NEW files, NEW run, NEW reply, NEW usage, NEW n \in 0..(DeepLength(run, reply) - 1), FilesBacked(files),
         AnswerStored(files, run, reply, n), SidecarStored(files, run, reply, n)
  PROVE  LET write == ResultFiles(run, reply, usage)[n + 1]
             all == WithFile(files, write[1], write[2])
         IN  AnswerStored(all, run, reply, n + 1) /\ SidecarStored(all, run, reply, n + 1) /\ FilesBacked(all)
<1> DEFINE s == ResultFiles(run, reply, usage)
           write == s[n + 1]
           all == WithFile(files, write[1], write[2])
           sidecar == Assemble(reply, run.bank)
           name == write[1]
           content == write[2]
<1>1. /\ sidecar.valid =>
           /\ s[1] = <<"objects", sidecar>> /\ s[2] = <<"registry", sidecar.registry>>
           /\ s[3] = <<"normalization_ledger", NormalizationLedger(reply)>>
           /\ s[4] = <<"failure_ledger", FailureLedger(sidecar)>> /\ s[5] = <<"report", ReportOf(sidecar)>>
           /\ s[6] = <<"usage", usage>> /\ s[7] = <<"manifest", Manifest(run, "validation_success")>>
      /\ ~sidecar.valid =>
           /\ s[1] = <<"error", reply>> /\ s[2] = InvalidReport /\ s[3] = <<"usage", usage>>
           /\ s[4] = <<"manifest", Manifest(run, "validation_failed")>>
  BY ResultIs
<1>2. n \in 0..6 /\ (~sidecar.valid => n < 4)
  BY DEF DeepLength
<1>3. /\ DOMAIN all = DOMAIN files \cup {name} /\ all[name] = content
      /\ \A file \in DOMAIN files : file # name => all[file] = files[file]
  <2> HIDE DEF write
  <2> QED
    BY DEF WithFile
<1>4. /\ "raw" \in DOMAIN files /\ files["raw"] = reply /\ "checkpoint" \in DOMAIN files
      /\ files["checkpoint"].identity = Identity(run) /\ files["checkpoint"].response = reply
  BY <1>2 DEF AnswerStored
<1>5. Identity(run).bank = run.bank /\ Identity(run) = Identity(Identity(run))
  BY DEF Identity
<1> HIDE DEF all, s, sidecar
<1>6. name \notin {"raw", "checkpoint"}
  BY <1>1, <1>2 DEF InvalidReport
<1>7. AnswerStored(all, run, reply, n + 1)
  BY <1>2, <1>3, <1>4, <1>6 DEF AnswerStored
<1>8. ReportOf(sidecar).valid
  BY DEF ReportOf
<1>9. "manifest" \in DOMAIN files /\ files["manifest"].status = "validation_success" =>
        /\ {"objects", "registry", "normalization_ledger", "failure_ledger", "report", "usage"} \subseteq DOMAIN files
        /\ sidecar.valid /\ files["objects"] = sidecar /\ files["registry"] = sidecar.registry
        /\ files["report"].valid
  BY <1>4, <1>5 DEF FilesBacked, sidecar
<1>10. "manifest" \in DOMAIN files => files["manifest"].identity = Identity(run)
  BY <1>4 DEF FilesBacked
<1>11. SidecarStored(all, run, reply, n + 1)
  <2> SUFFICES ASSUME sidecar.valid
               PROVE  /\ n + 1 > 0 => "objects" \in DOMAIN all /\ all["objects"] = sidecar
                      /\ n + 1 > 1 => "registry" \in DOMAIN all /\ all["registry"] = sidecar.registry
                      /\ n + 1 > 2 => "normalization_ledger" \in DOMAIN all
                      /\ n + 1 > 3 => "failure_ledger" \in DOMAIN all
                      /\ n + 1 > 4 => "report" \in DOMAIN all /\ all["report"].valid
                      /\ n + 1 > 5 => "usage" \in DOMAIN all
    BY DEF SidecarStored, sidecar
  <2>1. /\ n > 0 => "objects" \in DOMAIN files /\ files["objects"] = sidecar
        /\ n > 1 => "registry" \in DOMAIN files /\ files["registry"] = sidecar.registry
        /\ n > 2 => "normalization_ledger" \in DOMAIN files
        /\ n > 3 => "failure_ledger" \in DOMAIN files
        /\ n > 4 => "report" \in DOMAIN files /\ files["report"].valid
        /\ n > 5 => "usage" \in DOMAIN files
    BY DEF SidecarStored, sidecar
  <2> QED
    BY <1>1, <1>2, <1>3, <1>8, <2>1
<1>12. /\ {"raw", "checkpoint"} \subseteq DOMAIN all /\ all["raw"] = reply
       /\ all["checkpoint"].identity = Identity(run) /\ all["checkpoint"].response = reply
  BY <1>3, <1>4, <1>6
<1>13. FilesBacked(all)
  <2>1. CASE name = "manifest"
    <3>1. CASE sidecar.valid
      <4>1. n = 6 /\ content = Manifest(run, "validation_success")
        BY <1>1, <1>2, <2>1, <3>1
      <4>2. /\ {"objects", "registry", "normalization_ledger", "failure_ledger", "report", "usage"} \subseteq DOMAIN all
            /\ all["objects"] = sidecar /\ all["registry"] = sidecar.registry /\ all["report"].valid
        BY <1>11, <3>1, <4>1 DEF SidecarStored, sidecar
      <4>3. all["manifest"].identity = Identity(run)
        BY <1>3, <2>1, <4>1 DEF Manifest
      <4> QED
        BY <1>5, <1>12, <3>1, <4>2, <4>3 DEF FilesBacked, sidecar
    <3>2. CASE ~sidecar.valid
      <4>1. content = Manifest(run, "validation_failed")
        BY <1>1, <1>2, <2>1, <3>2 DEF InvalidReport
      <4>2. all["manifest"].identity = Identity(run) /\ all["manifest"].status = "validation_failed"
        BY <1>3, <2>1, <4>1 DEF Manifest
      <4> QED
        BY <1>5, <1>12, <4>2 DEF FilesBacked
    <3> QED
      BY <3>1, <3>2
  <2>2. CASE name # "manifest"
    <3> SUFFICES ASSUME "manifest" \in DOMAIN files
                 PROVE  FilesBacked(all)
      BY <1>3, <2>2 DEF FilesBacked
    <3>1. all["manifest"] = files["manifest"] /\ all["manifest"].identity = Identity(run)
      BY <1>3, <1>10, <2>2
    <3>2. CASE all["manifest"].status = "validation_success"
      <4>1. sidecar.valid /\ files["objects"] = sidecar /\ files["registry"] = sidecar.registry /\ files["report"].valid
        BY <1>9, <3>1, <3>2
      <4>2. {"objects", "registry", "normalization_ledger", "failure_ledger", "report", "usage"} \subseteq DOMAIN all
        BY <1>3, <1>9, <3>1, <3>2
      <4>3. /\ name = "objects" => content = sidecar
            /\ name = "registry" => content = sidecar.registry
            /\ name = "report" => content.valid
        BY <1>1, <1>2, <1>8, <4>1
      <4>4. all["objects"] = sidecar /\ all["registry"] = sidecar.registry /\ all["report"].valid
        BY <1>3, <1>9, <3>1, <3>2, <4>1, <4>3
      <4> QED
        BY <1>5, <1>12, <3>1, <4>1, <4>2, <4>4 DEF FilesBacked, sidecar
    <3>3. CASE all["manifest"].status # "validation_success"
      BY <1>5, <1>12, <3>1, <3>3 DEF FilesBacked
    <3> QED
      BY <3>2, <3>3
  <2> QED
    BY <2>1, <2>2
<1> QED
  BY <1>7, <1>11, <1>13 DEF all, s

\* The next of the files a run has to write, and those after it.
LEMMA PendingStored ==
  ASSUME NEW files, NEW run, NEW writes, Pending(files, run, writes), FilesBacked(files)
  PROVE  LET all == WithFile(files, writes[1][1], writes[1][2])
         IN  FilesBacked(all) /\ (Rest(writes) = <<>> \/ Pending(all, run, Rest(writes)))
<1> DEFINE all == WithFile(files, writes[1][1], writes[1][2])
<1>1. PICK paid \in BOOLEAN, reply \in DeepReplies, n \in -4..6 :
        LET length == DeepLength(run, reply)
            before == IF paid THEN 4 ELSE 0
        IN  /\ 0 <= n + before /\ n < length
            /\ writes = After(DeepScript(run, reply, paid), length + before, n + before)
            /\ AnswerStored(files, run, reply, n) /\ SidecarStored(files, run, reply, n)
  BY DEF Pending
<1> DEFINE length == DeepLength(run, reply)
           before == IF paid THEN 4 ELSE 0
           s == DeepScript(run, reply, paid)
           usage == IF paid THEN reply.usage ELSE "resumed"
<1>2. /\ 0 <= n + before /\ n < length /\ writes = After(s, length + before, n + before)
      /\ AnswerStored(files, run, reply, n) /\ SidecarStored(files, run, reply, n)
  BY <1>1
<1>3. length \in {4, 7} /\ before \in {0, 4} /\ (~paid => before = 0) /\ (paid => before = 4)
  BY DEF DeepLength
<1>4. /\ ListOfLength(s, length + before)
      /\ paid => \A i \in 1..4 : s[i] = AnswerFiles(run, reply)[i]
      /\ \A i \in 1..length : s[i + before] = ResultFiles(run, reply, usage)[i]
  BY ScriptIs
<1> HIDE DEF s, length, before, usage
<1>5. length + before \in Nat /\ n + before \in 0..(length + before) /\ n + before < length + before
  BY <1>2, <1>3
<1>6. /\ writes[1] = s[n + before + 1]
      /\ Rest(writes) = After(s, length + before, n + before + 1)
      /\ n + before + 1 = length + before => Rest(writes) = <<>>
  <2> DEFINE total == length + before
             at == n + before
  <2>1. /\ total \in Nat /\ at \in 0..total /\ at < total /\ at + 1 \in 0..total
        /\ ListOfLength(s, total) /\ writes = After(s, total, at)
    BY <1>2, <1>4, <1>5
  <2> HIDE DEF total, at
  <2>2. After(s, total, at)[1] = s[at + 1] /\ Rest(After(s, total, at)) = After(s, total, at + 1)
    BY <2>1, AfterIs
  <2>3. at + 1 = total => After(s, total, at + 1) = <<>>
    BY <2>1, AfterIs
  <2>4. writes[1] = s[at + 1] /\ Rest(writes) = After(s, total, at + 1) /\ (at + 1 = total => Rest(writes) = <<>>)
    BY <2>1, <2>2, <2>3
  <2> QED
    BY <2>4 DEF total, at
<1>7. AnswerStored(all, run, reply, n + 1) /\ SidecarStored(all, run, reply, n + 1) /\ FilesBacked(all)
  <2>1. CASE n < 0
    <3>1. n \in -4..-1 /\ before = 4 /\ paid
      BY <1>2, <1>3, <2>1
    <3>2. n + before + 1 = n + 5 /\ n + 5 \in 1..4
      BY <3>1
    <3>3. writes[1] = AnswerFiles(run, reply)[n + 5]
      BY <1>4, <1>6, <3>1, <3>2
    <3> QED
      BY <1>2, <3>1, <3>3, StoringAnswer
  <2>2. CASE n >= 0
    <3>1. n \in 0..(length - 1) /\ n + 1 \in 1..length /\ n + before + 1 = n + 1 + before
      BY <1>2, <1>3, <2>2
    <3>2. writes[1] = ResultFiles(run, reply, usage)[n + 1]
      BY <1>4, <1>6, <3>1
    <3> QED
      BY <1>2, <3>1, <3>2, StoringResult DEF length
  <2> QED
    BY <2>1, <2>2
<1>8. CASE n + 1 = length
  <2>1. n + before + 1 = length + before
    BY <1>3, <1>8
  <2>2. Rest(writes) = <<>>
    BY <1>6, <2>1
  <2> QED
    BY <1>7, <2>2
<1>9. CASE n + 1 # length
  <2>1. n + 1 \in -4..6 /\ 0 <= n + 1 + before /\ n + 1 < length /\ n + before + 1 = n + 1 + before
    BY <1>2, <1>3, <1>9
  <2>2. Pending(all, run, Rest(writes))
    BY <1>6, <1>7, <2>1 DEF Pending, length, before, s
  <2> QED
    BY <1>7, <2>2
<1> QED
  BY <1>8, <1>9

\* Lists of files that fit.
LEMMA FitsJoined ==
  ASSUME NEW s, FitList(s), NEW t, FitList(t)
  PROVE  FitList(Joined(s, t))
<1> DEFINE st == Joined(s, t)
<1>1. PICK m \in Nat : ListOfLength(s, m) /\ \A i \in 1..m : FileFits(s[i][1], s[i][2])
  BY DEF FitList
<1>2. PICK n \in Nat : ListOfLength(t, n) /\ \A i \in 1..n : FileFits(t[i][1], t[i][2])
  BY DEF FitList
<1>3. ListOfLength(st, m + n) /\ \A i \in 1..(m + n) : st[i] = IF i <= m THEN s[i] ELSE t[i - m]
  <2>1. ListOfLength(s, m)
    BY <1>1
  <2>2. ListOfLength(t, n)
    BY <1>2
  <2> QED
    BY ONLY m \in Nat, n \in Nat, <2>1, <2>2, ListsJoined
<1> HIDE DEF st
<1>4. ASSUME NEW i \in 1..(m + n)
      PROVE  FileFits(st[i][1], st[i][2])
  <2>1. CASE i <= m
    BY <1>1, <1>3, <2>1
  <2>2. CASE i > m
    <3>1. i - m \in 1..n /\ st[i] = t[i - m]
      BY <1>3, <2>2
    <3> QED
      BY <1>2, <3>1
  <2> QED
    BY <2>1, <2>2
<1>5. FitList(st)
  BY <1>3, <1>4 DEF FitList
<1> QED
  BY <1>5 DEF st

LEMMA FitsNext ==
  ASSUME NEW s, FitList(s), s # <<>>
  PROVE  FileFits(s[1][1], s[1][2]) /\ FitList(Rest(s))
<1>1. PICK n \in Nat : ListOfLength(s, n) /\ \A i \in 1..n : FileFits(s[i][1], s[i][2])
  BY DEF FitList
<1>2. After(s, n, 0) = s /\ (After(s, n, 0) = <<>> <=> 0 = n)
  BY <1>1, AfterIs
<1>3. n > 0
  BY <1>2
<1>4. Rest(After(s, n, 0)) = After(s, n, 0 + 1)
  BY <1>1, <1>3, AfterIs
<1>5. Rest(s) = After(s, n, 1)
  BY <1>2, <1>4
<1>6. ListOfLength(After(s, n, 1), n - 1)
  BY <1>1, <1>3, AfterIs
<1>7. \A i \in 1..(n - 1) : After(s, n, 1)[i] = s[1 + i] /\ 1 + i \in 1..n
  BY DEF After
<1> DEFINE rest == After(s, n, 1)
           m == n - 1
<1>8. m \in Nat /\ ListOfLength(rest, m) /\ \A i \in 1..m : FileFits(rest[i][1], rest[i][2])
  BY <1>1, <1>3, <1>6, <1>7
<1> HIDE DEF rest, m
<1>9. FitList(rest)
  BY <1>8 DEF FitList
<1>10. FitList(Rest(s))
  BY <1>5, <1>9 DEF rest
<1> QED
  BY <1>1, <1>3, <1>10

LEMMA ListsThatFit ==
  /\ FitList(<<>>)
  /\ \A e : FileFits(e[1], e[2]) => FitList(<<e>>)
  /\ \A e, f : FileFits(e[1], e[2]) /\ FileFits(f[1], f[2]) => FitList(<<e, f>>)
<1>1. FitList(<<>>)
  <2>1. ListOfLength(<<>>, 0)
    BY DEF ListOfLength
  <2> QED
    BY <2>1 DEF FitList
<1>2. ASSUME NEW e, FileFits(e[1], e[2])
      PROVE  FitList(<<e>>)
  <2>1. ListOfLength(<<e>>, 1) /\ <<e>>[1] = e
    BY DEF ListOfLength
  <2> QED
    BY <1>2, <2>1 DEF FitList
<1>3. ASSUME NEW e, NEW f, FileFits(e[1], e[2]), FileFits(f[1], f[2])
      PROVE  FitList(<<e, f>>)
  <2>1. ListOfLength(<<e, f>>, 2) /\ <<e, f>>[1] = e /\ <<e, f>>[2] = f
    BY DEF ListOfLength
  <2> HIDE <1>3
  <2>2. \A i \in 1..2 : i = 1 \/ i = 2
    OBVIOUS
  <2> QED
    BY <1>3, <2>1, <2>2 DEF FitList
<1> QED
  BY <1>1, <1>2, <1>3

LEMMA OtherFilesFit ==
  ASSUME NEW name, name \notin {"objects", "raw"}, NEW content
  PROVE  FileFits(name, content)
  BY DEF FileFits

\* What a run writes fits, whatever the model answered.
LEMMA ObjectFilesFit ==
  ASSUME NEW reply \in DeepReplies, NEW bank \in Banks, RegistryLoads(bank)
  PROVE  FitList(ObjectFiles(reply, Assemble(reply, bank)))
<1> DEFINE sidecar == Assemble(reply, bank)
           registry == <<"registry", sidecar.registry>>
           normalized == <<"normalization_ledger", NormalizationLedger(reply)>>
           failed == <<"failure_ledger", FailureLedger(sidecar)>>
           report == <<"report", ReportOf(sidecar)>>
           objects == <<"objects", sidecar>>
           s == ObjectFiles(reply, sidecar)
<1>1. FileFits(objects[1], objects[2])
  BY AssembledIsCited DEF FileFits
<1>2. /\ FileFits(registry[1], registry[2]) /\ FileFits(normalized[1], normalized[2]) /\ FileFits(failed[1], failed[2])
      /\ FileFits(report[1], report[2])
  BY OtherFilesFit
<1>3. s = <<objects, registry, normalized, failed, report>>
  BY DEF ObjectFiles
<1> HIDE DEF sidecar, registry, normalized, failed, report, objects, s
<1>4. ListOfLength(s, 5)
  BY <1>3 DEF ListOfLength
<1>5. s[1] = objects /\ s[2] = registry /\ s[3] = normalized /\ s[4] = failed /\ s[5] = report
  BY <1>3
<1>6. \A i \in 1..5 : FileFits(s[i][1], s[i][2])
  <2>1. \A i \in 1..5 : i = 1 \/ i = 2 \/ i = 3 \/ i = 4 \/ i = 5
    OBVIOUS
  <2> QED
    BY <1>1, <1>2, <1>5, <2>1
<1>7. FitList(s)
  BY <1>4, <1>6 DEF FitList
<1> QED
  BY <1>7 DEF s, sidecar

LEMMA TransportFits ==
  ASSUME NEW run, NEW usage, NEW status
  PROVE  FitList(TransportFiles(run, usage, status))
<1> DEFINE e == <<"usage", usage>>
           f == <<"manifest", Manifest(run, status)>>
<1>1. FileFits(e[1], e[2]) /\ FileFits(f[1], f[2])
  BY OtherFilesFit
<1>2. TransportFiles(run, usage, status) = <<e, f>>
  BY DEF TransportFiles
<1> HIDE DEF e, f
<1> QED
  BY <1>1, <1>2, ListsThatFit

LEMMA ResultFits ==
  ASSUME NEW reply \in DeepReplies, NEW run, run.bank \in Banks, RegistryLoads(run.bank), NEW usage
  PROVE  FitList(ResultFiles(run, reply, usage))
<1> DEFINE sidecar == Assemble(reply, run.bank)
           e == <<"error", reply>>
           done == TransportFiles(run, usage, "validation_success")
           failed == TransportFiles(run, usage, "validation_failed")
<1>1. FitList(done) /\ FitList(failed)
  BY TransportFits
<1>2. FitList(ObjectFiles(reply, sidecar))
  BY ObjectFilesFit
<1>3. FitList(<<e, InvalidReport>>)
  <2>1. FileFits(e[1], e[2]) /\ FileFits(InvalidReport[1], InvalidReport[2])
    BY OtherFilesFit DEF InvalidReport
  <2> HIDE DEF e
  <2> QED
    BY <2>1, ListsThatFit
<1>4. CASE sidecar.valid
  <2>1. ResultFiles(run, reply, usage) = Joined(ObjectFiles(reply, sidecar), done)
    BY <1>4, Zenon DEF ResultFiles, Joined
  <2> HIDE DEF sidecar, done
  <2> QED
    BY <1>1, <1>2, <2>1, FitsJoined
<1>5. CASE ~sidecar.valid
  <2>1. ResultFiles(run, reply, usage) = Joined(<<e, InvalidReport>>, failed)
    BY <1>5, Zenon DEF ResultFiles, Joined
  <2> HIDE DEF e, failed
  <2> QED
    BY <1>1, <1>3, <2>1, FitsJoined
<1> QED
  BY <1>4, <1>5

LEMMA AnswerFits ==
  ASSUME NEW reply \in DeepReplies, NEW run
  PROVE  FitList(AnswerFiles(run, reply))
<1> DEFINE e == <<"raw", reply>>
           f == <<"checkpoint", [identity |-> Identity(run), response |-> reply]>>
           told == TransportFiles(run, reply.usage, "provider_response_received")
<1>1. FitList(told)
  BY TransportFits
<1>2. FitList(<<e, f>>)
  <2>1. FileFits(e[1], e[2]) /\ FileFits(f[1], f[2])
    BY DEF FileFits
  <2> HIDE DEF e, f
  <2> QED
    BY <2>1, ListsThatFit
<1>3. AnswerFiles(run, reply) = Joined(<<e, f>>, told)
  BY Zenon DEF AnswerFiles, Joined
<1> HIDE DEF e, f, told
<1> QED
  BY <1>1, <1>2, <1>3, FitsJoined

LEMMA ReplayFits ==
  ASSUME NEW reply \in DeepReplies, NEW run, run.bank \in Banks, RegistryLoads(run.bank)
  PROVE  FitList(ReplayFiles(run, reply))
<1> DEFINE sidecar == Assemble(reply, run.bank)
           made == <<"directory", TRUE>>
           done == <<"manifest", Manifest(run, "validation_success")>>
           failed == <<"manifest", Manifest(run, "validation_failed")>>
           shown == <<"preview", sidecar>>
           objects == ObjectFiles(reply, sidecar)
<1>1. FitList(objects)
  BY ObjectFilesFit
<1>2. /\ FileFits(made[1], made[2]) /\ FileFits(done[1], done[2]) /\ FileFits(failed[1], failed[2]) /\ FileFits(shown[1], shown[2])
      /\ FileFits(InvalidReport[1], InvalidReport[2])
  BY OtherFilesFit DEF InvalidReport
<1>3. sidecar.valid => ReplayFiles(run, reply) = Joined(<<made>>, Joined(objects, <<done, shown>>))
  BY Zenon DEF ReplayFiles, Joined
<1>4. ~sidecar.valid => ReplayFiles(run, reply) = Joined(<<made>>, <<failed, InvalidReport>>)
  BY Zenon DEF ReplayFiles, Joined
<1> HIDE DEF made, done, failed, shown, objects
<1>5. FitList(<<made>>) /\ FitList(<<done, shown>>) /\ FitList(<<failed, InvalidReport>>)
  BY <1>2, ListsThatFit
<1>6. FitList(Joined(objects, <<done, shown>>))
  BY <1>1, <1>5, FitsJoined
<1>7. CASE sidecar.valid
  BY <1>3, <1>5, <1>6, <1>7, FitsJoined
<1>8. CASE ~sidecar.valid
  BY <1>4, <1>5, <1>8, FitsJoined
<1> QED
  BY <1>7, <1>8

\* Each action keeps the files of the runs in order.
LEMMA DeepStarts ==
  ASSUME DeepInit
  PROVE  DeepInv
<1>1. \A dir \in {"note", "run", "replay"} : Stored(dir) = {}
  BY DEF DeepInit, Stored, NoFiles
<1>2. DeepShape
  BY DEF DeepInit, DeepShape
<1>3. DeepFits
  BY <1>1, ListsThatFit DEF DeepInit, DeepFits
<1>4. FilesBacked(deepDisk["run"]) /\ DeepPending /\ NoteIsAnchored
  BY <1>1 DEF DeepInit, FilesBacked, DeepPending, NoteIsAnchored, Stored
<1> QED
  BY <1>2, <1>3, <1>4 DEF DeepInv

LEMMA BeginningKeeps ==
  ASSUME DeepInv, DeepBegins
  PROVE  DeepInv'
<1> USE DEF DeepInv
<1>1. PICK id \in DeepIdentities, bank \in Banks, resume \in BOOLEAN :
        LET run == [dir |-> "run", bank |-> bank, id |-> id, resume |-> resume]
        IN  /\ DeepAdmits(run)
            /\ deepRun' = run /\ deepAsking' = ~Reuses(run)
            /\ deepWrites' = IF Reuses(run) THEN ResultFiles(run, deepDisk["run"]["raw"], "resumed") ELSE <<>>
  BY DEF DeepBegins
<1> DEFINE run == [dir |-> "run", bank |-> bank, id |-> id, resume |-> resume]
           raw == deepDisk["run"]["raw"]
           s == ResultFiles(run, raw, "resumed")
<1>2. /\ DeepAdmits(run) /\ deepRun' = run /\ deepAsking' = ~Reuses(run) /\ deepDisk' = deepDisk
      /\ deepWrites' = IF Reuses(run) THEN s ELSE <<>>
  BY <1>1 DEF DeepBegins
<1>3. run.dir = "run" /\ run.bank = bank /\ run # NoDeepRun /\ RegistryLoads(run.bank)
  BY <1>2 DEF NoDeepRun, DeepAdmits
<1>4. "manifest" \in Stored("run") => Reuses(run)
  BY <1>2 DEF DeepAdmits, Reuses, FilesBacked, Stored
<1> HIDE DEF run, s
<1>5. FilesBacked(deepDisk["run"])' /\ NoteIsAnchored'
  BY <1>2 DEF NoteIsAnchored, Stored, FilesBacked
<1>6. CASE ~Reuses(run)
  <2>1. deepAsking' = TRUE /\ deepWrites' = <<>> /\ "manifest" \notin Stored("run")
    BY <1>2, <1>4, <1>6
  <2>2. DeepShape'
    BY <1>2, <1>3, <2>1 DEF DeepShape, Stored
  <2>3. DeepFits' /\ DeepPending'
    BY <1>2, <2>1, ListsThatFit DEF DeepFits, DeepPending, Stored
  <2> QED
    BY <1>5, <2>2, <2>3
<1>7. CASE Reuses(run)
  <2>1. deepAsking' = FALSE /\ deepWrites' = s
    BY <1>2, <1>7
  <2>2. /\ "raw" \in Stored("run") /\ "checkpoint" \in Stored("run")
        /\ deepDisk["run"]["checkpoint"].identity = Identity(run) /\ deepDisk["run"]["checkpoint"].response = raw
    BY <1>2, <1>7 DEF DeepAdmits, MatchesCheckpoint, Reuses
  <2>3. raw \in DeepReplies
    BY <2>2 DEF DeepFits, FileFits
  <2>4. FitList(s)
    BY <1>3, <2>3, ResultFits DEF s
  <2>5. DeepShape'
    BY <1>2, <1>3, <2>1 DEF DeepShape, Stored
  <2>6. DeepFits'
    BY <1>2, <2>1, <2>4 DEF DeepFits, Stored
  <2>7. AnswerStored(deepDisk["run"], run, raw, 0) /\ SidecarStored(deepDisk["run"], run, raw, 0)
    BY <2>2 DEF AnswerStored, SidecarStored, Stored
  <2>8. s = After(DeepScript(run, raw, FALSE), DeepLength(run, raw) + 0, 0 + 0)
    <3>1. DeepScript(run, raw, FALSE) = s
      BY DEF DeepScript, s
    <3>2. ListOfLength(s, DeepLength(run, raw))
      BY ResultIs DEF s
    <3>3. DeepLength(run, raw) \in Nat /\ DeepLength(run, raw) + 0 = DeepLength(run, raw) /\ 0 + 0 = 0
      BY DEF DeepLength
    <3>4. After(s, DeepLength(run, raw), 0) = s
      BY <3>2, <3>3, AfterIs
    <3> QED
      BY <3>1, <3>3, <3>4
  <2>9. 0 < DeepLength(run, raw)
    BY DEF DeepLength
  <2>10. Pending(deepDisk["run"], run, s)
    <3>1. \E paid \in BOOLEAN, reply \in DeepReplies, n \in -4..6 :
            LET length == DeepLength(run, reply)
                before == IF paid THEN 4 ELSE 0
            IN  /\ 0 <= n + before /\ n < length
                /\ s = After(DeepScript(run, reply, paid), length + before, n + before)
                /\ AnswerStored(deepDisk["run"], run, reply, n) /\ SidecarStored(deepDisk["run"], run, reply, n)
      <4> WITNESS FALSE \in BOOLEAN, raw \in DeepReplies, 0 \in -4..6
      <4> QED
        BY <2>7, <2>8, <2>9
    <3> QED
      BY <3>1 DEF Pending
  <2>11. DeepPending'
    BY <1>2, <2>1, <2>10 DEF DeepPending
  <2> QED
    BY <1>5, <2>5, <2>6, <2>11
<1> QED
  BY <1>6, <1>7

LEMMA AnsweringKeeps ==
  ASSUME DeepInv, DeepAnswered
  PROVE  DeepInv'
<1> USE DEF DeepInv
<1>1. PICK reply \in DeepReplies :
        /\ deepRun' = IF reply.kind = "raises" THEN NoDeepRun ELSE deepRun
        /\ deepWrites' = IF reply.kind = "raises" THEN <<>>
                         ELSE AnswerFiles(deepRun, reply) \o ResultFiles(deepRun, reply, reply.usage)
  BY DEF DeepAnswered
<1>2. deepDisk' = deepDisk /\ deepAsking' = FALSE /\ deepAsking
  BY DEF DeepAnswered
<1>3. FilesBacked(deepDisk["run"])' /\ NoteIsAnchored'
  BY <1>2 DEF NoteIsAnchored, Stored, FilesBacked
<1>4. /\ deepRun # NoDeepRun /\ deepRun.dir = "run" /\ "manifest" \notin DOMAIN deepDisk["run"]
      /\ deepRun.bank \in Banks /\ RegistryLoads(deepRun.bank)
  BY <1>2 DEF DeepShape, Stored
<1>5. CASE reply.kind = "raises"
  <2>1. deepRun' = NoDeepRun /\ deepWrites' = <<>>
    BY <1>1, <1>5
  <2>2. DeepShape' /\ DeepFits' /\ DeepPending'
    BY <1>2, <2>1, ListsThatFit DEF DeepShape, DeepFits, DeepPending, Stored
  <2> QED
    BY <1>3, <2>2
<1>6. CASE reply.kind # "raises"
  <2> DEFINE s == DeepScript(deepRun, reply, TRUE)
             length == DeepLength(deepRun, reply)
  <2>1. deepWrites' = AnswerFiles(deepRun, reply) \o ResultFiles(deepRun, reply, reply.usage)
    BY <1>1, <1>6, Zenon
  <2>2. s = Joined(AnswerFiles(deepRun, reply), ResultFiles(deepRun, reply, reply.usage))
    BY DEF DeepScript
  <2>3. deepWrites' = s
    BY <2>1, <2>2, Zenon DEF Joined
  <2>4. deepRun' = deepRun
    BY <1>1, <1>6, Zenon
  <2>5. FitList(s)
    <3>1. FitList(AnswerFiles(deepRun, reply)) /\ FitList(ResultFiles(deepRun, reply, reply.usage))
      BY <1>4, AnswerFits, ResultFits
    <3> QED
      BY <2>2, <3>1, FitsJoined
  <2>6. ListOfLength(s, length + 4) /\ length \in Nat /\ length > 0
    <3>1. length \in Nat /\ length > 0
      BY DEF DeepLength
    <3>2. ListOfLength(s, length + IF TRUE THEN 4 ELSE 0)
      BY ScriptIs
    <3> HIDE DEF s, length
    <3> QED
      BY <3>1, <3>2
  <2> HIDE DEF s, length
  <2>7. s = After(s, length + 4, -4 + 4)
    <3>1. -4 + 4 = 0 /\ length + 4 \in Nat
      BY <2>6
    <3>2. After(s, length + 4, 0) = s
      BY <2>6, <3>1, AfterIs
    <3> QED
      BY <3>1, <3>2
  <2>8. AnswerStored(deepDisk["run"], deepRun, reply, -4) /\ SidecarStored(deepDisk["run"], deepRun, reply, -4)
    BY <1>4 DEF AnswerStored, SidecarStored
  <2>9. Pending(deepDisk["run"], deepRun, s)
    <3>1. \E paid \in BOOLEAN, other \in DeepReplies, n \in -4..6 :
            LET len == DeepLength(deepRun, other)
                before == IF paid THEN 4 ELSE 0
            IN  /\ 0 <= n + before /\ n < len
                /\ s = After(DeepScript(deepRun, other, paid), len + before, n + before)
                /\ AnswerStored(deepDisk["run"], deepRun, other, n) /\ SidecarStored(deepDisk["run"], deepRun, other, n)
      <4>1. 0 <= -4 + 4 /\ -4 < length
        BY <2>6
      <4> WITNESS TRUE \in BOOLEAN, reply \in DeepReplies, -4 \in -4..6
      <4> QED
        BY <2>7, <2>8, <4>1, Zenon DEF s, length
    <3> QED
      BY <3>1 DEF Pending
  <2>10. DeepPending' /\ DeepFits'
    BY <1>2, <2>3, <2>4, <2>5, <2>9 DEF DeepPending, DeepFits, Stored
  <2>11. DeepShape'
    BY <1>2, <1>4, <2>4 DEF DeepShape, Stored
  <2> QED
    BY <1>3, <2>10, <2>11
<1> QED
  BY <1>5, <1>6

LEMMA ReplayingKeeps ==
  ASSUME DeepInv, ReplayBegins
  PROVE  DeepInv'
<1> USE DEF DeepInv
<1>1. PICK bank \in Banks :
        /\ RegistryLoads(bank) /\ deepRun' = [NoDeepRun EXCEPT !.dir = "replay", !.bank = bank]
        /\ deepWrites' = ReplayFiles(deepRun', deepDisk["run"]["raw"])
  BY DEF ReplayBegins
<1>2. deepDisk' = deepDisk /\ deepAsking' = deepAsking /\ ~deepAsking /\ "raw" \in Stored("run")
  BY DEF ReplayBegins, DeepShape
<1>3. deepRun'.dir = "replay" /\ deepRun'.bank = bank /\ deepRun' # NoDeepRun
  BY <1>1 DEF NoDeepRun
<1>4. deepDisk["run"]["raw"] \in DeepReplies
  BY <1>2 DEF DeepFits, FileFits
<1>5. FitList(deepWrites')
  BY <1>1, <1>3, <1>4, ReplayFits
<1>6. FilesBacked(deepDisk["run"])' /\ NoteIsAnchored'
  BY <1>2 DEF NoteIsAnchored, Stored, FilesBacked
<1>7. DeepShape'
  BY <1>1, <1>2, <1>3 DEF DeepShape, Stored
<1>8. DeepFits' /\ DeepPending'
  BY <1>2, <1>3, <1>5 DEF DeepFits, DeepPending, Stored
<1> QED
  BY <1>6, <1>7, <1>8

LEMMA StoringKeeps ==
  ASSUME DeepInv, DeepStores
  PROVE  DeepInv'
<1> USE DEF DeepInv
<1> DEFINE dir == deepRun.dir
           name == deepWrites[1][1]
           content == deepWrites[1][2]
           rest == Rest(deepWrites)
           all == WithFile(deepDisk[dir], name, content)
<1>1. /\ deepWrites # <<>> /\ deepDisk' = [deepDisk EXCEPT ![dir] = all]
      /\ deepAsking' = deepAsking
  BY DEF DeepStores
<1>2. deepWrites' = rest /\ deepRun' = IF rest = <<>> THEN NoDeepRun ELSE deepRun
  BY Zenon DEF DeepStores, Rest
<1>3. /\ deepRun # NoDeepRun /\ dir \in {"run", "replay"} /\ ~deepAsking
      /\ deepRun.bank \in Banks /\ RegistryLoads(deepRun.bank)
  BY <1>1 DEF DeepShape
<1>4. FileFits(name, content) /\ FitList(rest)
  BY <1>1, FitsNext DEF DeepFits
<1>5. dir = "run" => FilesBacked(all) /\ (rest = <<>> \/ Pending(all, deepRun, rest))
  BY <1>1, PendingStored DEF DeepPending
<1>6. /\ DOMAIN all = DOMAIN deepDisk[dir] \cup {name} /\ all[name] = content
      /\ \A file \in DOMAIN deepDisk[dir] : file # name => all[file] = deepDisk[dir][file]
  <2> HIDE DEF name, content
  <2> QED
    BY DEF WithFile
<1> HIDE DEF name, content, rest, all
<1>7. /\ deepDisk' = [d \in {"note", "run", "replay"} |-> deepDisk'[d]] /\ deepDisk'[dir] = all
      /\ \A d \in {"note", "run", "replay"} : d # dir => deepDisk'[d] = deepDisk[d]
  BY <1>1, <1>3 DEF DeepShape
<1>8. DeepShape'
  <2>1. deepRun' # NoDeepRun => deepRun' = deepRun
    BY <1>2
  <2> QED
    BY <1>1, <1>2, <1>3, <1>7, <2>1 DEF DeepShape
<1>9. DeepFits'
  <2>1. \A d \in {"run", "replay"} : \A file \in DOMAIN deepDisk'[d] : FileFits(file, deepDisk'[d][file])
    <3>1. \A file \in DOMAIN all : FileFits(file, all[file])
      BY <1>3, <1>4, <1>6 DEF DeepFits, Stored
    <3> QED
      BY <1>3, <1>7, <3>1 DEF DeepFits, Stored
  <2> QED
    BY <1>2, <1>4, <2>1 DEF DeepFits, Stored
<1>10. FilesBacked(deepDisk'["run"])
  BY <1>3, <1>5, <1>7
<1>11. DeepPending'
  <2> SUFFICES ASSUME rest # <<>>, deepRun'.dir = "run"
               PROVE  Pending(deepDisk'["run"], deepRun', rest)
    BY <1>2 DEF DeepPending
  <2>1. deepRun' = deepRun /\ dir = "run"
    BY <1>2
  <2> QED
    BY <1>5, <1>7, <2>1
<1>12. NoteIsAnchored'
  BY <1>3, <1>7 DEF NoteIsAnchored, Stored
<1> QED
  BY <1>8, <1>9, <1>10, <1>11, <1>12

LEMMA DyingKeeps ==
  ASSUME DeepInv, DeepDies
  PROVE  DeepInv'
<1> USE DEF DeepInv
<1>1. deepDisk' = deepDisk /\ deepRun' = NoDeepRun /\ deepAsking' = FALSE /\ deepWrites' = <<>>
  BY DEF DeepDies
<1>2. DeepShape' /\ DeepFits' /\ DeepPending'
  BY <1>1, ListsThatFit DEF DeepShape, DeepFits, DeepPending, Stored
<1>3. FilesBacked(deepDisk["run"])' /\ NoteIsAnchored'
  BY <1>1 DEF NoteIsAnchored, Stored, FilesBacked
<1> QED
  BY <1>2, <1>3

LEMMA NotingKeeps ==
  ASSUME DeepInv, ReadsPaper
  PROVE  DeepInv'
<1> USE DEF DeepInv
<1>1. PICK first, second \in NoteReplies :
        LET kept == IF NoteVerdict(first) = "invalid" THEN second ELSE first
        IN  deepDisk' = [deepDisk EXCEPT !["note"] =
                            CASE NoteVerdict(kept) = "valid" -> WithFile(@, "note", NoteFrom(kept))
                              [] NoteVerdict(kept) = "invalid" -> WithFile(@, "error", kept)
                              [] NoteVerdict(kept) = "raises" -> @]
  BY DEF ReadsPaper
<1> DEFINE kept == IF NoteVerdict(first) = "invalid" THEN second ELSE first
           verdict == NoteVerdict(kept)
           files == deepDisk["note"]
<1>2. kept \in NoteReplies
  OBVIOUS
<1> HIDE DEF kept
<1>3. verdict \in {"raises", "invalid", "valid"}
  BY <1>2, DeepConstants DEF NoteVerdict
<1>4. /\ deepRun' = deepRun /\ deepAsking' = deepAsking /\ deepWrites' = deepWrites
      /\ deepDisk' = [dir \in {"note", "run", "replay"} |-> deepDisk'[dir]]
      /\ deepDisk'["run"] = deepDisk["run"] /\ deepDisk'["replay"] = deepDisk["replay"]
  BY <1>1 DEF ReadsPaper, DeepShape
<1>5. /\ verdict = "valid" => deepDisk'["note"] = WithFile(files, "note", NoteFrom(kept))
      /\ verdict = "invalid" => deepDisk'["note"] = WithFile(files, "error", kept)
      /\ verdict = "raises" => deepDisk'["note"] = files
  BY <1>1 DEF DeepShape, kept
<1>6. NoteIsAnchored'
  <2>1. CASE verdict = "valid"
    <3> DEFINE note == NoteFrom(kept)
    <3>1. /\ \A i \in DOMAIN note.links : ValidLink(note.links[i])
          /\ ~(note.dropped > 0 /\ Len(note.links) < 3)
      BY <1>2, <2>1, DeepConstants DEF NoteVerdict
    <3> HIDE DEF note
    <3>2. deepDisk'["note"]["note"] = note
      BY <1>5, <2>1 DEF WithFile, note
    <3> QED
      BY <3>1, <3>2 DEF NoteIsAnchored
  <2>2. CASE verdict = "invalid"
    <3>1. "note" \in DOMAIN deepDisk'["note"] => "note" \in DOMAIN files /\ deepDisk'["note"]["note"] = files["note"]
      BY <1>5, <2>2 DEF WithFile
    <3> QED
      BY <3>1 DEF NoteIsAnchored, Stored
  <2>3. CASE verdict = "raises"
    BY <1>5, <2>3 DEF NoteIsAnchored, Stored
  <2> QED
    BY <1>3, <2>1, <2>2, <2>3
<1>7. FilesBacked(deepDisk'["run"])
  BY <1>4
<1>8. DeepShape' /\ DeepFits' /\ DeepPending'
  BY <1>4 DEF DeepShape, DeepFits, DeepPending, Stored
<1> QED
  BY <1>6, <1>7, <1>8

\* Whatever the model answers and whatever dies, the files of the runs stay in order.
THEOREM DeepInvHolds == DeepSpec => []DeepInv
<1>1. ASSUME DeepInv, [DeepNext \/ NoteNext]_deepVars
      PROVE  DeepInv'
  <2>1. CASE UNCHANGED deepVars
    <3>1. /\ deepRun' = deepRun /\ deepAsking' = deepAsking /\ deepWrites' = deepWrites /\ deepDisk' = deepDisk
      BY <2>1 DEF deepVars
    <3> QED
      BY <1>1, <3>1 DEF DeepInv, DeepShape, DeepFits, DeepPending, NoteIsAnchored, Stored
  <2> QED
    BY <1>1, <2>1, BeginningKeeps, AnsweringKeeps, ReplayingKeeps, StoringKeeps, DyingKeeps, NotingKeeps
      DEF DeepNext, NoteNext
<1> QED
  BY <1>1, DeepStarts, PTL DEF DeepSpec

\* Notes stay anchored and objects cited, and every manifest is backed by the response that was
\* paid for, with every file a success tells of, whatever died in between.
THEOREM ReadingsStayBacked == DeepSpec => []ReadingsAreBacked
<1>1. ASSUME DeepInv
      PROVE  ReadingsAreBacked
  <2> USE DEF DeepInv
  <2>1. ObjectsAreCited
    BY <1>1 DEF ObjectsAreCited, DeepFits, FileFits, Stored
  <2>2. ManifestIsBacked
    <3> SUFFICES ASSUME "manifest" \in Stored("run")
                 PROVE  ManifestIsBacked
      BY DEF ManifestIsBacked
    <3> DEFINE files == deepDisk["run"]
               manifest == files["manifest"]
               run == [NoDeepRun EXCEPT !.dir = "run", !.bank = manifest.identity.bank, !.id = manifest.identity.id]
    <3>1. ~deepAsking
      BY <1>1 DEF DeepShape
    <3>2. /\ {"raw", "checkpoint"} \subseteq DOMAIN files /\ manifest.identity = Identity(manifest.identity)
          /\ files["checkpoint"].identity = manifest.identity /\ files["checkpoint"].response = files["raw"]
          /\ manifest.status = "validation_success" =>
              /\ {"objects", "registry", "normalization_ledger", "failure_ledger", "report", "usage"} \subseteq DOMAIN files
              /\ files["objects"] = Assemble(files["raw"], manifest.identity.bank)
              /\ files["registry"] = files["objects"].registry /\ files["report"].valid
      BY <1>1 DEF FilesBacked, Stored
    <3>3. run.bank = manifest.identity.bank /\ run.id = manifest.identity.id
      BY DEF NoDeepRun
    <3>4. Identity(run) = manifest.identity
      BY <3>2, <3>3 DEF Identity
    <3> HIDE DEF run
    <3>5. MatchesCheckpoint(run)
      BY <3>2, <3>4 DEF MatchesCheckpoint, Stored
    <3> QED
      BY <3>1, <3>2, <3>3, <3>5 DEF ManifestIsBacked, Stored, run
  <2> QED
    BY <1>1, <2>1, <2>2 DEF ReadingsAreBacked
<1> QED
  BY <1>1, DeepInvHolds, PTL

---------------------------------------------------------------------------
(* The windows of a passage *)

\* Starts are a step of at least one token apart.
LEMMA StepOn ==
  ASSUME NEW n \in Nat
  PROVE  /\ WindowStart(n) \in Nat /\ WindowStart(n) >= n /\ WindowStart(0) = 0
         /\ WindowStart(n + 1) = WindowStart(n) + WindowBudget - WindowOverlap
<1> DEFINE step == WindowBudget - WindowOverlap
<1>1. step \in Nat \ {0}
  BY WindowAssumption
<1> HIDE DEF step
<1>2. n * step \in Nat /\ n * step >= n /\ 0 * step = 0 /\ (n + 1) * step = n * step + step
  <2>1. step = 1 + (step - 1) /\ step - 1 \in Nat
    BY <1>1
  <2> DEFINE d == step - 1
  <2>2. n * step = n + n * d /\ n * d \in Nat
    BY <1>1, <2>1
  <2>3. (n + 1) * step = n * step + step
    BY <1>1
  <2>4. 0 * step = 0
    BY <1>1
  <2> HIDE DEF d
  <2> QED
    BY <1>1, <2>2, <2>3, <2>4
<1> QED
  BY <1>2, WindowAssumption DEF WindowStart, step

\* The windows of a passage of any length, for any budget and overlap: the first begins at its
\* start, the last ends at its end, none is longer than the budget and all but the last have it,
\* each takes up the overlap of the one before, and every token is in one of them.
THEOREM WindowsCover ==
  ASSUME NEW length \in Nat
  PROVE  LET ranges == WindowRanges(length)
         IN  \E m \in Nat \ {0} :
                /\ DOMAIN ranges = 1..m
                /\ ranges[1][1] = 0 /\ ranges[m][2] = length
                /\ \A n \in 1..m : /\ ranges[n][1] \in 0..length /\ ranges[n][2] \in ranges[n][1]..length
                                   /\ ranges[n][2] - ranges[n][1] <= WindowBudget
                                   /\ n < m => /\ ranges[n][2] - ranges[n][1] = WindowBudget
                                               /\ ranges[n + 1][1] = ranges[n][2] - WindowOverlap
                /\ \A token \in 0..(length - 1) :
                    \E n \in 1..m : ranges[n][1] <= token /\ token < ranges[n][2]
<1> DEFINE ranges == WindowRanges(length)
           S == {n \in 0..length : WindowEnd(n, length) = length}
           last == CHOOSE n \in 0..length : /\ WindowEnd(n, length) = length
                                            /\ \A k \in 0..length : WindowEnd(k, length) = length => n <= k
<1>1. \A n \in Nat : /\ WindowStart(n) \in Nat /\ WindowStart(n) >= n /\ WindowStart(0) = 0
                     /\ WindowStart(n + 1) = WindowStart(n) + WindowBudget - WindowOverlap
  BY StepOn
<1>2. WindowBudget \in Nat \ {0} /\ WindowOverlap \in Nat /\ WindowOverlap < WindowBudget
  BY WindowAssumption
<1>3. \A n \in Nat : /\ WindowEnd(n, length) \in 0..length
                     /\ WindowEnd(n, length) # length => WindowEnd(n, length) = WindowStart(n) + WindowBudget
                     /\ WindowEnd(n, length) <= WindowStart(n) + WindowBudget
  BY <1>1, <1>2 DEF WindowEnd
<1>4. WindowEnd(length, length) = length
  BY <1>1, <1>2 DEF WindowEnd
<1>5. last \in 0..length /\ WindowEnd(last, length) = length /\ \A k \in 0..length : WindowEnd(k, length) = length => last <= k
  <2>1. S \in SUBSET Nat /\ S # {}
    BY <1>4
  <2>2. PICK n \in S : \A k \in S : n <= k
    BY <2>1, LeastNumber
  <2> QED
    BY <2>2
<1>6. ranges = [n \in 1..last + 1 |-> <<WindowStart(n - 1), WindowEnd(n - 1, length)>>]
  BY DEF WindowRanges
<1> HIDE DEF last, ranges, S
<1>7. \A k \in 0..last : k < last => /\ WindowEnd(k, length) # length
                                     /\ WindowEnd(k, length) = WindowStart(k) + WindowBudget
                                     /\ WindowStart(k + 1) = WindowEnd(k, length) - WindowOverlap
  <2> SUFFICES ASSUME NEW k \in 0..last, k < last
               PROVE  /\ WindowEnd(k, length) # length
                      /\ WindowEnd(k, length) = WindowStart(k) + WindowBudget
                      /\ WindowStart(k + 1) = WindowEnd(k, length) - WindowOverlap
    OBVIOUS
  <2>1. k \in Nat /\ k \in 0..length
    BY <1>5
  <2>2. WindowEnd(k, length) # length
    BY <1>5, <2>1
  <2> QED
    BY <1>1, <1>2, <1>3, <2>1, <2>2
<1>8. \A k \in 0..last : WindowStart(k) \in 0..length /\ WindowEnd(k, length) \in WindowStart(k)..length
  <2> SUFFICES ASSUME NEW k \in 0..last
               PROVE  WindowStart(k) \in 0..length /\ WindowEnd(k, length) \in WindowStart(k)..length
    OBVIOUS
  <2>1. k \in Nat
    BY <1>5
  <2>2. WindowStart(k) <= length
    <3>1. CASE k = 0
      BY <1>1, <3>1
    <3>2. CASE k > 0
      <4>1. k - 1 \in 0..last /\ k - 1 < last /\ k - 1 + 1 = k /\ k - 1 \in Nat
        BY <1>5, <3>2
      <4>2. WindowStart(k) = WindowEnd(k - 1, length) - WindowOverlap /\ WindowEnd(k - 1, length) \in 0..length
        BY <1>3, <1>7, <4>1
      <4> QED
        BY <1>1, <1>2, <2>1, <4>2
    <3> QED
      BY <2>1, <3>1, <3>2
  <2>3. CASE WindowEnd(k, length) = length
    BY <1>1, <2>1, <2>2, <2>3
  <2>4. CASE WindowEnd(k, length) # length
    <3>1. WindowEnd(k, length) = WindowStart(k) + WindowBudget /\ WindowEnd(k, length) \in 0..length
      BY <1>3, <2>1, <2>4
    <3> QED
      BY <1>1, <1>2, <2>1, <2>2, <3>1
  <2> QED
    BY <2>3, <2>4
<1> DEFINE m == last + 1
<1>9. m \in Nat \ {0} /\ last \in Nat /\ m - 1 = last /\ 1 \in 1..m /\ m \in 1..m
  BY <1>5
<1>10. DOMAIN ranges = 1..m /\ \A n \in 1..m : ranges[n][1] = WindowStart(n - 1) /\ ranges[n][2] = WindowEnd(n - 1, length)
  BY <1>6
<1> HIDE DEF m
<1>11. ranges[1][1] = 0 /\ ranges[m][2] = length
  <2>1. ranges[1][1] = WindowStart(1 - 1) /\ ranges[m][2] = WindowEnd(m - 1, length) /\ 1 - 1 = 0
    BY <1>9, <1>10
  <2> QED
    BY <1>1, <1>5, <1>9, <2>1
<1>12. \A n \in 1..m : /\ ranges[n][1] \in 0..length /\ ranges[n][2] \in ranges[n][1]..length
                       /\ ranges[n][2] - ranges[n][1] <= WindowBudget
                       /\ n < m => /\ ranges[n][2] - ranges[n][1] = WindowBudget
                                   /\ ranges[n + 1][1] = ranges[n][2] - WindowOverlap
  <2> SUFFICES ASSUME NEW n \in 1..m
               PROVE  /\ ranges[n][1] \in 0..length /\ ranges[n][2] \in ranges[n][1]..length
                      /\ ranges[n][2] - ranges[n][1] <= WindowBudget
                      /\ n < m => /\ ranges[n][2] - ranges[n][1] = WindowBudget
                                  /\ ranges[n + 1][1] = ranges[n][2] - WindowOverlap
    OBVIOUS
  <2>1. n - 1 \in 0..last /\ n - 1 \in Nat /\ ranges[n][1] = WindowStart(n - 1) /\ ranges[n][2] = WindowEnd(n - 1, length)
    BY <1>9, <1>10
  <2>2. ranges[n][1] \in 0..length /\ ranges[n][2] \in ranges[n][1]..length
    BY <1>8, <2>1
  <2>3. ranges[n][2] <= ranges[n][1] + WindowBudget
    BY <1>3, <2>1
  <2>4. ASSUME n < m
        PROVE  ranges[n][2] = ranges[n][1] + WindowBudget /\ ranges[n + 1][1] = ranges[n][2] - WindowOverlap
    <3>1. n - 1 < last /\ n - 1 + 1 = n /\ n + 1 \in 1..m /\ n + 1 - 1 = n
      BY <1>9, <2>4
    <3>2. ranges[n + 1][1] = WindowStart(n)
      BY <1>10, <3>1
    <3>3. WindowEnd(n - 1, length) = WindowStart(n - 1) + WindowBudget /\ WindowStart(n) = WindowEnd(n - 1, length) - WindowOverlap
      BY <1>7, <2>1, <3>1
    <3> QED
      BY <2>1, <3>2, <3>3
  <2> QED
    BY <1>2, <2>2, <2>3, <2>4
<1>13. \A token \in 0..(length - 1) : \E n \in 1..m : ranges[n][1] <= token /\ token < ranges[n][2]
  <2> SUFFICES ASSUME NEW token \in 0..(length - 1)
               PROVE  \E n \in 1..m : ranges[n][1] <= token /\ token < ranges[n][2]
    OBVIOUS
  <2> DEFINE T == {n \in 1..m : token < ranges[n][2]}
  <2>1. m \in T
    BY <1>9, <1>11
  <2>2. T \in SUBSET Nat /\ T # {}
    BY <1>9, <2>1
  <2>3. PICK n \in T : \A k \in T : n <= k
    BY <2>2, LeastNumber
  <2>4. n \in 1..m /\ token < ranges[n][2]
    BY <2>3
  <2>5. CASE n = 1
    BY <1>11, <2>4, <2>5
  <2>6. CASE n # 1
    <3>1. n - 1 \in 1..m /\ n - 1 < m /\ n - 1 + 1 = n /\ ~(n <= n - 1)
      BY <1>9, <2>4, <2>6
    <3>2. ~(token < ranges[n - 1][2])
      BY <2>3, <3>1
    <3>3. ranges[n][1] = ranges[n - 1][2] - WindowOverlap /\ ranges[n - 1][2] \in Int
      BY <1>12, <3>1
    <3>4. ranges[n][1] <= token
      BY <1>2, <3>2, <3>3
    <3> QED
      BY <2>4, <3>4
  <2> QED
    BY <2>5, <2>6
<1> QED
  BY <1>9, <1>10, <1>11, <1>12, <1>13 DEF ranges
=============================================================================
