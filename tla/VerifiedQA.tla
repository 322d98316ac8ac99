------------------------------ MODULE VerifiedQA ------------------------------
(***************************************************************************)
(* Question answering over retrieved passages (rag/qa.py), in its three    *)
(* versions: "v1" asks a list of questions, each at most twice, and can    *)
(* resume; "v1.1" and "v1.2" ask each question of a batch once, in a new   *)
(* directory. What the model answers is verified against the passages it   *)
(* was given, in v1.1 also against the paper a claim is about, in v1.2     *)
(* also against the entities the question names.                           *)
(***************************************************************************)
EXTENDS SpanMapping, Integers, Sequences, FiniteSets

CONSTANTS
    QAPassages,     \* passage |-> [paper, names]: its paper, the entities its title or text names
    QAEntities,     \* the catalogue: entity |-> [paper, type, evidence]
    QAQuestions,    \* what is asked: [top |-> passages retrieved, requested |-> entities named]
    QAReplies,      \* version |-> the replies of the model
    QAQueries,      \* version |-> the number of questions
    QAIdentities,   \* corpus, questions, prompts, model and commit of a run
    MaxQARuns       \* bound on the executions in one directory

Versions == {"v1", "v1.1", "v1.2"}
\* What the model says: a quote and how often it is found, a claim, an answer or what is none.
QuoteShape ==
    [exact : Nat, whitespace : Nat, safe : Nat, roundTrips : SUBSET {"whitespace", "safe"},
     identical : BOOLEAN, cross : BOOLEAN, copies : Nat]
ClaimShape ==
    [paper : STRING, entity : STRING, mentions : SUBSET DOMAIN QAEntities,
     citations : Seq([passage : STRING, quote : QuoteShape])]
ReplyShape ==
    [kind : {"raises", "not_json", "not_canonical", "schema", "answer"}, text : STRING,
     shape : {"direct", "own_envelope", "foreign_envelope"},
     status : {"answered", "insufficient_evidence", "none"}, claims : Seq(ClaimShape)]
ASSUME VerifiedQAConstants ==
    /\ QAQueries \in [Versions -> Nat \ {0}]
    /\ \A version \in Versions : QAReplies[version] \in SUBSET ReplyShape

VARIABLES
    qaRun,          \* the execution under way, [id, resume], or NoQARun
    qaSetting,      \* [version, question] of the directory
    qaAt,           \* [query, attempt, phase]
    qaReply,        \* the reply whose checkpoint is not written yet
    qaSignatures,   \* the failures the circuit breaker looks at
    qaStop,         \* stop_reason
    qaDisk,         \* raw responses and checkpoints of a v1 run, run_manifest, the directory
    qaOutcome,      \* the last question settled, until the next call: [reply, result]
    qaPaid,         \* answers received since the last execution that could not reuse them
    qaRuns          \* executions so far
qaVars == <<qaRun, qaSetting, qaAt, qaReply, qaSignatures, qaStop, qaDisk, qaOutcome, qaPaid, qaRuns>>

QAKeys == (1..QAQueries["v1"]) \X (1..2)
QAKey == <<qaAt.query, qaAt.attempt>>
NoQARun == [id |-> "none", resume |-> FALSE]
Unanswered == [kind |-> "none", text |-> "none", shape |-> "direct", status |-> "none", claims |-> <<>>]
NoOutcome == [reply |-> Unanswered, result |-> [execution |-> "none", answer |-> "none"]]
Structural == {"transport_failed", "schema_failed", "parse_failed", "answer_domain_failed"}

---------------------------------------------------------------------------
(* Verification *)

\* A quote says also whether all of several occurrences are identical, and whether another
\* passage has it as well (cross).
\* From v1.1 on the first of several identical occurrences is taken, if all are in one passage.
MapQuote(quote) ==
    IF MapSpan(quote) = "ambiguous" /\ ~quote.cross /\ quote.safe >= 2 /\ quote.identical
    THEN "ok" ELSE MapSpan(quote)

PapersOf(passages) == {QAPassages[p].paper : p \in passages}
FirstFailure(verdicts) ==
    LET failing == {i \in DOMAIN verdicts : verdicts[i] # "success"}
    IN  IF failing = {} THEN "success" ELSE verdicts[CHOOSE i \in failing : \A j \in failing : i <= j]

CitationVerdict(version, top, claim, citation) ==
    IF citation.passage \notin top THEN "citation_validation_failed"
    ELSE IF version # "v1" /\ QAPassages[citation.passage].paper # claim.paper
         THEN "citation_validation_failed"
    ELSE IF (IF version = "v1" THEN MapSpan(citation.quote) ELSE MapQuote(citation.quote)) # "ok"
         THEN "quote_grounding_failed" ELSE "success"

\* The subject is in the catalogue for its paper, or its name is found in what is cited (and
\* a name without Latin letters or digits, "", is found everywhere); and the claim names no
\* entity of another paper.
BindingVerdict(claim) ==
    LET catalogued == claim.entity \in DOMAIN QAEntities /\ QAEntities[claim.entity].paper = claim.paper
        found == \E i \in DOMAIN claim.citations : claim.entity \in QAPassages[claim.citations[i].passage].names \cup {""}
    IN  IF (catalogued \/ found) /\ \A e \in claim.mentions : QAEntities[e].paper = claim.paper
        THEN "success" ELSE "entity_binding_failed"

ClaimVerdict(version, top, claim) ==
    LET cited == FirstFailure([i \in DOMAIN claim.citations |-> CitationVerdict(version, top, claim, claim.citations[i])])
    IN  IF version # "v1" /\ claim.paper \notin PapersOf(top) THEN "citation_validation_failed"
        ELSE IF version = "v1.2" /\ cited = "success" THEN BindingVerdict(claim) ELSE cited

\* A model needs a claim of its own; anything else a retrieved passage that shows it.
Covered(question, claims, e) ==
    IF QAEntities[e].type = "model"
    THEN \E i \in DOMAIN claims : claims[i].paper = QAEntities[e].paper /\ claims[i].entity = e
    ELSE \E p \in question.top : /\ QAPassages[p].paper = QAEntities[e].paper
                                 /\ p \in QAEntities[e].evidence \/ e \in QAPassages[p].names
QACoverage(question, claims) ==
    LET covered == {e \in question.requested : Covered(question, claims, e)}
    IN  IF covered = question.requested THEN "complete"
        ELSE IF \E e \in covered : QAEntities[e].type = "model" THEN "partial" ELSE "none"
\* Mutant: one model covered is enough.
CoverageVerdictOfAny(question, claims) ==
    IF QACoverage(question, claims) # "none" THEN "success" ELSE "entity_binding_failed"
CoverageVerdict(question, claims) ==
    LET omitted == {e \in question.requested : /\ QAEntities[e].type = "model" /\ ~Covered(question, claims, e)
                                               /\ QAEntities[e].paper \in PapersOf(question.top)}
    IN  IF omitted = {} /\ QACoverage(question, claims) # "none" THEN "success" ELSE "entity_binding_failed"

\* answered goes with claims, each with a citation; insufficient_evidence with none.
Contract(reply) ==
    IF reply.status = "answered"
    THEN reply.claims # <<>> /\ \A i \in DOMAIN reply.claims : reply.claims[i].citations # <<>>
    ELSE reply.claims = <<>>

\* v1 also takes an answer wrapped in an envelope, if it repeats this question.
Canonical(version, reply) == reply.shape = "direct" \/ (version = "v1" /\ reply.shape = "own_envelope")

\* The failure a reply is reported with before it is verified. v1 calls all of them
\* transport_failed and quotes the reply; later versions name the first two in fixed words.
ParseFailure(version, reply) ==
    LET kind == IF reply.kind # "answer" THEN reply.kind
                ELSE IF ~Canonical(version, reply) THEN "not_canonical"
                ELSE IF ~Contract(reply) THEN "domain" ELSE "answer"
        Failure(status, text) == [execution |-> status, text |-> text]
    IN  CASE kind = "answer" -> Failure("success", "none")
          [] kind = "raises" -> Failure("provider_failed", reply.text)
          [] version = "v1" /\ kind \notin {"answer", "raises"} -> Failure("transport_failed", reply.text)
          [] version # "v1" /\ kind = "not_json" -> Failure("parse_failed", "fixed")
          [] version # "v1" /\ kind = "not_canonical" -> Failure("transport_failed", "fixed")
          [] version # "v1" /\ kind = "schema" -> Failure("schema_failed", reply.text)
          [] version # "v1" /\ kind = "domain" -> Failure("answer_domain_failed", reply.text)

Judged(version, question, reply) ==
    LET parsed == ParseFailure(version, reply)
        claimed == FirstFailure([i \in DOMAIN reply.claims |-> ClaimVerdict(version, question.top, reply.claims[i])])
        verdict ==
            IF parsed.execution # "success" \/ reply.status # "answered" THEN parsed.execution
            ELSE IF version = "v1.2" /\ claimed = "success" THEN CoverageVerdict(question, reply.claims)
            ELSE claimed
        answered == verdict = "success" /\ reply.status = "answered"
    IN  [execution |-> verdict, text |-> parsed.text,
         answer |-> IF answered THEN "answered" ELSE "insufficient_evidence",
         shows |-> IF answered THEN "claims" ELSE IF verdict = "success" THEN "insufficient" ELSE "failure",
         final |-> CASE version # "v1.2" \/ verdict # "success" -> "none"
                     [] version = "v1.2" /\ verdict = "success" /\ ~answered -> "insufficient_evidence"
                     [] answered /\ version = "v1.2" ->
                            IF QACoverage(question, reply.claims) = "partial" THEN "partial_answer" ELSE "answered"]

\* Which packet for the reviewer a result goes into.
InReview(version, result) ==
    IF result.execution # "success" THEN "none"
    ELSE IF version # "v1.2" THEN (IF result.answer = "answered" THEN "answers" ELSE "none")
    ELSE IF result.final \in {"answered", "partial_answer"} THEN "answers" ELSE "abstentions"

---------------------------------------------------------------------------
(* The runs *)

QAInit ==
    /\ qaRun = NoQARun /\ qaAt = [query |-> 1, attempt |-> 1, phase |-> "ask"] /\ qaReply = Unanswered
    /\ qaSetting \in [version : Versions, question : QAQuestions]
    /\ qaSignatures = <<>> /\ qaStop = "none" /\ qaRuns = 0
    /\ qaDisk = [exists |-> FALSE, manifest |-> FALSE, last |-> "none",
                 raw |-> [k \in QAKeys |-> Unanswered], checkpoints |-> [k \in QAKeys |-> "none"]]
    /\ qaOutcome = NoOutcome
    /\ qaPaid = [k \in QAKeys |-> 0]

\* v1 only refuses a directory with a manifest, which is written last; the batches refuse any.
QABegins ==
    /\ qaRun = NoQARun /\ qaRuns < MaxQARuns
    /\ \E id \in QAIdentities, resume \in BOOLEAN :
        /\ IF qaSetting.version = "v1" THEN qaDisk.manifest => resume ELSE ~qaDisk.exists /\ ~resume
        /\ qaRun' = [id |-> id, resume |-> resume]
        /\ qaDisk' = [qaDisk EXCEPT !.exists = TRUE, !.last = id]
        /\ qaPaid' = IF resume /\ id = qaDisk.last THEN qaPaid ELSE [k \in QAKeys |-> 0]
    /\ qaAt' = [query |-> 1, attempt |-> 1, phase |-> "ask"] /\ qaRuns' = qaRuns + 1
    /\ qaSignatures' = <<>> /\ qaStop' = "none"
    /\ UNCHANGED <<qaSetting, qaReply, qaOutcome>>

Repeats(signatures, n) ==
    /\ Len(signatures) >= n
    /\ \A i \in Len(signatures) - n + 1 .. Len(signatures) : signatures[i] = signatures[Len(signatures)]

\* v1 counts every failure and forgets none; the batches count structural ones in a row.
SignaturesAfter(result) ==
    LET failed == IF qaSetting.version = "v1" THEN result.execution # "success" ELSE result.execution \in Structural
    IN  IF failed THEN Append(qaSignatures, <<result.execution, result.text>>)
        ELSE IF qaSetting.version = "v1" THEN qaSignatures ELSE <<>>
StopAfter(result) ==
    IF qaSetting.version = "v1" /\ qaAt.query = 1 /\ result.execution \in Structural THEN "canary_failed"
    ELSE IF SignaturesAfter(result) # qaSignatures
            /\ Repeats(SignaturesAfter(result), IF qaSetting.version = "v1.2" THEN 3 ELSE 2)
         THEN "repeated_structural_error" ELSE "none"

\* A first attempt of v1 that cannot be read is repaired; every other reply settles its question.
Settles(reply) ==
    LET result == Judged(qaSetting.version, qaSetting.question, reply)
    IN  IF qaSetting.version = "v1" /\ qaAt.attempt = 1 /\ result.execution = "transport_failed"
        THEN /\ qaAt' = [qaAt EXCEPT !.attempt = 2, !.phase = "ask"]
             /\ UNCHANGED <<qaSignatures, qaStop, qaOutcome>>
        ELSE /\ qaSignatures' = SignaturesAfter(result) /\ qaStop' = StopAfter(result)
             /\ qaOutcome' = [reply |-> reply, result |-> result]
             /\ qaAt' = IF StopAfter(result) # "none" \/ qaAt.query = QAQueries[qaSetting.version]
                        THEN [qaAt EXCEPT !.phase = "end"]
                        ELSE [query |-> qaAt.query + 1, attempt |-> 1, phase |-> "ask"]

\* Mutant: only the first attempt of a question is looked up.
ReusableFirst(key) ==
    /\ qaRun.resume /\ key[2] = 1
    /\ qaDisk.checkpoints[key] = qaRun.id /\ qaDisk.raw[key] # Unanswered
Reusable(key) ==
    /\ qaRun.resume
    /\ qaDisk.checkpoints[key] = qaRun.id /\ qaDisk.raw[key] # Unanswered

QAAsks == qaRun # NoQARun /\ qaAt.phase = "ask"
OnDisk == qaSetting.version = "v1"

QAReuses ==
    /\ QAAsks /\ OnDisk /\ Reusable(QAKey)
    /\ Settles(qaDisk.raw[QAKey])
    /\ UNCHANGED <<qaRun, qaSetting, qaReply, qaDisk, qaPaid, qaRuns>>

\* The call; its response is written at once, and the checkpoint after it.
QACallRaises ==
    /\ QAAsks /\ ~(OnDisk /\ Reusable(QAKey))
    /\ \E reply \in QAReplies[qaSetting.version] : reply.kind = "raises" /\ Settles(reply)
    /\ UNCHANGED <<qaRun, qaSetting, qaReply, qaDisk, qaPaid, qaRuns>>
QACall ==
    /\ QAAsks /\ ~(OnDisk /\ Reusable(QAKey))
    /\ \E reply \in QAReplies[qaSetting.version] :
        /\ reply.kind # "raises" /\ qaReply' = reply
        /\ qaDisk' = IF OnDisk THEN [qaDisk EXCEPT !.raw[QAKey] = reply] ELSE qaDisk
    /\ qaPaid' = IF OnDisk THEN [qaPaid EXCEPT ![QAKey] = @ + 1] ELSE qaPaid
    /\ qaAt' = [qaAt EXCEPT !.phase = "checkpoint"] /\ qaOutcome' = NoOutcome
    /\ UNCHANGED <<qaRun, qaSetting, qaSignatures, qaStop, qaRuns>>

QACheckpoints ==
    /\ qaRun # NoQARun /\ qaAt.phase = "checkpoint"
    /\ qaDisk' = IF OnDisk THEN [qaDisk EXCEPT !.checkpoints[QAKey] = qaRun.id] ELSE qaDisk
    /\ Settles(qaReply) /\ qaReply' = Unanswered
    /\ UNCHANGED <<qaRun, qaSetting, qaPaid, qaRuns>>

QAEnds ==
    /\ qaRun # NoQARun /\ qaAt.phase = "end"
    /\ qaRun' = NoQARun /\ qaDisk' = [qaDisk EXCEPT !.manifest = TRUE]
    /\ UNCHANGED <<qaSetting, qaAt, qaReply, qaSignatures, qaStop, qaOutcome, qaPaid, qaRuns>>

\* An answer whose checkpoint is missing has to be asked for again.
QADies ==
    /\ qaRun # NoQARun /\ qaRun' = NoQARun /\ qaReply' = Unanswered
    /\ qaPaid' = IF OnDisk /\ qaAt.phase = "checkpoint" THEN [qaPaid EXCEPT ![QAKey] = @ - 1] ELSE qaPaid
    /\ UNCHANGED <<qaSetting, qaAt, qaSignatures, qaStop, qaDisk, qaOutcome, qaRuns>>

QANext == QABegins \/ QAReuses \/ QACallRaises \/ QACall \/ QACheckpoints \/ QAEnds \/ QADies

---------------------------------------------------------------------------
(* Properties *)

\* An execution that resumes pays for no answer whose checkpoint it could have used, and no
\* execution goes on asking after the failures its circuit breaker is there for: two alike in
\* v1 and v1.1, three in v1.2, or, in v1, a first question that cannot be read.
QAPaysOnce ==
    /\ \A k \in QAKeys : qaPaid[k] <= 1
    /\ QAAsks => /\ ~Repeats(qaSignatures, IF qaSetting.version = "v1.2" THEN 3 ELSE 2)
                 /\ qaStop = "none"
=============================================================================
