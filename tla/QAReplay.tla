------------------------------- MODULE QAReplay -------------------------------
(***************************************************************************)
(* The offline replays of question answering (rag/qa.py): the responses a  *)
(* run stored are parsed and verified again, without a call, into another  *)
(* directory. replay_qa_transport ("v1") replays every question of a run   *)
(* with its two attempts, replay_qa_v11 ("v1.1") the one of a canary.      *)
(***************************************************************************)
EXTENDS VerifiedQA

CONSTANTS
    QASources,      \* [version, question, sound, replies, fresh]: what a run left, see below
    MaxReplays      \* bound on the replays into one directory
\* replies[q] are the responses stored for question q; fresh, that they are all of the last
\* execution; sound, that the inputs, the passages and the response are what they were.

\* A question has at most two responses, and a second one in one execution only where it could
\* not read the first; a canary has the one response of its one question.
ASSUME QAReplayConstants == \A source \in QASources :
    /\ source.version \in {"v1", "v1.1"} /\ source.replies \in Seq(Seq(ReplyShape))
    /\ source.version = "v1.1" /\ source.sound => Len(source.replies) = 1 /\ Len(source.replies[1]) = 1
    /\ \A q \in DOMAIN source.replies :
        /\ Len(source.replies[q]) <= 2
        /\ source.fresh /\ Len(source.replies[q]) = 2 =>
            Judged(source.version, source.question, source.replies[q][1]).execution = "transport_failed"

VARIABLES
    replaySource,   \* the directory that is replayed
    replayOut,      \* the output directory: "absent", "empty", "partial" or "whole"
    replayAt,       \* "idle", "replaying", "writing"
    replayEnded,    \* how the last replay ended
    replayShown,    \* its results, question by question: [reply, result]
    replays         \* replays so far
replayVars == <<replaySource, replayOut, replayAt, replayEnded, replayShown, replays>>

ReplayJudged(reply) == Judged(replaySource.version, replaySource.question, reply)
Succeeds(reply) == ReplayJudged(reply).execution = "success"
ReplayFailure == [execution |-> "transport_failed", text |-> "none", answer |-> "insufficient_evidence",
                  shows |-> "failure", final |-> "none"]

\* The first attempt that succeeds; the second is opened whenever the first does not.
Missing(replies) == replies = <<>> \/ (Len(replies) = 1 /\ ~Succeeds(replies[1]))
Chosen(replies) ==
    LET read == {i \in DOMAIN replies : Succeeds(replies[i])}
        first == CHOOSE i \in read : \A j \in read : i <= j
    IN  IF read = {} THEN [reply |-> Unanswered, result |-> ReplayFailure]
        ELSE [reply |-> replies[first], result |-> ReplayJudged(replies[first])]

ReplayInit ==
    /\ replaySource \in QASources /\ replayOut \in {"absent", "empty"} /\ replayAt = "idle"
    /\ replayEnded = "none" /\ replayShown = <<>> /\ replays = 0

QAReplayBegins ==
    /\ replayAt = "idle" /\ replays < MaxReplays /\ replays' = replays + 1
    /\ IF replayOut = "absent" \/ (replayOut = "empty" /\ replaySource.version = "v1")
       THEN replayAt' = "replaying" /\ replayEnded' = "none" /\ replayShown' = <<>>
       ELSE replayEnded' = "refused" /\ UNCHANGED <<replayAt, replayShown>>
    /\ UNCHANGED <<replaySource, replayOut>>

Question == replaySource.replies[Len(replayShown) + 1]
Replaying(version) ==
    replayAt = "replaying" /\ replaySource.version = version /\ Len(replayShown) < Len(replaySource.replies)
ReplayRaises ==
    \/ Replaying("v1") /\ Missing(Question)
    \/ Replaying("v1.1") /\ ~replaySource.sound
ReplayStops ==
    /\ ReplayRaises = TRUE
    /\ replayAt' = "idle" /\ replayEnded' = "raised"
    /\ UNCHANGED <<replaySource, replayOut, replayShown, replays>>

\* Every question of v1 leaves a file with its passages at once; the results come last.
ReplayQuestion ==
    /\ Replaying("v1") /\ ~Missing(Question)
    /\ replayShown' = Append(replayShown, Chosen(Question)) /\ replayOut' = "partial"
    /\ UNCHANGED <<replaySource, replayAt, replayEnded, replays>>
ReplayCanary ==
    /\ Replaying("v1.1") /\ replaySource.sound
    /\ replayShown' = <<[reply |-> Question[1], result |-> ReplayJudged(Question[1])]>> /\ replayOut' = "partial"
    /\ UNCHANGED <<replaySource, replayAt, replayEnded, replays>>

ReplayEnds ==
    /\ replayAt = "replaying" /\ Len(replayShown) = Len(replaySource.replies)
    /\ replayOut' = "whole" /\ replayAt' = "idle" /\ replayEnded' = "replayed"
    /\ UNCHANGED <<replaySource, replayShown, replays>>

ReplayDies ==
    /\ replayAt = "replaying" /\ replayAt' = "idle" /\ replayEnded' = "died"
    /\ UNCHANGED <<replaySource, replayOut, replayShown, replays>>

ReplayNext == QAReplayBegins \/ ReplayStops \/ ReplayQuestion \/ ReplayCanary \/ ReplayEnds \/ ReplayDies

---------------------------------------------------------------------------
(* Properties *)

\* What the run that left these responses reported: it repairs only what it cannot read.
Reported(replies) ==
    IF replies = <<>> THEN "provider_failed"
    ELSE IF ReplayJudged(replies[1]).execution # "transport_failed" THEN ReplayJudged(replies[1]).execution
    ELSE IF Len(replies) = 1 THEN "provider_failed" ELSE ReplayJudged(replies[2]).execution

Grounded(version, question, reply, result) ==
    LET claims == reply.claims
        Quoted(quote) == quote.exact + quote.whitespace + quote.safe > 0
    IN  /\ result.answer = "answered" =>
            /\ claims # <<>> /\ reply.shape # "foreign_envelope"
            /\ \A i \in DOMAIN claims :
                /\ claims[i].citations # <<>>
                /\ \A j \in DOMAIN claims[i].citations : LET citation == claims[i].citations[j] IN
                    /\ citation.passage \in question.top /\ Quoted(citation.quote)
                    /\ version = "v1" => citation.quote.exact <= 1
                    /\ version # "v1" =>
                        /\ QAPassages[citation.passage].paper = claims[i].paper
                        /\ citation.quote.exact > 1 => ~citation.quote.cross
            /\ version = "v1.2" =>
                /\ \A e \in question.requested : QAEntities[e].type = "model" =>
                    \/ \E i \in DOMAIN claims : claims[i].entity = e /\ claims[i].paper = QAEntities[e].paper
                    \/ \A p \in question.top : QAPassages[p].paper # QAEntities[e].paper
                /\ \A i \in DOMAIN claims, e \in DOMAIN QAEntities :
                    e \in claims[i].mentions => QAEntities[e].paper = claims[i].paper
                /\ result.final = "answered" => \A e \in question.requested : \E p \in question.top :
                    QAPassages[p].paper = QAEntities[e].paper
        /\ result.execution \notin {"none", "success"} => result.shows = "failure"
        /\ InReview(version, result) = "answers" <=> result.answer = "answered"
        /\ version = "v1.2" /\ result.execution = "success" => InReview(version, result) # "none"

\* An answer is only ever shown with evidence the reader can check: every claim cites
\* passages that were retrieved for this question and have the words quoted; from v1.1 on
\* the passages are of the paper the claim is about and a quote found more than once is
\* found nowhere else; in v1.2 no model that was asked for and retrieved is passed over,
\* and an answer that leaves out anything asked for calls itself partial. Whatever is not
\* verified is shown as a failure or as insufficient evidence, never as an answer, nor in
\* the packet of answers to review. The same goes for what a replay shows; and the replay of
\* one execution succeeds on the questions the run succeeded on, and on no other.
AnswersAreGrounded ==
    /\ Grounded(qaSetting.version, qaSetting.question, qaOutcome.reply, qaOutcome.result)
    /\ \A q \in DOMAIN replayShown :
        LET shown == replayShown[q]
        IN  /\ Grounded(replaySource.version, replaySource.question, shown.reply, shown.result)
            /\ replaySource.fresh =>
                (shown.result.execution = "success" <=> Reported(replaySource.replies[q]) = "success")
=============================================================================
