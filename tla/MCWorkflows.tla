----------------------------- MODULE MCWorkflows -----------------------------
(***************************************************************************)
(* The workflows around the research runtime, checked side by side: a      *)
(* behaviour is one of one workflow, chosen at the start, and leaves the   *)
(* variables of the others alone. They share no state in the program.      *)
(***************************************************************************)
EXTENDS AgentRuntime, ProviderCanary, Evaluation, QAReplay, ObsidianVault, FakeRuntime,
        DeepReading, VerbatimSpan, PlanContracts, EvaluationAggregate, Retrieval, TLC

VARIABLE workflow

AgentCall(tool, args) == [tool |-> tool, args |-> args, id |-> <<>>]
Named(call) == [call EXCEPT !.id = <<"named">>]
Retrieve(args) == AgentCall("retrieve_evidence", args)
Matrix == AgentCall("query_evidence_matrix", "a")
Answer == AgentCall("answer_grounded", "a")
MCAgentReplies ==
    {<<>>, <<Retrieve("a")>>, <<Named(Retrieve("b"))>>, <<Retrieve("invalid")>>,
     <<Retrieve("a"), Retrieve("b")>>, <<Retrieve("b"), Retrieve("c"), Retrieve("d")>>,
     <<Answer>>, <<Named(Answer)>>, <<Retrieve("a"), Answer>>, <<Answer, Named(Matrix)>>, <<Matrix>>, <<Matrix, Retrieve("b")>>,
     <<AgentCall("stage_writing_draft", "a")>>, <<AgentCall("list_papers", "a")>>,
     <<AgentCall("list_papers", "a"), AgentCall("list_papers", "b"), Matrix>>,
     <<AgentCall("list_papers", "a"), AgentCall("shell", "a")>>}
AgentTask(category, entities) == [category |-> category, entities |-> entities, forbidden |-> FALSE]
MCAgentTasks ==
    {AgentTask("single_paper", 1), AgentTask("cross_paper", 3), AgentTask("writing_approval", 0),
     [AgentTask("single_paper", 0) EXCEPT !.forbidden = TRUE]}

MCCanaryReplies ==
    {Lost, CutShort, Whole, [Whole EXCEPT !.usage = "over"], [Whole EXCEPT !.usage = "negative"],
     [Whole EXCEPT !.sameModel = FALSE], [Whole EXCEPT !.status = 500, !.usage = "over"]}

\* The aggregation takes runs of one paper each.
MCEvalPapers == <<"paper">>
MCEvalWindow == "first" :> {"fixed", "good", "other", "no_candidates"} @@ "second" :> {"fixed", "good"}

QAPassage(paper, names) == [paper |-> paper, names |-> names]
MCQAPassages == "p1" :> QAPassage("A", {"MA"}) @@ "p2" :> QAPassage("B", {"DB"}) @@ "p3" :> QAPassage("B", {"MB"})
QAEntity(paper, type) == [paper |-> paper, type |-> type, evidence |-> {}]
MCQAEntities == "MA" :> QAEntity("A", "model") @@ "MB" :> QAEntity("B", "model")
             @@ "DB" :> QAEntity("B", "dataset") @@ "MC" :> QAEntity("C", "model")
MCQAQuestions == {[top |-> {"p1", "p2"}, requested |-> requested] :
                    requested \in {{}, {"MA", "MB"}, {"MA", "DB", "MC"}, {"DB", "MC"}}}
Once == [exact |-> 1, whitespace |-> 1, safe |-> 1, roundTrips |-> {"whitespace", "safe"}, identical |-> TRUE, cross |-> FALSE,
         copies |-> 1]
Respaced == [Once EXCEPT !.exact = 0]
Twice == [Once EXCEPT !.exact = 2, !.whitespace = 2, !.safe = 2]
MCQAQuotes ==
    {Once, [Once EXCEPT !.cross = TRUE], Twice, [Twice EXCEPT !.cross = TRUE], [Twice EXCEPT !.identical = FALSE],
     Respaced, [Respaced EXCEPT !.whitespace = 2], [Respaced EXCEPT !.roundTrips = {"safe"}],
     [Respaced EXCEPT !.whitespace = 0, !.safe = 2], [Respaced EXCEPT !.whitespace = 0, !.roundTrips = {}],
     [Respaced EXCEPT !.whitespace = 0, !.safe = 0]}
Cite(passage, quote) == [passage |-> passage, quote |-> quote]
QAClaim(paper, entity, mentions, citations) ==
    [paper |-> paper, entity |-> entity, mentions |-> mentions, citations |-> citations]
ClaimA == QAClaim("A", "MA", {"MA"}, <<Cite("p1", Once)>>)
ClaimB == QAClaim("B", "MB", {}, <<Cite("p2", Once)>>)
QAReply(kind, text) == [kind |-> kind, text |-> text, shape |-> "direct", status |-> "none", claims |-> <<>>]
QAAnswered(claims) == [kind |-> "answer", text |-> "x", shape |-> "direct", status |-> "answered", claims |-> claims]
QAAbstains == [QAAnswered(<<>>) EXCEPT !.status = "insufficient_evidence"]
MCQABroken == {QAReply("raises", "x"), QAReply("not_json", "x"), QAReply("not_canonical", "x"), QAReply("schema", "x"),
               QAReply("schema", "y"), QAAnswered(<<>>), QAAbstains, [QAAbstains EXCEPT !.claims = <<ClaimA>>]}
MCQAClaims ==
    {QAClaim(paper, entity, mentions, <<Cite(passage, Once)>>) :
        paper \in {"A", "B", "C"}, entity \in {"MA", "MB", "DB", ""}, mentions \in {{}, {"MB"}}, passage \in {"p1", "p2", "p3"}}
    \cup {[ClaimA EXCEPT !.citations = <<Cite("p1", quote)>>] : quote \in MCQAQuotes}
    \cup {[ClaimA EXCEPT !.citations = citations] :
            citations \in {<<>>, <<Cite("p1", Once), Cite("p2", Once)>>, <<Cite("p1", Once), Cite("p1", Twice)>>}}
MCQAReplies ==
    "v1" :> {QAReply("raises", "x"), [QAAnswered(<<ClaimA>>) EXCEPT !.shape = "own_envelope"],
             [QAAnswered(<<ClaimA>>) EXCEPT !.shape = "foreign_envelope", !.text = "y"],
             QAAnswered(<<[ClaimA EXCEPT !.citations = <<Cite("p1", Twice)>>]>>)}
    @@ "v1.1" :> MCQABroken \cup {QAAnswered(<<claim>>) : claim \in MCQAClaims}
    @@ "v1.2" :> MCQABroken \cup {QAAnswered(<<claim>>) : claim \in MCQAClaims}
                 \cup {QAAnswered(<<ClaimA, claim>>) : claim \in {ClaimB, [ClaimB EXCEPT !.mentions = {"MC"}]}}
\* Two questions of v1 with none, one or two responses each, one of v1.1 whose directory is sound or not.
QASource(version, replies, sound, fresh) ==
    [version |-> version, question |-> [top |-> {"p1", "p2"}, requested |-> {}], replies |-> replies, sound |-> sound, fresh |-> fresh]
StoredReplies(version) ==
    {reply \in MCQAReplies[version] : reply.kind # "raises"} \cup {QAReply("not_json", "x"), QAAnswered(<<ClaimA>>)}
Unreadable(reply) == reply.kind # "answer" \/ reply.shape = "foreign_envelope"
FreshReplies ==
    {<<>>} \cup {<<first>> : first \in StoredReplies("v1")}
    \cup {<<first, second>> : first \in {reply \in StoredReplies("v1") : Unreadable(reply)}, second \in StoredReplies("v1")}
StaleReplies ==
    {<<first, second>> : first \in {reply \in StoredReplies("v1") : ~Unreadable(reply)}, second \in StoredReplies("v1")}
MCQASources ==
    {QASource("v1", <<first, second>>, TRUE, TRUE) : first \in FreshReplies, second \in FreshReplies}
    \cup {QASource("v1", <<replies>>, TRUE, FALSE) : replies \in StaleReplies}
    \cup {QASource("v1.1", <<<<reply>>>>, sound, TRUE) : reply \in StoredReplies("v1.1"), sound \in BOOLEAN}
MCQAQueries == "v1" :> 2 @@ "v1.1" :> 3 @@ "v1.2" :> 4

\* Two papers with one key, one paper without a name, and one note that is renamed to another.
Listed(key, file) == [key |-> key, file |-> file]
MCPaperLists == {<<Listed("k1", "a"), Listed("k2", "b")>>, <<Listed("k1", "b"), Listed("k1", "none")>>, <<Listed("k1", "c")>>}
MCVaultFiles == <<"a", "b", "c">>

MCFakeSpecs ==
    {DefaultSpec, [DefaultSpec EXCEPT !.maxCalls = [k \in {"provider", "tool"} |-> 1]], [DefaultSpec EXCEPT !.maxRetries = 0],
     [DefaultSpec EXCEPT !.runTimeout = 2], [DefaultSpec EXCEPT !.maxReplans = 0, !.runTimeout = NoLimit]}

\* Quotes of up to three characters, and texts that break words, repeat, respace and respell them.
Character(kind, folded) == [kind |-> kind, folded |-> folded]
MCCharOf ==
    [c \in {"a", "b"} |-> Character("letter", <<c>>)]
    @@ "A" :> Character("letter", <<"a">>) @@ "fi" :> Character("letter", <<"a", "b">>)
    @@ "1" :> Character("digit", <<"1">>) @@ " " :> Character("space", <<" ">>)
    @@ "nl" :> Character("newline", <<"nl">>) @@ "-" :> Character("hyphen", <<"-">>)
    @@ "nul" :> Character("dropped", <<"nul">>)
Strings(chars, length) == UNION {[1..n -> chars] : n \in 1..length}
MCSpanTexts ==
    Strings({"a", "b", "nl", "-"}, 4) \cup Strings({"a", "A", "fi", " ", "nul"}, 3)
    \cup {<<"a", "-", " ", "nl", "b">>, <<"a", "-", "nl", "nul", "b">>, <<"1", "-", "nl", "a">>, <<"a", " ", "b", "a">>}
MCSpanQuotes ==
    {<<>>} \cup
    Strings({"a", "b", "A", "fi", "-"}, 2) \cup {<<"a", " ", "b">>, <<"b", "-", "a">>, <<"a", "nl", "A">>, <<"a", "1">>, <<"A", " ", "b">>}

\* A paper of two chunks; links that are anchored, moved or lost, and values with and without evidence.
InChunk(chunk, quote) == quote @@ [chunk |-> chunk]
Verbatim == InChunk("c1", Once)
Respelled == InChunk("c2", Respaced)
Misplaced == InChunk("c9", Once)
Repeated == InChunk("c1", Twice)
\* A candidate of a bank is a text that was found; one that stands in other words too, and one
\* of another context, are refused.
MCBanks == {<<>>, <<Verbatim, SpanText(Respelled)>>, <<SpanText([Respelled EXCEPT !.copies = 2])>>, <<Verbatim, Misplaced>>}
Link(quote) == [chunk |-> quote.chunk, samePages |-> TRUE, quote |-> quote]
NoteReply(kind, links) == [kind |-> kind, links |-> links]
MCNoteReplies ==
    {NoteReply(kind, <<>>) : kind \in {"raises", "not_json", "schema", "note"}} \cup
    {NoteReply("note", links) : links \in {<<Link(Verbatim)>>, <<Link(Repeated)>>,
        <<Link(Verbatim), Link(Respelled), [Link(Verbatim) EXCEPT !.samePages = FALSE]>>,
        <<Link(Misplaced), Link(Verbatim), Link(Respelled), Link(Verbatim)>>}}
RawValue(status, content, ids, quotes) ==
    [status |-> status, content |-> content, ids |-> ids, quotes |-> quotes, refers |-> {}]
Candidate(i) == <<"existing_candidate", i>>
Unfounded == {RawValue("unsupported", "text", {}, <<>>), RawValue("stated", "misfit", {}, <<Verbatim>>),
              RawValue("stated", "text", {<<"deep_quote", 1>>}, <<Verbatim>>)}
Mixed == <<RawValue("absent", "none", {}, <<>>), RawValue("not_applicable", "none", {}, <<>>), RawValue("stated", "text", {}, <<>>),
           RawValue("stated", "none", {Candidate(2)}, <<>>), RawValue("alias", "unknown_label", {}, <<Respelled>>),
           RawValue("stated", "text", {Candidate(1)}, <<Verbatim, Repeated>>), RawValue("stated", "text", {<<"deep_quote", 1>>}, <<Verbatim>>)>>
DeepObject(kind, values) == [kind |-> kind, values |-> values]
DeepReply(kind, objects) == [kind |-> kind, usage |-> "provider_reported", objects |-> objects]
Changes(component) == [RawValue("stated", "text", {}, <<Verbatim>>) EXCEPT !.refers = {component}]
MCDeepReplies ==
    {DeepReply(kind, <<>>) : kind \in {"raises", "not_json"}} \cup
    {DeepReply("object", <<DeepObject("claim", <<value>>)>>) : value \in Unfounded} \cup
    {DeepReply("object", <<DeepObject("component", Mixed)>>)} \cup
    {[DeepReply("object", <<DeepObject("component", <<Changes(1)>>), DeepObject("ablation", <<Changes(component)>>)>>)
        EXCEPT !.usage = "usage_unavailable"] : component \in {1, 2}}
MCDeepIdentities ==
    {[name |-> "first", fits |-> TRUE, sameModel |-> TRUE], [name |-> "second", fits |-> TRUE, sameModel |-> TRUE],
     [name |-> "long", fits |-> FALSE, sameModel |-> TRUE], [name |-> "other", fits |-> TRUE, sameModel |-> FALSE]}

\* Three subtasks after each other in every way there is, one key and one question used twice.
DraftOf(subtasks) == [shaped |-> TRUE, bound |-> TRUE, preserves |-> TRUE, subtasks |-> subtasks]
Drafted(key, asks, after) == [key |-> key, asks |-> asks, after |-> after]
AfterSets == (SUBSET {1, 2, 3}) \cup {{9}}
Chain == DraftOf(<<Drafted(1, "a", {}), Drafted(2, "b", {1})>>)
MCDrafts ==
    {DraftOf(<<Drafted(1, "a", f[1]), Drafted(2, "b", f[2]), Drafted(3, "c", f[3])>>) : f \in [1..3 -> AfterSets]} \cup
    {DraftOf(<<Drafted(1, "a", {}), Drafted(2, "b", {}), Drafted(3, "a", after)>>) : after \in {{}, {1}, {2}}} \cup
    {Chain, DraftOf(<<>>), [Chain EXCEPT !.shaped = FALSE], [Chain EXCEPT !.bound = FALSE], [Chain EXCEPT !.preserves = FALSE],
     DraftOf(<<Drafted(1, "a", {}), Drafted(1, "b", {})>>), DraftOf(Chain.subtasks \o Chain.subtasks)}
Decision(brief, approval, matches) == [brief |-> brief, approval |-> approval, matches |-> matches]
MCDecisions == {Decision("approved", "approved", TRUE), Decision("approved", "approved", FALSE), Decision("rejected", "rejected", TRUE),
                Decision("draft", "approved", TRUE), Decision("approved", "rejected", TRUE)}
MCProposals ==
    {[preserves |-> TRUE, after |-> after, asks |-> asks] :
        after \in {<<>>, <<1>>, <<2, 1>>, <<1, 1>>, <<1, 2, 1>>, <<9>>}, asks \in {"a", "d"}} \cup
    {[preserves |-> FALSE, after |-> <<>>, asks |-> "d"]}
MCFindings == "e1" :> [source |-> "s1", type |-> "text"] @@ "e2" :> [source |-> "s1", type |-> "table"]
           @@ "e3" :> [source |-> "s2", type |-> "text"]
Need(count, types, sources, scope) == [count |-> count, types |-> types, sources |-> sources, scope |-> scope]
MCRequirements == {Need(1, {}, 1, {}), Need(0, {}, 0, {"label"}), Need(2, {"table"}, 2, {})}
MCLocators ==
    [passage : BOOLEAN, page : {-1, 1}, start : {-1, 0, 3}, end : {-1, 0, 3}, bbox : {"absent", "area", "flat"}, space : BOOLEAN,
     modality : {"text", "image_region", "table_region"}]
MCCitationShapes == [quote : BOOLEAN, start : {-1, 0, 3}, end : {-1, 0, 3}]
WholeBundle ==
    [task |-> "t", briefTask |-> "t", status |-> "approved", approvals |-> {[mine |-> TRUE, status |-> "approved"]},
     sources |-> {"s1"}, evidence |-> <<[id |-> "e1", source |-> "s1"]>>, claims |-> <<[id |-> "c1", task |-> "t"]>>,
     citations |-> <<[id |-> "q1", claim |-> "c1", evidence |-> "e1", verbatim |-> TRUE]>>]
MCBundles ==
    {WholeBundle, [WholeBundle EXCEPT !.briefTask = "other"], [WholeBundle EXCEPT !.approvals = {}], [WholeBundle EXCEPT !.sources = {}],
     [WholeBundle EXCEPT !.approvals = @ \cup {[mine |-> FALSE, status |-> "approved"]}], [WholeBundle EXCEPT !.claims[1].task = "other"],
     [WholeBundle EXCEPT !.claims[1].id = "c2"], [WholeBundle EXCEPT !.evidence[1].id = "e2"], [WholeBundle EXCEPT !.citations[1].verbatim = FALSE],
     [WholeBundle EXCEPT !.citations = @ \o @], [WholeBundle EXCEPT !.evidence = @ \o @], [WholeBundle EXCEPT !.status = "draft", !.approvals = {}]}

\* Two papers, each with a run that fits, and with one that fits in everything but one thing.
CallOf(stage, attempt, tokens, latency) == [stage |-> stage, attempt |-> attempt, tokens |-> tokens, latency |-> latency]
RunOf(paper, calls) ==
    [selected |-> <<paper>>, planned |-> <<paper>>, papers |-> <<paper>>, frozen |-> {"p1", "p2"}, changed |-> {},
     artifacts |-> AggArtifacts, reviewed |-> "sha", rows |-> <<"complete", "complete">>,
     config |-> [commit |-> "c1", model |-> "m1"], verified |-> <<paper>>, calls |-> calls]
FirstRun == RunOf("p1", <<CallOf("baseline_raw", 1, 5, 30), CallOf("baseline_raw", 2, 7, 10), CallOf("proposed_final_note", 1, 1, -1),
                          CallOf("proposed_candidate_chunk", 1, 3, 20), CallOf("other", 1, 2, 40)>>)
SecondRun == RunOf("p2", <<CallOf("baseline_raw", 1, 4, 20), CallOf("proposed_candidate_chunk", 1, 0, -1)>>)
ThirdRun == RunOf("p1", <<>>)
UnfitRuns ==
    {[SecondRun EXCEPT !.planned = <<"p1">>], [SecondRun EXCEPT !.papers = <<"p1">>], [SecondRun EXCEPT !.frozen = {"p1"}],
     [SecondRun EXCEPT !.changed = {"pdf"}], [SecondRun EXCEPT !.artifacts = @ \ {"final_note"}], [SecondRun EXCEPT !.reviewed = "other"],
     [SecondRun EXCEPT !.rows = <<"complete", "blank">>], [SecondRun EXCEPT !.rows = <<>>], [SecondRun EXCEPT !.config.commit = "none"],
     [SecondRun EXCEPT !.config.commit = "c2"], [SecondRun EXCEPT !.verified = <<"p1">>], [SecondRun EXCEPT !.selected = <<>>]}
AggRequest(runs, papers) == [runs |-> runs, expected |-> [p \in papers |-> "sha"]]
MCAggRequests ==
    {AggRequest(<<>>, {}), AggRequest(<<FirstRun, SecondRun>>, {"p1", "p2"}), AggRequest(<<SecondRun>>, {"p2"}), AggRequest(<<ThirdRun>>, {"p1"}),
     AggRequest(<<FirstRun, ThirdRun>>, {"p1"}), AggRequest(<<FirstRun>>, {"p1", "p2"}), AggRequest(<<FirstRun, SecondRun>>, {"p1"})}
    \cup {AggRequest(<<FirstRun, run>>, {"p1", "p2"}) : run \in UnfitRuns}

\* Passages that fit in a window, that need more than one, and whose windows are too long when they
\* are encoded again, in an order that is not that of their identifiers; one corpus repeats one.
RPassage(id, tokens) == [id |-> id, tokens |-> tokens]
Long == <<"b", "b", "a", "b", "c">>
MCCorpora ==
    {<<RPassage(1, Long), RPassage(2, <<"a", "a", "b">>)>>, <<RPassage(2, <<"c", "a", "b", "wide", "b", "wide", "wide", "c">>), RPassage(1, <<"b">>), RPassage(3, Long)>>,
     <<RPassage(1, <<"a", "wide", "c">>), RPassage(2, <<>>), RPassage(3, <<"c", "c", "b", "b">>)>>, <<RPassage(1, Long), RPassage(1, <<"a">>)>>}
Graded(split, reviewed, grades) == [split |-> split, reviewed |-> reviewed, grades |-> grades]
Ranking(score, results) == [score |-> score, results |-> results]
MCRecords == 1 :> Graded("development", TRUE, 1 :> 1 @@ 2 :> 2) @@ 2 :> Graded("dev_hard_negative", TRUE, 2 :> 1) @@ 3 :> Graded("development", TRUE, <<>>)
Asks(records, rankings) == {[records |-> records, rankings |-> rankings, minimum |-> minimum] : minimum \in {0, 500, 1000}}
MCCalibrations ==
    UNION {Asks(MCRecords, 1 :> Ranking(s1, r1) @@ 2 :> Ranking(s2, r2) @@ 3 :> Ranking(s3, r3)) :
        s1 \in 0..2, r1 \in {<<>>, <<1, 3>>, <<2, 2, 1>>}, s2 \in 0..2, r2 \in {<<2>>, <<1>>, <<1, 1, 2>>}, s3 \in {-1, 1, 3}, r3 \in {<<>>, <<1>>}}
    \cup UNION {Asks([MCRecords EXCEPT ![3] = record], 1 :> Ranking(1, <<1>>) @@ 2 :> Ranking(1, <<2>>) @@ 3 :> Ranking(1, <<1>>)) :
        record \in {Graded("held_out", TRUE, <<>>), Graded("development", FALSE, <<>>), Graded("development", TRUE, 3 :> 1)}}
    \cup Asks(MCRecords, 1 :> Ranking(1, <<1>>))

Init ==
    /\ workflow \in {"agent", "adapters", "canary", "evaluation", "qa", "vault", "fake", "reading", "note", "span", "plan", "aggregate", "replay", "retrieval"}
    /\ workflow # "canary" => canary = "glm_canary"
    /\ workflow # "qa" => qaSetting = [version |-> "v1", question |-> [top |-> {"p1", "p2"}, requested |-> {}]]
    /\ workflow # "fake" => fakeRun = [scenario |-> "success_minimal", spec |-> DefaultSpec, interrupt |-> 0, kept |-> TRUE]
    /\ workflow # "span" => spanAsked = [quote |-> <<>>, text |-> <<"a">>, found |-> NoSpan("not_found")]
    /\ workflow # "replay" => replaySource = QASource("v1", <<<<>>, <<>>>>, TRUE, TRUE) /\ replayOut = "absent"
    /\ workflow # "aggregate" => aggOut = [kind |-> "absent"]
    /\ AgentInit /\ AdapterInit /\ CanaryInit /\ EvalInit /\ QAInit /\ ReplayInit /\ VaultInit /\ FakeInit /\ DeepInit /\ SpanInit /\ PlanInit /\ AggInit /\ RetrInit
    /\ qaSetting.version = "v1" => qaSetting.question.requested = {}   \* v1 does not look at it

Next ==
    /\ UNCHANGED workflow
    /\ \/ workflow = "agent" /\ AgentNext /\ UNCHANGED <<adapterVars, canaryVars, evalVars, qaVars, vaultVars, fakeVars, deepVars, spanVars, planVars, aggVars, replayVars, retrVars>>
       \/ workflow = "adapters" /\ AdapterNext /\ UNCHANGED <<agentVars, canaryVars, evalVars, qaVars, vaultVars, fakeVars, deepVars, spanVars, planVars, aggVars, replayVars, retrVars>>
       \/ workflow = "canary" /\ CanaryNext /\ UNCHANGED <<agentVars, adapterVars, evalVars, qaVars, vaultVars, fakeVars, deepVars, spanVars, planVars, aggVars, replayVars, retrVars>>
       \/ workflow = "evaluation" /\ EvalNext /\ UNCHANGED <<agentVars, adapterVars, canaryVars, qaVars, vaultVars, fakeVars, deepVars, spanVars, planVars, aggVars, replayVars, retrVars>>
       \/ workflow = "qa" /\ QANext /\ UNCHANGED <<agentVars, adapterVars, canaryVars, evalVars, vaultVars, fakeVars, deepVars, spanVars, planVars, aggVars, replayVars, retrVars>>
       \/ workflow = "vault" /\ VaultNext /\ UNCHANGED <<agentVars, adapterVars, canaryVars, evalVars, qaVars, fakeVars, deepVars, spanVars, planVars, aggVars, replayVars, retrVars>>
       \/ workflow = "fake" /\ FakeNext /\ UNCHANGED <<agentVars, adapterVars, canaryVars, evalVars, qaVars, vaultVars, deepVars, spanVars, planVars, aggVars, replayVars, retrVars>>
       \/ ((workflow = "reading" /\ DeepNext) \/ (workflow = "note" /\ NoteNext))
          /\ UNCHANGED <<spanVars, agentVars, adapterVars, canaryVars, evalVars, qaVars, vaultVars, fakeVars, planVars, aggVars, replayVars, retrVars>>
       \/ workflow = "span" /\ SpanNext
          /\ UNCHANGED <<agentVars, adapterVars, canaryVars, evalVars, qaVars, vaultVars, fakeVars, deepVars, planVars, aggVars, replayVars, retrVars>>
       \/ workflow = "plan" /\ PlanNext /\ UNCHANGED <<agentVars, adapterVars, canaryVars, evalVars, qaVars, vaultVars, fakeVars, deepVars, spanVars, aggVars, replayVars, retrVars>>
       \/ workflow = "aggregate" /\ AggNext
          /\ UNCHANGED <<agentVars, adapterVars, canaryVars, evalVars, qaVars, vaultVars, fakeVars, deepVars, spanVars, planVars, replayVars, retrVars>>
       \/ workflow = "replay" /\ ReplayNext
          /\ UNCHANGED <<agentVars, adapterVars, canaryVars, evalVars, qaVars, vaultVars, fakeVars, deepVars, spanVars, planVars, aggVars, retrVars>>
       \/ workflow = "retrieval" /\ RetrNext
          /\ UNCHANGED <<agentVars, adapterVars, canaryVars, evalVars, qaVars, vaultVars, fakeVars, deepVars, spanVars, planVars, aggVars, replayVars>>
vars == <<workflow, agentVars, adapterVars, canaryVars, evalVars, qaVars, vaultVars, fakeVars, deepVars, spanVars, planVars, aggVars, replayVars, retrVars>>
Spec == Init /\ [][Next]_vars
=============================================================================
