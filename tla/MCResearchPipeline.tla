------------------------- MODULE MCResearchPipeline -------------------------
(***************************************************************************)
(* Instances of ResearchPipeline for TLC: single and cross-paper runs over *)
(* three passages of two sources, and the offline callers of the executor  *)
(* and of the writer.                                                      *)
(***************************************************************************)
EXTENDS ResearchPipeline, TLC

CONSTANTS None, p1, p2, p3, A, B    \* None is NoLimit

MCPassages == {p1, p2, p3}
MCSources == {A, B}
MCSourceOf == (p1 :> A) @@ (p2 :> A) @@ (p3 :> B)

NoCandidates == [s \in {} |-> <<>>]
Exactly(p) == Candidate(p, TRUE)
Wrongly(p) == Candidate(p, FALSE)

\* The budget of the runs, and one that is too tight for two calls of a tool.
RunSpec ==
    [maxAttempts |-> [k \in Kinds |-> None], maxCalls |-> [provider |-> 2, tool |-> 6],
     maxInput |-> None, maxOutput |-> None, maxTotal |-> 4, maxRetries |-> 0,
     maxReplans |-> 1, runTimeout |-> None, operationTimeout |-> 1]
OneToolSpec == [RunSpec EXCEPT !.maxCalls = [provider |-> 2, tool |-> 1]]
OneProviderSpec == [RunSpec EXCEPT !.maxCalls = [provider |-> 1, tool |-> 6]]

Runner ==
    [entry |-> "runner", allowed |-> {}, minSources |-> 1, requirementsKnown |-> TRUE,
     compare |-> FALSE, cancelled |-> FALSE, spec |-> RunSpec, candidates |-> NoCandidates,
     conflicts |-> {}, plan |-> <<>>, graph |-> <<>>]
CrossPaper == [Runner EXCEPT !.allowed = {p1, p3}, !.compare = TRUE]
Executor(candidates) ==
    [Runner EXCEPT !.entry = "executor", !.plan = <<Nothing, Nothing>>, !.minSources = 2,
                   !.candidates = candidates]
OfflineWriter(conflicts) ==
    [Runner EXCEPT !.entry = "writer", !.plan = <<Nothing>>, !.graph = <<{p1, p3}>>,
                   !.conflicts = conflicts]

PipelineConfigs ==
    {Runner, CrossPaper,
     [Runner EXCEPT !.spec = OneToolSpec], [Runner EXCEPT !.spec = OneProviderSpec],
     [Runner EXCEPT !.requirementsKnown = FALSE], [Runner EXCEPT !.cancelled = TRUE],
     Executor(NoCandidates), Executor(1 :> <<Exactly(p1), Exactly(p3)>>),
     Executor(1 :> <<Exactly(p1), Exactly(p1)>>), Executor(1 :> <<Exactly(p1), Wrongly(p3)>>),
     Executor(1 :> <<>>), Executor(2 :> <<>>),
     OfflineWriter({}), OfflineWriter({"conflict"}),
     [OfflineWriter({}) EXCEPT !.cancelled = TRUE]}

\* A bad candidate followed by a good one.
CandidateConfigs == {Executor(1 :> <<Wrongly(p1), Exactly(p3)>>)}

Cite(p, verbatim) == [evidence |-> p, verbatim |-> verbatim]
Draft(claims) == [claims |-> claims, abstains |-> FALSE, disclosed |-> {}]
MCDrafts ==
    {Draft({{Cite(p1, TRUE), Cite(p3, TRUE)}}),
     Draft({{Cite(p1, TRUE)}, {Cite(p2, FALSE)}}),
     Draft({{Cite(p3, FALSE)}}),
     [Draft({}) EXCEPT !.abstains = TRUE],
     [Draft({{Cite(p1, TRUE)}}) EXCEPT !.disclosed = {"conflict"}]}

MCReservedUsage == [input |-> 1, output |-> 1]
\* As reserved, and more than the run can pay.
MCUsages == {MCReservedUsage, [input |-> 3, output |-> 2]}

=============================================================================
