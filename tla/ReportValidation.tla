-------------------------- MODULE ReportValidation --------------------------
(***************************************************************************)
(* What the deterministic checks say of evidence and of a report draft:    *)
(* the evidence graph of a run, its gaps (gap_replan.py) and the verdict   *)
(* on a draft (writer.py). A passage stands for the evidence unit anchored *)
(* in it, and a graph says which evidence supports each subtask; nodes and *)
(* edges are sets, so their canonical order and uniqueness are not modelled*)
(***************************************************************************)
EXTENDS Naturals, FiniteSets, Sequences

CONSTANTS Passages, Sources,
          SourceOf      \* the source of each passage

ASSUME SourceOfType == SourceOf \in [Passages -> Sources]

---------------------------------------------------------------------------
(* Evidence graph and assessment *)

Evidence(graph) == UNION {graph[s] : s \in DOMAIN graph}
SourcesOf(evidence) == {SourceOf[p] : p \in evidence}

\* assess_evidence_graph: a subtask with too few sources or with no evidence
\* has a gap. A requirement that names no subtask of the graph is an error,
\* and no assessor is given to the composed run, so conflicts come from the
\* caller. Dependencies are always complete when the executor has returned.
Gaps(graph, minSources) ==
    {s \in DOMAIN graph : graph[s] = {} \/ Cardinality(SourcesOf(graph[s])) < minSources}

\* _validate_cross_paper_allowlist.
MatchesAllowlist(graph, allowed) ==
    /\ Evidence(graph) \subseteq allowed
    /\ SourcesOf(Evidence(graph)) = SourcesOf(allowed)

---------------------------------------------------------------------------
(* Report drafts. A claim is a set of citations, each naming a passage and *)
(* saying whether its quote is found verbatim in it.                       *)

Citation == [evidence : Passages, verbatim : BOOLEAN]
Claim == SUBSET Citation

Grounded(graph, claim) == {c \in claim : c.evidence \in Evidence(graph) /\ c.verbatim}

\* Mutant of Accepted: every claim of the draft is displayed.
AcceptedUnchecked(graph, draft) == draft.claims

\* The claims a report may display.
Accepted(graph, draft) == {claim \in draft.claims : Grounded(graph, claim) # {}}

\* A citation or a claim the validator reports as a blocking issue.
HasIssue(graph, draft) ==
    \/ \E claim \in draft.claims : Grounded(graph, claim) # claim \/ claim = {}
    \/ Accepted(graph, draft) = {} /\ ~draft.abstains

\* validate_report_draft: the status of the report. An invalid disclosure is
\* an issue like the others.
ReportStatus(graph, gaps, conflicts, draft) ==
    IF conflicts \ draft.disclosed # {} THEN "manual_review_required"
    ELSE IF Accepted(graph, draft) = {} THEN "insufficient_evidence"
    ELSE IF gaps # {} \/ conflicts # {} \/ HasIssue(graph, draft)
                             \/ draft.disclosed \ conflicts # {}
         THEN "partial" ELSE "complete"

\* _writer_validation_error_code: a draft without a displayable claim fails
\* the writer, unless it proposed nothing and says why.
DraftRejected(graph, draft) == Accepted(graph, draft) = {} /\ HasIssue(graph, draft)

\* require_cross_paper_comparison.
Compares(graph, draft) ==
    \E claim \in Accepted(graph, draft) :
        Cardinality(SourcesOf({c.evidence : c \in Grounded(graph, claim)})) >= 2

=============================================================================
