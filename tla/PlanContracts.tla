----------------------------- MODULE PlanContracts -----------------------------
(***************************************************************************)
(* The contracts a research plan goes through (deep_research/planner.py,   *)
(* contracts.py, gap_replan.py): the draft of the model becomes a plan     *)
(* whose subtasks are ordered by their dependencies, the evidence found    *)
(* for it is assessed, and one proposal may be added where it has gaps.    *)
(* Beside it, the shapes of a locator and of a citation. An ID is its      *)
(* content: two subtasks have one ID if they ask the same after the same.  *)
(***************************************************************************)
EXTENDS Integers, Sequences, FiniteSets
Funs == INSTANCE Functions

CONSTANTS
    Drafts,         \* drafts of the planner: [shaped, bound, preserves, subtasks]; one that names a
                    \* dependency of a subtask twice is not shaped, so the others name sets of keys
    Decisions,      \* decisions on the brief: [brief, approval, matches]
    Proposals,      \* added subtasks: [preserves, after, asks], after listing positions in the plan,
                    \* the same one perhaps twice: ReplanSubtaskDraft does not look at that
    Findings,       \* what was found: evidence |-> [source, type]
    Requirements,   \* what a subtask needs: [count, types, sources, scope]
    Scopes,         \* labels of the brief
    Locators, CitationShapes, Bundles,
    MaxSubtasks
Modalities == {"text", "image_region", "table_region"}
ASSUME PlanConstants ==
    /\ \A draft \in Drafts : draft.subtasks \in Seq([key : Nat, asks : STRING, after : SUBSET Nat])
    /\ IsFiniteSet(DOMAIN Findings) /\ \A need \in Requirements : need.count \in Nat /\ need.sources \in Nat
    /\ Locators \subseteq [passage : BOOLEAN, page : Int, start : Int, end : Int, bbox : {"absent", "area", "flat"},
                          space : BOOLEAN, modality : Modalities]
    /\ CitationShapes \subseteq [quote : BOOLEAN, start : Int, end : Int]

VARIABLES
    planCase,       \* the decision and draft, and the proposal added to it
    plan,           \* [verdict, subtasks], the plan there is
    assessed,       \* the assessment of the plan: [support, completed, covered, needs, gaps]
    shape           \* a locator, citation or bundle with its verdict
planVars == <<planCase, plan, assessed, shape>>

NoPlan == [verdict |-> "none", subtasks |-> <<>>]
NoAssessment == [made |-> FALSE]
NoShape == [kind |-> "none"]

---------------------------------------------------------------------------
(* Ordering by dependencies *)

\* What is placed after each round: everything whose dependencies were placed before it.
Placed(after) ==
    LET placed[n \in 0..Cardinality(DOMAIN after)] ==
            IF n = 0 THEN {} ELSE {k \in DOMAIN after : after[k] \subseteq placed[n - 1]}
    IN  placed
HasCycle(after) == Placed(after)[Cardinality(DOMAIN after)] # DOMAIN after

\* k is placed in a round before that of m.
Earlier(after, k, m) == \E n \in DOMAIN Placed(after) : k \in Placed(after)[n] /\ m \notin Placed(after)[n]
\* Round after round, each in any order (that of the IDs, which are hashes) ...
ByRounds(after) ==
    {order \in [1..Cardinality(DOMAIN after) -> DOMAIN after] :
        \A i, j \in DOMAIN order : i < j => order[i] # order[j] /\ ~Earlier(after, order[j], order[i])}
\* ... or in that of the local keys.
KeyOrder(after) ==
    CHOOSE order \in ByRounds(after) :
        \A i, j \in DOMAIN order : i < j => order[i] < order[j] \/ Earlier(after, order[i], order[j])

---------------------------------------------------------------------------
(* From a draft to a plan *)

ApprovalCode(decision) ==
    IF decision.brief = "rejected" THEN "brief_rejected"
    ELSE IF decision.brief # "approved" \/ decision.approval # "approved" THEN "brief_not_approved"
    ELSE IF ~decision.matches THEN "approval_identity_mismatch" ELSE "accepted"

Shaped(draft) == draft.shaped /\ draft.subtasks # <<>>
ScopeCode(draft) ==
    IF ~Shaped(draft) THEN "planner_contract_invalid"
    ELSE IF ~draft.bound \/ ~draft.preserves THEN "planner_scope_violation"
    ELSE IF Len(draft.subtasks) > MaxSubtasks THEN "planner_contract_invalid" ELSE "accepted"

KeysOf(draft) == {draft.subtasks[i].key : i \in DOMAIN draft.subtasks}
ByKey(draft) ==
    [key \in KeysOf(draft) |-> draft.subtasks[CHOOSE i \in DOMAIN draft.subtasks : draft.subtasks[i].key = key]]
AfterKeys(draft) == [key \in KeysOf(draft) |-> ByKey(draft)[key].after]
Dangling(draft, i) ==
    draft.subtasks[i].key \in draft.subtasks[i].after \/ ~(draft.subtasks[i].after \subseteq KeysOf(draft))
OrderCode(draft) ==
    IF Cardinality(KeysOf(draft)) # Len(draft.subtasks) THEN "planner_contract_invalid"
    ELSE IF \E i \in DOMAIN draft.subtasks : Dangling(draft, i) THEN "planner_dependency_invalid"
    ELSE IF HasCycle(AfterKeys(draft)) THEN "planner_cycle_detected" ELSE "accepted"

\* ResearchSubtask.create: the ID of a subtask is made of what it asks and of the IDs it depends on.
Subtask(asks, after) == [asks |-> asks, after |-> after]
PlaceOf(order, key) == CHOOSE i \in DOMAIN order : order[i] = key
Formal(draft) ==
    LET order == KeyOrder(AfterKeys(draft))
        formal[i \in DOMAIN order] ==
            Subtask(ByKey(draft)[order[i]].asks, {formal[PlaceOf(order, key)] : key \in AfterKeys(draft)[order[i]]})
    IN  formal
\* Mutant: only the question before is remembered.
AsksTwiceInARow(subtasks) == \E i, j \in DOMAIN subtasks : j = i + 1 /\ subtasks[i].asks = subtasks[j].asks
AsksTwice(subtasks) == \E i, j \in DOMAIN subtasks : i # j /\ subtasks[i].asks = subtasks[j].asks

IdsOf(subtasks) == {subtasks[i] : i \in DOMAIN subtasks}
\* ContractBundle: IDs are unique, dependencies exist, are not the subtask itself and have no cycle.
SubtasksFit(subtasks) ==
    LET ids == IdsOf(subtasks)
    IN  /\ Cardinality(ids) = Len(subtasks)
        /\ \A s \in ids : s \notin s.after /\ s.after \subseteq ids
        /\ ~HasCycle([s \in ids |-> s.after])

PlanCode(decision, draft) ==
    IF ApprovalCode(decision) # "accepted" THEN ApprovalCode(decision)
    ELSE IF ScopeCode(draft) # "accepted" THEN ScopeCode(draft)
    ELSE IF OrderCode(draft) # "accepted" THEN OrderCode(draft)
    ELSE IF AsksTwice(Formal(draft)) THEN "planner_contract_invalid"
    ELSE IF ~SubtasksFit(Formal(draft)) THEN "raised" ELSE "accepted"

---------------------------------------------------------------------------
(* Assessment and replan *)

SourcesIn(evidence) == {Findings[e].source : e \in evidence}
TypesIn(evidence) == {Findings[e].type : e \in evidence}
Gaps == {"subtask_no_evidence", "evidence_count_below_required", "required_evidence_type_missing",
         "source_diversity_insufficient", "dependency_unsatisfied", "scope_not_covered"}
HasGap(gap, s, evidence, need, completed, covered) ==
    CASE gap = "subtask_no_evidence" -> evidence = {}
      [] gap = "evidence_count_below_required" -> evidence # {} /\ Cardinality(evidence) < need.count
      [] gap = "required_evidence_type_missing" -> ~(need.types \subseteq TypesIn(evidence))
      [] gap = "source_diversity_insufficient" -> Cardinality(SourcesIn(evidence)) < need.sources
      [] gap = "dependency_unsatisfied" -> ~(s.after \subseteq completed)
      [] gap = "scope_not_covered" -> ~(need.scope \subseteq covered)
Assess(subtasks, support, need, completed, covered) ==
    {found \in IdsOf(subtasks) \X Gaps : HasGap(found[2], found[1], support[found[1]], need, completed, covered)}

\* A proposal keeps the scope, follows subtasks there are, and asks something new.
DependenciesOf(proposal) == Funs!Range(proposal.after)
Added(subtasks, proposal) ==
    Append(subtasks, Subtask(proposal.asks, {subtasks[i] : i \in DependenciesOf(proposal) \cap DOMAIN subtasks}))
\* ResearchSubtask and the bundle only refuse what the checks before them let through: a
\* dependency that is named twice is looked for by none of those.
NamesOneTwice(proposal) == ~Funs!IsInjective(proposal.after)
ReplanCode(subtasks, proposal) ==
    IF ~proposal.preserves THEN "replan_scope_violation"
    ELSE IF ~(DependenciesOf(proposal) \subseteq DOMAIN subtasks) THEN "replan_dependency_invalid"
    ELSE IF \E i \in DOMAIN subtasks : subtasks[i].asks = proposal.asks THEN "replan_not_admissible"
    ELSE IF NamesOneTwice(proposal) \/ ~SubtasksFit(Added(subtasks, proposal)) THEN "raised" ELSE "accepted"

---------------------------------------------------------------------------
(* Shapes. -1 stands for what is absent. *)

Absent == -1
PairedSpan(start, end) == (start = Absent <=> end = Absent) /\ (start # Absent => start < end)
\* Mutant: a text may have a region.
ValidLocatorAnywhere(l) ==
    /\ PairedSpan(l.start, l.end) /\ (l.bbox = "absent" <=> ~l.space)
    /\ l.bbox # "absent" => l.page # Absent /\ l.bbox = "area"
    /\ IF l.modality = "text" THEN l.passage ELSE l.bbox # "absent" /\ l.page # Absent /\ l.start = Absent
ValidLocator(l) ==
    /\ PairedSpan(l.start, l.end) /\ (l.bbox = "absent" <=> ~l.space)
    /\ l.bbox # "absent" => l.page # Absent /\ l.bbox = "area"
    /\ IF l.modality = "text" THEN l.passage /\ l.bbox = "absent" /\ ~l.space
       ELSE l.bbox # "absent" /\ l.space /\ l.page # Absent /\ l.start = Absent
ValidCitation(c) == PairedSpan(c.start, c.end) /\ (c.quote <=> c.start # Absent)

\* Approvals, evidence, claims and citations of one task and brief; a quote is what the
\* evidence has between its ends.
Unique(items) == Cardinality({items[i].id : i \in DOMAIN items}) = Len(items)
ApprovalsFit(b) ==
    /\ b.status # "draft" => \E a \in b.approvals : a.mine /\ a.status = b.status
    /\ \A a \in b.approvals : a.mine
ValidBundle(b) ==
    LET claims == {b.claims[i].id : i \in DOMAIN b.claims}
        evidence == {b.evidence[i].id : i \in DOMAIN b.evidence}
    IN  /\ b.briefTask = b.task
        /\ Unique(b.evidence) /\ Unique(b.claims) /\ Unique(b.citations)
        /\ ApprovalsFit(b)
        /\ \A i \in DOMAIN b.citations : LET c == b.citations[i]
                                         IN  c.claim \in claims /\ c.evidence \in evidence /\ c.verbatim
        /\ \A i \in DOMAIN b.evidence : b.evidence[i].source \in b.sources
        /\ \A i \in DOMAIN b.claims : b.claims[i].task = b.task

---------------------------------------------------------------------------
PlanInit == planCase = <<>> /\ plan = NoPlan /\ assessed = NoAssessment /\ shape = NoShape

\* plan_approved_brief: the decision is looked at before the planner is called.
PlanApprovedBrief ==
    /\ plan = NoPlan /\ shape = NoShape
    /\ \E decision \in Decisions, draft \in Drafts :
        LET code == PlanCode(decision, draft)
        IN  /\ planCase' = <<decision, draft>>
            /\ plan' = [verdict |-> code, subtasks |-> IF code = "accepted" THEN Formal(draft) ELSE <<>>]
    /\ UNCHANGED <<assessed, shape>>

\* The requirement is that of every subtask; one of them has less evidence than the others.
AssessEvidenceGraph ==
    /\ plan.subtasks # <<>> /\ ~assessed.made
    /\ LET subtasks == IdsOf(plan.subtasks)
       IN  \E poor \in subtasks, found \in SUBSET DOMAIN Findings, done \in BOOLEAN,
              covered \in SUBSET Scopes, need \in Requirements :
            LET support == [s \in subtasks |-> IF s = poor THEN found ELSE DOMAIN Findings]
                completed == IF done THEN subtasks ELSE subtasks \ {poor}
            IN  assessed' = [made |-> TRUE, gaps |-> Assess(plan.subtasks, support, need, completed, covered),
                             support |-> support, completed |-> completed, covered |-> covered, need |-> need]
    /\ UNCHANGED <<planCase, plan, shape>>

\* apply_bounded_replan, without its event: the subtasks are put in the order of the bundle.
ApplyReplan ==
    /\ plan.verdict = "accepted" /\ ~assessed.made /\ Len(planCase) = 2
    /\ \E proposal \in Proposals :
        /\ planCase' = Append(planCase, proposal)
        /\ IF ReplanCode(plan.subtasks, proposal) = "accepted"
           THEN \E order \in ByRounds([s \in IdsOf(Added(plan.subtasks, proposal)) |-> s.after]) :
                    plan' = [verdict |-> "accepted", subtasks |-> order]
           ELSE plan' = [verdict |-> ReplanCode(plan.subtasks, proposal), subtasks |-> <<>>]
    /\ UNCHANGED <<assessed, shape>>

CheckShape ==
    /\ plan = NoPlan /\ shape = NoShape
    /\ \/ \E l \in Locators : shape' = [kind |-> "locator", of |-> l, verdict |-> ValidLocator(l)]
       \/ \E c \in CitationShapes : shape' = [kind |-> "citation", of |-> c, verdict |-> ValidCitation(c)]
       \/ \E b \in Bundles : shape' = [kind |-> "bundle", of |-> b, verdict |-> ValidBundle(b)]
    /\ UNCHANGED <<planCase, plan, assessed>>

PlanNext == PlanApprovedBrief \/ AssessEvidenceGraph \/ ApplyReplan \/ CheckShape

---------------------------------------------------------------------------
(* Properties. *)

\* Subtasks come after everything they depend on, and a draft is refused for a cycle exactly
\* if some of its keys wait for each other.
WaitForEachOther(after) ==
    \E keys \in (SUBSET DOMAIN after) \ {{}} : \A k \in keys : after[k] \cap keys # {}
PlanIsOrdered ==
    /\ \A i \in DOMAIN plan.subtasks : plan.subtasks[i].after \subseteq {plan.subtasks[j] : j \in 1..(i - 1)}
    /\ plan.verdict = "planner_cycle_detected" => WaitForEachOther(AfterKeys(planCase[2]))
    /\ plan.verdict = "accepted" => /\ ~WaitForEachOther(AfterKeys(planCase[2]))
                                   /\ Len(plan.subtasks) = Len(planCase[2].subtasks) + (Len(planCase) - 2)

\* Another finding for every subtask, with all done and covered, leaves no gap where there was none.
MoreEvidenceClosesGaps ==
    assessed.made =>
        \A e \in DOMAIN Findings :
            LET later == Assess(plan.subtasks, [s \in DOMAIN assessed.support |-> assessed.support[s] \cup {e}], assessed.need,
                                DOMAIN assessed.support, Scopes)
            IN  {gap[1] : gap \in later} \subseteq {gap[1] : gap \in assessed.gaps}

\* A locator of a text is of no region and one of a region of no text, whichever kind of region
\* it is, a quote has a letter, and a citation of a bundle leads from a claim of the task to a
\* source.
ShapesAreUnambiguous ==
    /\ shape.kind = "locator" /\ shape.verdict =>
        \A other \in Modalities :
            ValidLocator([shape.of EXCEPT !.modality = other]) <=> (other = "text" <=> shape.of.modality = "text")
    /\ shape.kind = "citation" /\ shape.verdict => (shape.of.quote <=> shape.of.end > shape.of.start)
    /\ shape.kind = "bundle" /\ shape.verdict =>
        LET b == shape.of
        IN  \A i \in DOMAIN b.citations :
                /\ \E c \in DOMAIN b.claims : b.claims[c].id = b.citations[i].claim /\ b.claims[c].task = b.briefTask
                /\ \E e \in DOMAIN b.evidence : b.evidence[e].id = b.citations[i].evidence /\ b.evidence[e].source \in b.sources

\* What the planner's own checks let through, the bundle never refuses, and of what those of the
\* replan let through only a proposal that names one dependency twice is refused after them:
\* a proposal of subtasks there are, in scope and with a question of its own, closes no cycle.
RaisedOnlyForRepeats == plan.verdict = "raised" => Len(planCase) = 3 /\ NamesOneTwice(planCase[3])

PlansAreSound == RaisedOnlyForRepeats /\ PlanIsOrdered /\ MoreEvidenceClosesGaps /\ ShapesAreUnambiguous
=============================================================================
