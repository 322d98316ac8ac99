-------------------------- MODULE EvaluationAggregate --------------------------
(***************************************************************************)
(* The aggregation of evaluation runs (evaluation_aggregate.py): it reads  *)
(* the directories of runs, one paper each, refuses what does not belong   *)
(* together, adds the runs up, writes six files into a directory of its    *)
(* own and puts that in the place of the output directory.                 *)
(*                                                                         *)
(* Several aggregations may be given the same output directory; any may    *)
(* die, or fail to write, at every step.                                   *)
(***************************************************************************)
EXTENDS Integers, Sequences, FiniteSets
LOCAL INSTANCE TLC
LOCAL INSTANCE FiniteSetsExt
Seqs == INSTANCE SequencesExt

CONSTANTS
    Aggregators,    \* the processes
    AggRequests     \* what they are asked for: [runs, expected]
\* A run directory says which paper was selected, planned, in the plan and in the frozen
\* manifest; which of its inputs changed since; which artifacts it has; the hash of its
\* reviewed table and whether every row was reviewed; its configuration; what was verified;
\* its calls, [stage, attempt, tokens, latency]. expected: paper |-> hash of the reviewed table.

VARIABLES
    aggOut,         \* what stands at out_dir, [kind]: "absent", "empty", "file", "foreign", or a "summary"
    aggAt,          \* process |-> "idle", "write", "clear", "publish" or how it ended
    aggRequest,     \* process |-> what it is asked for
    aggTemp         \* process |-> number of files in its temporary directory, -1 if there is none
aggVars == <<aggOut, aggAt, aggRequest, aggTemp>>

Outputs == <<"aggregate_summary.json", "aggregate_summary.md", "per_paper_metrics.csv",
             "human_review_aggregate.csv", "anchoring_failure_inventory.csv", "reproduction_manifest.json">>
AggArtifacts == {"baseline_metrics", "proposed_metrics", "candidate_bank", "candidate_report", "final_note",
                 "call_metrics", "reviewed_csv", "errors", "input_verification"}
AggNoRequest == [runs |-> <<>>, expected |-> <<>>]
AggStages == {"baseline_raw", "proposed_candidate_chunk", "proposed_final_note"}

---------------------------------------------------------------------------
(* Which runs belong together *)

Reviewed(run) == run.rows # <<>> /\ \A i \in DOMAIN run.rows : run.rows[i] = "complete"

PaperOf(run) == run.selected[1]
RunAccepted(run, expected) ==
    /\ Len(run.selected) = 1 /\ run.planned = run.selected /\ run.papers = run.selected
    /\ PaperOf(run) \in run.frozen
    /\ run.changed = {} /\ AggArtifacts \subseteq run.artifacts
    /\ PaperOf(run) \in DOMAIN expected /\ expected[PaperOf(run)] = run.reviewed
    /\ run.config.commit # "none" /\ run.config.model # "none"
    /\ run.verified = run.selected
    /\ Reviewed(run)

\* Mutant: a paper may come twice.
RunsBelongTogetherTwice(request) ==
    /\ request.runs # <<>>
    /\ \A i \in DOMAIN request.runs : /\ RunAccepted(request.runs[i], request.expected)
                                      /\ request.runs[i].config = request.runs[1].config
    /\ DOMAIN request.expected = {PaperOf(request.runs[i]) : i \in DOMAIN request.runs}
RunsBelongTogether(request) ==
    LET runs == request.runs IN
    /\ runs # <<>>
    /\ \A i \in DOMAIN runs : RunAccepted(runs[i], request.expected) /\ runs[i].config = runs[1].config
    /\ \A i, j \in DOMAIN runs : PaperOf(runs[i]) = PaperOf(runs[j]) => i = j
    /\ DOMAIN request.expected = {PaperOf(runs[i]) : i \in DOMAIN runs}

---------------------------------------------------------------------------
(* What they add up to *)

SumOf(values) == Seqs!FoldSeq(LAMBDA v, sum : v + sum, 0, values)
Ascending(values) == SortSeq(values, LAMBDA a, b : a < b)
\* sorted(values)[ceil(p * n) - 1], p in hundredths; None, here -1, of no values.
NearestRank(values, percent) ==
    IF values = <<>> THEN -1 ELSE Ascending(values)[(percent * Len(values) + 99) \div 100]

\* A latency that was not recorded is -1. Mutant: it counts as 0.
LatencyOfAll(calls) ==
    LET values == [i \in DOMAIN calls |-> IF calls[i].latency >= 0 THEN calls[i].latency ELSE 0]
    IN  [count |-> Len(values), total |-> SumOf(values), p50 |-> NearestRank(values, 50), p95 |-> NearestRank(values, 95)]
Latency(calls) ==
    LET values == SelectSeq([i \in DOMAIN calls |-> calls[i].latency], LAMBDA v : v >= 0)
    IN  [count |-> Len(values), total |-> SumOf(values), p50 |-> NearestRank(values, 50), p95 |-> NearestRank(values, 95)]
OfStage(calls, stage) == SelectSeq(calls, LAMBDA c : stage \in {c.stage, "overall"})
Counts(calls) ==
    [calls |-> [stage \in AggStages |-> Len(OfStage(calls, stage))],
     total |-> Len(calls), retries |-> Len(SelectSeq(calls, LAMBDA c : c.attempt > 1)),
     tokens |-> SumOf([i \in DOMAIN calls |-> calls[i].tokens])]
Summary(runs) ==
    LET all == Seqs!FlattenSeq([i \in DOMAIN runs |-> runs[i].calls])
    IN  [papers |-> [i \in DOMAIN runs |-> [paper |-> PaperOf(runs[i]), counts |-> Counts(runs[i].calls)]],
         micro |-> Counts(all), config |-> runs[1].config,
         latency |-> [stage \in AggStages \cup {"overall"} |-> Latency(OfStage(all, stage))]]

---------------------------------------------------------------------------
(* One aggregation *)

Published == aggOut.kind = "summary"
Vacant == aggOut.kind \in {"absent", "empty"}
AggInit ==
    /\ aggOut \in [kind : {"absent", "empty", "file", "foreign"}]
    /\ aggAt = [p \in Aggregators |-> "idle"] /\ aggTemp = [p \in Aggregators |-> -1]
    /\ aggRequest = [p \in Aggregators |-> AggNoRequest]

\* A path that is a file is refused by iterdir(), before the check that names it is reached.
AggChecks(p) ==
    /\ aggAt[p] = "idle"
    /\ \E request \in AggRequests :
        IF Vacant /\ RunsBelongTogether(request)
        THEN /\ aggRequest' = [aggRequest EXCEPT ![p] = request]
             /\ aggAt' = [aggAt EXCEPT ![p] = "write"] /\ aggTemp' = [aggTemp EXCEPT ![p] = 0]
        ELSE aggAt' = [aggAt EXCEPT ![p] = "refused"] /\ UNCHANGED <<aggRequest, aggTemp>>
    /\ UNCHANGED aggOut

\* Files are replaced atomically, one after the other; the manifest hashes the others and is last.
AggWrites(p) ==
    /\ aggAt[p] = "write"
    /\ aggTemp' = [aggTemp EXCEPT ![p] = @ + 1]
    /\ aggAt' = [aggAt EXCEPT ![p] = IF aggTemp'[p] = Len(Outputs) THEN "clear" ELSE "write"]
    /\ UNCHANGED <<aggOut, aggRequest>>

AggFails(p) ==
    /\ aggAt' = [aggAt EXCEPT ![p] = "failed"] /\ aggTemp' = [aggTemp EXCEPT ![p] = -1]
    /\ UNCHANGED <<aggOut, aggRequest>>
AggWriteFails(p) == aggAt[p] = "write" /\ AggFails(p)

\* rmdir() takes an empty directory only.
AggClears(p) ==
    /\ aggAt[p] = "clear"
    /\ IF Vacant
       THEN /\ aggOut' = [kind |-> "absent"] /\ aggAt' = [aggAt EXCEPT ![p] = "publish"]
            /\ UNCHANGED <<aggRequest, aggTemp>>
       ELSE AggFails(p)

\* A directory replaces nothing, or an empty directory.
AggPublishes(p) ==
    /\ aggAt[p] = "publish"
    /\ IF Vacant
       THEN /\ aggOut' = [kind |-> "summary", by |-> p, files |-> aggTemp[p], summary |-> Summary(aggRequest[p].runs)]
            /\ aggAt' = [aggAt EXCEPT ![p] = "published"] /\ aggTemp' = [aggTemp EXCEPT ![p] = -1]
            /\ UNCHANGED aggRequest
       ELSE AggFails(p)

\* The temporary directory stays behind.
AggDies(p) ==
    /\ aggAt[p] \in {"write", "clear", "publish"}
    /\ aggAt' = [aggAt EXCEPT ![p] = "died"]
    /\ UNCHANGED <<aggOut, aggRequest, aggTemp>>

AggNext ==
    \E p \in Aggregators :
        \/ AggChecks(p)
        \/ AggWrites(p)
        \/ AggWriteFails(p)
        \/ AggClears(p)
        \/ AggPublishes(p)
        \/ AggDies(p)

---------------------------------------------------------------------------
(* Properties *)

\* Smallest value that at least percent of the values do not exceed.
LeastCovering(values, percent) ==
    LET Covers(v) == 100 * Cardinality({i \in DOMAIN values : values[i] <= v}) >= percent * Len(values)
    IN  Min({v \in {values[i] : i \in DOMAIN values} : Covers(v)})

\* Whatever aggregations run into each other, die or fail, the output directory is never half
\* written, and what one of them has published stays. It is told by one process, of runs of
\* one configuration that were reviewed as expected, with every expected paper once and no other.
AggregatesAreWhole ==
    /\ \A p \in Aggregators : aggAt[p] = "published" =>
        /\ Published /\ aggOut.by = p /\ aggOut.files = Len(Outputs)
        /\ LET runs == aggRequest[p].runs  rows == aggOut.summary.papers  expected == aggRequest[p].expected
           IN  /\ DOMAIN rows = DOMAIN runs
               /\ \A i \in DOMAIN rows : /\ rows[i].paper \in DOMAIN expected
                                         /\ runs[i].reviewed = expected[rows[i].paper]
                                         /\ runs[i].config = aggOut.summary.config
               /\ \A paper \in DOMAIN expected :
                    \E i \in DOMAIN rows : \A j \in DOMAIN rows : rows[j].paper = paper <=> j = i
    /\ Published => aggOut.files = Len(Outputs) /\ aggAt[aggOut.by] = "published"

\* The rows of a published summary add up to its totals, the stages too but for calls of no
\* known stage, and its percentiles are the least values that so many of the calls whose
\* latency is known do not exceed.
AggregatesAddUp ==
    \A p \in Aggregators : aggAt[p] = "published" =>
        LET runs == aggRequest[p].runs  summary == aggOut.summary  rows == summary.papers
            all == UNION {{<<i, j>> : j \in DOMAIN runs[i].calls} : i \in DOMAIN runs}
            Over(Field(_)) == SumOf([i \in DOMAIN rows |-> Field(rows[i].counts)])
            known == {ij \in all : runs[ij[1]].calls[ij[2]].latency >= 0}
            values == [k \in DOMAIN Seqs!SetToSeq(known) |->
                          LET ij == Seqs!SetToSeq(known)[k] IN runs[ij[1]].calls[ij[2]].latency]
        IN  /\ summary.micro.tokens = Over(LAMBDA c : c.tokens) /\ summary.micro.total = Cardinality(all)
            /\ summary.micro.retries = Over(LAMBDA c : c.retries)
            /\ \A stage \in AggStages : summary.micro.calls[stage] = Over(LAMBDA c : c.calls[stage])
            /\ known # {} => /\ summary.latency["overall"].p50 = LeastCovering(values, 50)
                             /\ summary.latency["overall"].p95 = LeastCovering(values, 95)
=============================================================================
