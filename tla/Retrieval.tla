------------------------------ MODULE Retrieval ------------------------------
(***************************************************************************)
(* The retrieval of passages (rag/bm25.py, dense.py, windowed.py) and the  *)
(* calibration of its gate (retrieval_quality_r1.py). A corpus is built    *)
(* once; two caches of embeddings are built from it file by file, so a     *)
(* process may die in between; an index is opened over the corpus and the  *)
(* cache there are, and ranks. The operator may remove a corpus or a cache,*)
(* one thing at a time.                                                    *)
(***************************************************************************)
EXTENDS PassageWindows, FiniteSets
LOCAL INSTANCE SequencesExt
LOCAL INSTANCE FiniteSetsExt

CONSTANTS
    Corpora,        \* the corpora that may be built: sequences of [id, tokens]
    WideTokens,     \* tokens that are two when the text they were decoded to is encoded again
    AskedTokens,    \* what is searched for; "" has no token
    TopK,           \* top_k
    MaxRetrievals,  \* bound on the operations
    Calibrations    \* [records, rankings, minimum]: see below

CacheKinds == {"dense", "windowed"}
\* The writes of a cache: its directory, the embeddings, the identifiers or windows, the manifest.
WholeCache == 4

VARIABLES
    corpus,         \* the corpus file, <<>> if there is none
    caches,         \* kind |-> [written, of]: how much of it there is, and the corpus it was made of
    caching,        \* the cache being built, "none"
    retrievals,     \* how many operations were begun
    searched        \* the last search, or how a calibration ended
retrVars == <<corpus, caches, caching, retrievals, searched>>

NoCache == [written |-> 0, of |-> <<>>]
NothingSearched == [mode |-> "none"]

---------------------------------------------------------------------------
(* Windows *)

Sliced(tokens, start, end) == SubSeq(tokens, start + 1, Min({end, Len(tokens)}))
Encoded(tokens) == Len(tokens) + Len(SelectSeq(tokens, LAMBDA token : token \in WideTokens))

\* A window that is too long when it is encoded again loses its last token, until it fits. What is
\* sliced to that end are the tokens of the passage, which stay so for the windows after it.
RECURSIVE CutToFit(_)
CutToFit(cut) ==
    IF Encoded(cut.text) <= WindowBudget THEN cut
    ELSE LET rest == Sliced(cut.ids, cut.range[1], cut.range[2] - 1)
         IN  CutToFit([ids |-> rest, text |-> rest, range |-> <<cut.range[1], cut.range[2] - 1>>])
Windows(passage) ==
    LET Add(acc, range) ==
            LET cut == CutToFit([ids |-> acc.ids, text |-> Sliced(acc.ids, range[1], range[2]), range |-> range])
            IN  [ids |-> cut.ids, rows |-> Append(acc.rows, [text |-> cut.text, range |-> cut.range])]
    IN  FoldLeft(Add, [ids |-> passage.tokens, rows |-> <<>>], WindowRanges(Len(passage.tokens))).rows

---------------------------------------------------------------------------
(* Rankings *)

\* A score is a fraction [num, den]. By score, then by identifier, the first TopK of them.
Ranked(scores) ==
    LET Before(p, q) == \/ scores[p].num * scores[q].den > scores[q].num * scores[p].den
                        \/ scores[p].num * scores[q].den = scores[q].num * scores[p].den /\ p < q
        order == SetToSortSeq(DOMAIN scores, Before)
    IN  SubSeq(order, 1, Min({TopK, Len(order)}))
Occurrences(token, text) == Len(SelectSeq(text, LAMBDA t : t = token))
\* The encoder is external: a text is the nearer to a token the more of it it has.
Nearness(token, text) == [num |-> Occurrences(token, text), den |-> 1]
Passage(rows, id) == CHOOSE passage \in Range(rows) : passage.id = id
Ids(rows) == {passage.id : passage \in Range(rows)}

\* BM25 of one token, but for the factors all passages have: tf / (tf + k1 (1 - b + b length / avgdl)),
\* which orders as tf / (1 - b + b length / avgdl), with b = 3/4.
BM25Search(rows, token) ==
    LET total == FoldLeft(LAMBDA sum, passage : sum + Len(passage.tokens), 0, rows)
        Score(id) == [num |-> Occurrences(token, Passage(rows, id).tokens),
                      den |-> total + 3 * Len(rows) * Len(Passage(rows, id).tokens)]
    IN  IF token = "" THEN <<>> ELSE Ranked([id \in {id \in Ids(rows) : Score(id).num > 0} |-> Score(id)])
\* An encoder reads no more than the budget of a text.
DenseSearch(rows, token) ==
    IF token = "" THEN <<>>
    ELSE Ranked([id \in Ids(rows) |-> Nearness(token, Sliced(Passage(rows, id).tokens, 0, WindowBudget))])
\* A passage is as near as its nearest window.
WindowedSearch(rows, token) ==
    LET Best(windows) == CHOOSE row \in Range(windows) :
                            \A other \in Range(windows) : Occurrences(token, row.text) >= Occurrences(token, other.text)
    IN  IF token = "" THEN <<>> ELSE Ranked([id \in Ids(rows) |-> Nearness(token, Best(Windows(Passage(rows, id))).text)])

\* The reciprocal of 60 and the rank in each ranking, over the common denominator of all ranks.
Fuse(rankings) ==
    LET whole[k \in 0..TopK] == IF k = 0 THEN 1 ELSE (60 + k) * whole[k - 1]
        Ranks(ranking, id) == {rank \in DOMAIN ranking : ranking[rank] = id}
        Of(ranking, id) == IF Ranks(ranking, id) = {} THEN 0 ELSE whole[TopK] \div (60 + Min(Ranks(ranking, id)))
        ids == UNION {Range(ranking) : ranking \in Range(rankings)}
    IN  Ranked([id \in ids |-> [num |-> FoldLeft(LAMBDA sum, ranking : sum + Of(ranking, id), 0, rankings), den |-> 1]])

---------------------------------------------------------------------------
(* The gate *)
\* records: query |-> [split, reviewed, grades], grades: relevant passage |-> grade, <<>> if it has
\* no answer; rankings: query |-> [score, results], the score of the first result.

Rounded(part, whole) == (part * 1000) \div whole
\* 1 / log2(rank + 1), in thousandths.
Discount == <<1000, 631, 500, 431>>
\* Each passage once, at its first place.
Distinct(results) ==
    LET firsts == SelectSeq([n \in DOMAIN results |-> n], LAMBDA n : \A k \in 1..n - 1 : results[k] # results[n])
    IN  [n \in DOMAIN firsts |-> results[firsts[n]]]
Gated(ranking, threshold) == IF ranking.results # <<>> /\ ranking.score >= threshold THEN ranking.results ELSE <<>>

\* evaluate_rankings: what the selection of a threshold looks at, best first.
Recall(grades, ranked) == Rounded(Cardinality(Range(ranked) \cap DOMAIN grades), Cardinality(DOMAIN grades))
NDCG(grades, ranked) ==
    LET best == SetToSortSeq(DOMAIN grades, LAMBDA p, q : grades[p] > grades[q] \/ (grades[p] = grades[q] /\ p < q))
        Gain(seq, n) == IF seq[n] \in DOMAIN grades THEN (2 ^ grades[seq[n]] - 1) * Discount[n] ELSE 0
        Sum(seq) == MapThenSumSet(LAMBDA n : Gain(seq, n), 1..Min({TopK, Len(seq)}))
    IN  Rounded(Sum(ranked), Sum(best))
Report(records, rankings, threshold) ==
    LET Top(q) == LET ranked == Distinct(Gated(rankings[q], threshold)) IN SubSeq(ranked, 1, Min({TopK, Len(ranked)}))
        answerable == {q \in DOMAIN records : records[q].grades # <<>>}
        others == DOMAIN records \ answerable
        Mean(Of(_)) == IF answerable = {} THEN 0 ELSE MapThenSumSet(Of, answerable) \div Cardinality(answerable)
    IN  [falsePositives |-> IF others = {} THEN 1000 ELSE Rounded(Cardinality({q \in others : Top(q) # <<>>}), Cardinality(others)),
         success |-> Mean(LAMBDA q : IF Range(Top(q)) \cap DOMAIN records[q].grades # {} THEN 1000 ELSE 0),
         recall |-> Mean(LAMBDA q : Recall(records[q].grades, Top(q))),
         ndcg |-> Mean(LAMBDA q : NDCG(records[q].grades, Top(q)))]
Better(report, other) ==
    LET Key(r) == <<r.falsePositives, -r.success, -r.recall, -r.ndcg>>
    IN  \E n \in 1..4 : Key(report)[n] < Key(other)[n] /\ \A k \in 1..n - 1 : Key(report)[k] = Key(other)[k]

\* calibrate_top_score_gate: one of the scores there are, or 0.
Thresholds(rankings) == {0} \cup {rankings[q].score : q \in {q \in DOMAIN rankings : rankings[q].results # <<>>}}
CalibrationCode(asked) ==
    IF \E q \in DOMAIN asked.records : asked.records[q].split = "held_out" THEN "held_out"
    ELSE IF Min(Thresholds(asked.rankings)) < 0 THEN "negative_threshold"
    ELSE IF \E q \in DOMAIN asked.records : ~asked.records[q].reviewed THEN "not_reviewed"
    ELSE IF DOMAIN asked.records # DOMAIN asked.rankings THEN "queries_differ"
    ELSE IF \A t \in Thresholds(asked.rankings) : Report(asked.records, asked.rankings, t).success < asked.minimum THEN "none_eligible"
    ELSE "calibrated"
ChosenThreshold(asked) ==
    LET eligible == {t \in Thresholds(asked.rankings) : Report(asked.records, asked.rankings, t).success >= asked.minimum}
        Of(t) == Report(asked.records, asked.rankings, t)
    IN  CHOOSE t \in eligible : \A u \in eligible : Better(Of(t), Of(u)) \/ (~Better(Of(u), Of(t)) /\ t <= u)

---------------------------------------------------------------------------
(* Operations *)

RetrInit ==
    /\ corpus = <<>> /\ caches = [kind \in CacheKinds |-> NoCache] /\ caching = "none"
    /\ retrievals = 0 /\ searched = NothingSearched

RetrBegins == caching = "none" /\ retrievals < MaxRetrievals /\ retrievals' = retrievals + 1

BuildCorpus ==
    /\ RetrBegins /\ corpus = <<>>
    /\ \E rows \in Corpora : /\ \A i, j \in DOMAIN rows : rows[i].id = rows[j].id => i = j
                             /\ corpus' = rows
    /\ searched' = NothingSearched /\ UNCHANGED <<caches, caching>>
BuildCache(kind) ==
    /\ RetrBegins /\ corpus # <<>> /\ caches[kind].written = 0
    /\ caches' = [caches EXCEPT ![kind] = [written |-> 1, of |-> corpus]] /\ caching' = kind
    /\ searched' = NothingSearched /\ UNCHANGED corpus
WriteCache ==
    /\ caching # "none"
    /\ caches' = [caches EXCEPT ![caching].written = @ + 1]
    /\ caching' = IF caches[caching].written + 1 = WholeCache THEN "none" ELSE caching
    /\ UNCHANGED <<corpus, retrievals, searched>>
CachingDies == caching # "none" /\ caching' = "none" /\ UNCHANGED <<corpus, caches, retrievals, searched>>
\* What the operator removes.
RemoveCorpus == RetrBegins /\ corpus # <<>> /\ corpus' = <<>> /\ searched' = NothingSearched /\ UNCHANGED <<caches, caching>>
RemoveCache ==
    /\ RetrBegins
    /\ \E kind \in CacheKinds : caches[kind].written > 0 /\ caches' = [caches EXCEPT ![kind] = NoCache]
    /\ searched' = NothingSearched /\ UNCHANGED <<corpus, caching>>

\* Mutant: an index opens whatever cache there is.
OpensWhatIsThere(kind) == corpus # <<>> /\ caches[kind].written = WholeCache

\* An index opens over a whole cache of the corpus there is.
Opens(kind) == corpus # <<>> /\ caches[kind].written = WholeCache /\ caches[kind].of = corpus

Search ==
    /\ RetrBegins
    /\ \E token \in AskedTokens :
        LET Answer(mode, fused, ids) == [mode |-> mode, fused |-> fused, token |-> token, ids |-> ids]
            Dense(kind) == IF kind = "dense" THEN DenseSearch(caches[kind].of, token) ELSE WindowedSearch(caches[kind].of, token)
        IN  \/ corpus # <<>> /\ searched' = Answer("bm25", FALSE, BM25Search(corpus, token))
            \/ \E kind \in CacheKinds :
                Opens(kind) /\ searched' \in {Answer(kind, FALSE, Dense(kind)),
                                             Answer(kind, TRUE, Fuse(<<BM25Search(corpus, token), Dense(kind)>>))}
    /\ UNCHANGED <<corpus, caches, caching>>
\* It looks at nothing else here: once, at the start, is enough.
Calibrate ==
    /\ RetrBegins /\ retrievals = 0
    /\ \E asked \in Calibrations :
        LET code == CalibrationCode(asked)
        IN  searched' = [mode |-> "gate", asked |-> asked, code |-> code, threshold |-> IF code = "calibrated" THEN ChosenThreshold(asked) ELSE 0]
    /\ UNCHANGED <<corpus, caches, caching>>

RetrNext ==
    \/ BuildCorpus \/ (\E kind \in CacheKinds : BuildCache(kind)) \/ WriteCache \/ CachingDies
    \/ RemoveCorpus \/ RemoveCache \/ Search \/ Calibrate

---------------------------------------------------------------------------
(* Properties. *)

\* Until the first window that does not fit when it is encoded again, the windows of a passage
\* are what they say, each within the budget and overlapping the one before; if there is none,
\* they hold the whole passage.
FitsAsEncoded(passage) == \A range \in Range(WindowRanges(Len(passage.tokens))) :
                    Encoded(Sliced(passage.tokens, range[1], range[2])) <= WindowBudget
WindowsHold(passage) ==
    LET rows == Windows(passage)  ranges == WindowRanges(Len(passage.tokens))
        Whole(n) == Encoded(Sliced(passage.tokens, ranges[n][1], ranges[n][2])) <= WindowBudget
    IN  /\ \A n \in DOMAIN rows : Encoded(rows[n].text) <= WindowBudget
        /\ \A n \in DOMAIN rows : (\A k \in 1..n : Whole(k)) =>
              /\ rows[n].text = Sliced(passage.tokens, rows[n].range[1], rows[n].range[2])
              /\ n > 1 => rows[n].range[1] = rows[n - 1].range[2] - WindowOverlap
        /\ FitsAsEncoded(passage) => rows[1].range[1] = 0 /\ rows[Len(rows)].range[2] = Len(passage.tokens)

\* What a search returns is of the corpus there is, each passage once. Whatever mode it was,
\* what it finds for a token goes before what has none of it: word by word in BM25, within the
\* budget in the dense index, anywhere in the windowed one, unless a window was cut; and
\* where both rankings of a hybrid agree, so does what is fused.
SearchIsSound ==
    LET ids == searched.ids
        Above(seq, p, q) == \E n \in DOMAIN seq : seq[n] = p /\ \A k \in 1..n : seq[k] # q
        Has(p) == searched.token \in Range(Passage(corpus, p).tokens)
        Reads(p) == IF searched.mode = "dense" THEN searched.token \in Range(Sliced(Passage(corpus, p).tokens, 0, WindowBudget))
                    ELSE Has(p) /\ (searched.mode = "windowed" => FitsAsEncoded(Passage(corpus, p)))
    IN  /\ Range(ids) \subseteq Ids(corpus) /\ Cardinality(Range(ids)) = Len(ids) /\ Len(ids) <= TopK
        /\ searched.token = "" => ids = <<>>
        /\ \A p, q \in Ids(corpus) : Reads(p) /\ ~Has(q) /\ q \in Range(ids) => Above(ids, p, q)
        /\ searched.mode = "bm25" => \A p \in Range(ids) : Has(p)
        /\ searched.fused =>
            LET lexical == BM25Search(corpus, searched.token)
                near == IF searched.mode = "dense" THEN DenseSearch(corpus, searched.token) ELSE WindowedSearch(corpus, searched.token)
            IN  \A p, q \in Ids(corpus) : Above(lexical, p, q) /\ Above(near, p, q) => ~Above(ids, q, p)

\* A gate is calibrated on reviewed queries that are not held out, and no threshold at all that
\* lets anything through and keeps the minimum is better; metrics are parts of a whole.
GateIsBest ==
    searched.code = "calibrated" =>
        LET asked == searched.asked
            Of(t) == Report(asked.records, asked.rankings, t)
            Passes(t) == \E q \in DOMAIN asked.rankings : Gated(asked.rankings[q], t) # <<>>
        IN  /\ \A q \in DOMAIN asked.records : asked.records[q].split # "held_out" /\ asked.records[q].reviewed
            /\ Of(searched.threshold).success >= asked.minimum
            /\ \A t \in 0..Max(Thresholds(asked.rankings)) :
                Passes(t) /\ Of(t).success >= asked.minimum => ~Better(Of(t), Of(searched.threshold))
            /\ \A part \in {"falsePositives", "success", "recall", "ndcg"} : Of(searched.threshold)[part] \in 0..1000

\* Retrieval gives what it says: see the three parts.
RetrievalIsSound ==
    /\ \A kind \in CacheKinds : caches[kind].written = 1 => \A passage \in Range(caches[kind].of) : WindowsHold(passage)
    /\ searched.mode \in {"bm25", "dense", "windowed"} => SearchIsSound
    /\ searched.mode = "gate" => GateIsBest
=============================================================================
