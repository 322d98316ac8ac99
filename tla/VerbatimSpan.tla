----------------------------- MODULE VerbatimSpan -----------------------------
(***************************************************************************)
(* map_verbatim_span and safe_normalize (llm/span_mapping.py) on texts:    *)
(* sequences of characters, each of which CharOf describes. A quote is     *)
(* looked for letter by letter, then word by word, then in the safe        *)
(* normalization, whose characters remember where in the text they stand.  *)
(***************************************************************************)
EXTENDS SpanMapping, Integers, Sequences, FiniteSets

CONSTANTS
    CharOf,         \* character |-> [kind, folded]: its kind and what casefold and NFKC make of it
    SpanTexts,      \* the texts of chunks
    SpanQuotes      \* the quotes of the model
\* kind: "letter"; "digit"; "space"; "newline", white space as well; "hyphen"; "dropped", a NUL,
\* soft hyphen or zero-width character. A ligature folds to two letters.

VARIABLE spanAsked  \* the quote and the text it is looked for in
spanVars == <<spanAsked>>

Kind(char) == CharOf[char].kind
White(char) == Kind(char) \in {"space", "newline"}
Stretch(text, first, last) == SubSeq(text, first, last)

---------------------------------------------------------------------------
(* Letter by letter *)

StandsAt(quote, text, i) == i + Len(quote) - 1 <= Len(text) /\ Stretch(text, i, i + Len(quote) - 1) = quote
\* str.count(): from the left, matches that do not overlap.
CountIn(quote, text) ==
    LET count[i \in 1..Len(text) + Len(quote)] ==
            IF i > Len(text) THEN 0
            ELSE IF StandsAt(quote, text, i) THEN 1 + count[i + Len(quote)] ELSE count[i + 1]
    IN  count[1]
ExactSpan(quote, text) ==
    LET first == CHOOSE i \in DOMAIN text : StandsAt(quote, text, i) /\ \A j \in 1..i - 1 : ~StandsAt(quote, text, j)
    IN  <<first, first + Len(quote) - 1>>

---------------------------------------------------------------------------
(* Word by word *)

Folded(word) ==
    LET fold[i \in 0..Len(word)] == IF i = 0 THEN <<>> ELSE fold[i - 1] \o CharOf[word[i]].folded
    IN  fold[Len(word)]
\* The first and last positions of the words, from the left.
WordStarts(text) == {i \in DOMAIN text : ~White(text[i]) /\ (i = 1 \/ White(text[i - 1]))}
WordEnd(text, i) == CHOOSE j \in i..Len(text) : /\ \A k \in i..j : ~White(text[k])
                                                /\ j = Len(text) \/ White(text[j + 1])
Words(text) ==
    LET starts == WordStarts(text)
        Nth(n) == CHOOSE i \in starts : Cardinality({j \in starts : j < i}) = n - 1
    IN  [n \in 1..Cardinality(starts) |-> <<Nth(n), WordEnd(text, Nth(n))>>]
FoldedWords(text) == [n \in DOMAIN Words(text) |-> Folded(Stretch(text, Words(text)[n][1], Words(text)[n][2]))]
WhitespaceMatches(quote, text) ==
    LET hint == FoldedWords(quote)  words == Words(text)  folded == FoldedWords(text)  width == Len(hint)
    IN  IF hint = <<>> THEN {}
        ELSE {<<words[n][1], words[n + width - 1][2]>> :
                n \in {n \in DOMAIN words : n + width - 1 <= Len(words) /\ SubSeq(folded, n, n + width - 1) = hint}}

---------------------------------------------------------------------------
(* The safe normalization *)

\* A hyphen between letters, at the end of a line: both and the line break are left out.
NextInk(text, i) == CHOOSE j \in i + 1..Len(text) + 1 : /\ \A k \in i + 1..j - 1 : White(text[k])
                                                        /\ j = Len(text) + 1 \/ ~White(text[j])
BreaksWord(text, i) ==
    /\ Kind(text[i]) = "hyphen" /\ i > 1 /\ Kind(text[i - 1]) = "letter"
    /\ LET j == NextInk(text, i)
       IN  /\ j <= Len(text) /\ Kind(text[j]) = "letter"
           /\ \E k \in i + 1..j - 1 : Kind(text[k]) = "newline"

\* What is read at and after each position: letters folded, everything else a separator.
ReadFrom(text) ==
    LET read[i \in 1..Len(text) + 1] ==
            IF i = Len(text) + 1 THEN <<>>
            ELSE IF Kind(text[i]) = "dropped" THEN read[i + 1]
            ELSE IF BreaksWord(text, i) THEN read[NextInk(text, i)]
            ELSE LET folded == CharOf[text[i]].folded
                     chars == IF Kind(text[i]) \in {"letter", "digit"} THEN folded ELSE <<" ">>
                 IN  [k \in DOMAIN chars |-> [char |-> chars[k], at |-> i]] \o read[i + 1]
    IN  read[1]
\* One separator between what is no separator, and none at the ends.
Collapsed(read) ==
    LET Ink(k) == read[k].char # " "
        kept == {k \in DOMAIN read : Ink(k) \/ (k > 1 /\ Ink(k - 1) /\ \E j \in k + 1..Len(read) : Ink(j))}
    IN  [n \in 1..Cardinality(kept) |-> read[CHOOSE k \in kept : Cardinality({j \in kept : j < k}) = n - 1]]
SafeNormalize(text) == Collapsed(ReadFrom(text))
CharsOf(normalized) == [n \in DOMAIN normalized |-> normalized[n].char]
Normal(text) == CharsOf(SafeNormalize(text))

\* Mutant: the stretch ends where the character after the match was read.
MatchesInToNext(hint, normalized) ==
    LET Ends(n) == n + Len(hint) - 1
        Starts(n) == /\ hint # <<>> /\ Ends(n) <= Len(normalized)
                     /\ \A k \in DOMAIN hint : normalized[n + k - 1].char = hint[k]
        After(n) == IF Ends(n) < Len(normalized) THEN Ends(n) + 1 ELSE Ends(n)
    IN  {[n |-> n, span |-> <<normalized[n].at, normalized[After(n)].at>>] : n \in {n \in DOMAIN normalized : Starts(n)}}
\* Where a normal quote starts in a normal text, and the stretch of the text that was read there.
MatchesIn(hint, normalized) ==
    LET Ends(n) == n + Len(hint) - 1
        Starts(n) == /\ hint # <<>> /\ Ends(n) <= Len(normalized)
                     /\ \A k \in DOMAIN hint : normalized[n + k - 1].char = hint[k]
    IN  {[n |-> n, span |-> <<normalized[n].at, normalized[Ends(n)].at>>] : n \in {n \in DOMAIN normalized : Starts(n)}}
SafeSpanMatches(quote, text) == MatchesIn(Normal(quote), SafeNormalize(text))

---------------------------------------------------------------------------
(* map_verbatim_span *)

NoSpan(status) == [status |-> status, method |-> "none", span |-> <<0, 0>>]
Found(method, span) == [status |-> "ok", method |-> method, span |-> span]
ReadsBack(hint, text, span) == Normal(Stretch(text, span[1], span[2])) = hint

\* A count of the quote, the matches word by word, and those of the normalization, of which one
\* alone must read back as the quote.
SpanDecision(quote, text, exact, words, safe) ==
    LET Only(spans) == {span \in spans : ReadsBack(Normal(quote), text, span)}
        theWords == IF Cardinality(words) = 1 THEN Only(words) ELSE {}
        theSafe == IF Cardinality(safe) = 1 THEN Only({match.span : match \in safe}) ELSE {}
    IN  CASE exact = 1 -> {Found("exact_match", ExactSpan(quote, text))}
          [] exact > 1 -> {NoSpan("ambiguous")}
          [] exact = 0 /\ theWords # {} -> {Found("normalized_whitespace_match", span) : span \in theWords}
          [] exact = 0 /\ theWords = {} /\ Cardinality(words) > 1 -> {NoSpan("ambiguous")}
          [] exact = 0 /\ theWords = {} /\ Cardinality(words) <= 1 ->
                IF theSafe # {} THEN {Found("safe_normalized_match", span) : span \in theSafe}
                ELSE {NoSpan(IF Cardinality(safe) > 1 THEN "ambiguous" ELSE "not_found")}
MapVerbatimSpan(quote, text) ==
    IF quote = <<>> THEN {NoSpan("not_found")}
    ELSE SpanDecision(quote, text, CountIn(quote, text), WhitespaceMatches(quote, text), SafeSpanMatches(quote, text))

SpanInit == spanAsked \in [quote : {<<>>}, text : SpanTexts, found : {NoSpan("not_found")}]
SpanNext ==
    /\ spanAsked.quote = <<>>
    /\ \E quote \in SpanQuotes : \E found \in MapVerbatimSpan(quote, spanAsked.text) :
            spanAsked' = [spanAsked EXCEPT !.quote = quote, !.found = found]

---------------------------------------------------------------------------
(* Properties. *)

\* A quote as the readings know it, from the matches there are.
QuoteOf(exact, words, safe, Reads(_)) ==
    [exact |-> exact, whitespace |-> Cardinality(words), safe |-> Cardinality(safe),
     roundTrips |-> (IF \E span \in words : Reads(span) THEN {"whitespace"} ELSE {})
                    \cup (IF \E match \in safe : Reads(match.span) THEN {"safe"} ELSE {})]

\* What is found is one stretch of the text that reads as the quote, and every other stretch
\* that is the quote letter by letter or, when none is, reads as it to the same method only
\* overlaps it; it would be found again, unless it was found word by word and is a part of
\* longer words; what is not found is nowhere; and the readings' view of quotes agrees.
QuotesReadBack ==
    LET quote == spanAsked.quote  text == spanAsked.text  found == spanAsked.found
        stretches == {span \in (DOMAIN text) \X (DOMAIN text) : span[1] <= span[2]}
        hint == Normal(quote)
        Reads(span) == ReadsBack(hint, text, span)
        Matches(span) == CASE found.method = "exact_match" -> Stretch(text, span[1], span[2]) = quote
                           [] found.method = "normalized_whitespace_match" -> span \in WhitespaceMatches(quote, text)
                           [] OTHER -> Reads(span)
    IN  IF quote = <<>> THEN found.status = "not_found" ELSE
        /\ found.status = "ok" =>
            /\ found.span \in stretches /\ Reads(found.span)
            /\ \A span \in stretches : Matches(span) => span[1] <= found.span[2] /\ found.span[1] <= span[2]
            /\ found.method # "normalized_whitespace_match" => CountIn(Stretch(text, found.span[1], found.span[2]), text) = 1
        /\ found.status = "not_found" /\ Normal(quote) # <<>> => \A span \in stretches : ~Reads(span)
        /\ found.status = MapSpan(QuoteOf(CountIn(quote, text), WhitespaceMatches(quote, text),
                                          SafeSpanMatches(quote, text), Reads))
=============================================================================
