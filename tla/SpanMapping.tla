----------------------------- MODULE SpanMapping -----------------------------
(***************************************************************************)
(* Where a quote of the model is found in the text of a paper              *)
(* (llm/span_mapping.py). A quote is known by how often the text has it:   *)
(* letter by letter (exact), up to white space and up to the safe          *)
(* normalization, by which of its matches read back as the quote, and by   *)
(* how often the text it is found as stands there (copies).                *)
(***************************************************************************)
EXTENDS Naturals

MapSpan(quote) ==
    IF quote.exact > 0 THEN IF quote.exact = 1 THEN "ok" ELSE "ambiguous"
    ELSE IF quote.whitespace = 1 /\ "whitespace" \in quote.roundTrips THEN "ok"
    ELSE IF quote.whitespace > 1 THEN "ambiguous"
    ELSE IF quote.safe = 1 /\ "safe" \in quote.roundTrips THEN "ok"
    ELSE IF quote.safe > 1 THEN "ambiguous" ELSE "not_found"

\* What is kept of a quote that is found is the text it was found as, as it stands there.
SpanText(quote) == [quote EXCEPT !.exact = quote.copies]
=============================================================================
