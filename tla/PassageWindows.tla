--------------------------- MODULE PassageWindows ---------------------------
(***************************************************************************)
(* Which ranges of the tokens of a passage are encoded (_window_ranges of  *)
(* rag/windowed.py): windows of a budget, each a step on from the one      *)
(* before, up to the first that reaches the end.                           *)
(***************************************************************************)
EXTENDS Integers, Sequences

CONSTANTS
    WindowBudget,   \* MAX_LENGTH without prefix and special tokens
    WindowOverlap   \* WINDOW_OVERLAP_TOKENS

ASSUME WindowAssumption == WindowOverlap \in Nat /\ WindowBudget \in Nat /\ WindowOverlap < WindowBudget

\* The nth window, from n = 0: from its start (counted from 0) to its end, which is not in it.
WindowStart(n) == n * (WindowBudget - WindowOverlap)
WindowEnd(n, length) ==
    IF WindowStart(n) + WindowBudget < length THEN WindowStart(n) + WindowBudget ELSE length

\* The first window that reaches the end is the last.
WindowRanges(length) ==
    LET last == CHOOSE n \in 0..length : /\ WindowEnd(n, length) = length
                                         /\ \A k \in 0..length : WindowEnd(k, length) = length => n <= k
    IN  [n \in 1..last + 1 |-> <<WindowStart(n - 1), WindowEnd(n - 1, length)>>]
=============================================================================
