---------------------------- MODULE RunLifecycle ----------------------------
(***************************************************************************)
(* The lifecycle of a research run: the statuses, the transitions the      *)
(* kernel accepts, and the statuses it never leaves (state.py).            *)
(***************************************************************************)

RunStatus == {"brief_pending", "brief_approved", "researching", "validating",
              "complete", "insufficient_evidence", "failed"}

TERMINAL == {"complete", "insufficient_evidence", "failed"}

\* Pairs <<from, to>> that next_state accepts.
ALLOWED ==
    {<<"brief_pending", "brief_approved">>}
        \cup ({"brief_approved"} \X {"researching", "failed"})
        \cup ({"researching"} \X {"validating", "insufficient_evidence", "failed"})
        \cup ({"validating"} \X TERMINAL)

\* next_state raises TransitionError unless this holds. The brief of the
\* modelled runs is always approved, so the approval guard is not repeated.
CanTransition(from, to) == <<from, to>> \in ALLOWED

=============================================================================
