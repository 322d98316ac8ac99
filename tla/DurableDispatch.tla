--------------------------- MODULE DurableDispatch ---------------------------
(***************************************************************************)
(* What the durable dispatch protocol of the runtime promises about the    *)
(* outside world, whatever crashes. The operations of a run are done in    *)
(* order; an attempt is authorised before it is called and called at most  *)
(* once; the next attempt is authorised only when the outcome of the       *)
(* previous one is known. An attempt that is authorised or called when its *)
(* outcome gets lost stays lost, and nothing is authorised after it.       *)
(***************************************************************************)
EXTENDS Naturals

CONSTANT MaxAttempts    \* attempts an operation may take

VARIABLES
    length,   \* operations of the run
    done,     \* operations that have succeeded: the first done ones
    tries,    \* attempts authorised for operation done + 1
    phase     \* of the last authorised attempt: "settled", "authorised", "called" or "lost"

vars == <<length, done, tries, phase>>

Init ==
    /\ length \in Nat
    /\ done = 0
    /\ tries = 0
    /\ phase = "settled"

Authorise ==
    /\ phase = "settled"
    /\ done < length
    /\ tries < MaxAttempts
    /\ phase' = "authorised"
    /\ tries' = tries + 1
    /\ UNCHANGED <<length, done>>

Call ==
    /\ phase = "authorised"
    /\ phase' = "called"
    /\ UNCHANGED <<length, done, tries>>

Succeed ==
    /\ phase = "called"
    /\ phase' = "settled"
    /\ done' = done + 1
    /\ tries' = 0
    /\ UNCHANGED length

Fail ==
    /\ phase = "called"
    /\ phase' = "settled"
    /\ UNCHANGED <<length, done, tries>>

Lose ==
    /\ phase \in {"authorised", "called"}
    /\ phase' = "lost"
    /\ UNCHANGED <<length, done, tries>>

Next == Authorise \/ Call \/ Succeed \/ Fail \/ Lose

Spec == Init /\ [][Next]_vars

=============================================================================
