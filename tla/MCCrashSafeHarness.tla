------------------------- MODULE MCCrashSafeHarness -------------------------
(***************************************************************************)
(* Instances of CrashSafeHarness for TLC: the nine scripted scenarios, the *)
(* budget specs and backoffs the tests use and tighter ones, and the       *)
(* control points at which a process may die.                              *)
(***************************************************************************)
EXTENDS CrashSafeHarness

CONSTANT None    \* the value of NoLimit

FS == INSTANCE FakeScenarios

MCScript == FS!scenario_operations
AllScenarios == DOMAIN MCScript
MCOps == 1..3
MCMaxAttempts == 2

Each(n) == [kind \in Kinds |-> n]

\* The default spec of CrashSafeFakeHarness.
DefaultSpec ==
    [maxAttempts |-> Each(4), maxCalls |-> Each(4), maxInput |-> None, maxOutput |-> None,
     maxTotal |-> 100, maxRetries |-> None, maxReplans |-> 1, runTimeout |-> 10,
     operationTimeout |-> 1]

\* BudgetSpec() with nothing set but the replans.
UnlimitedSpec ==
    [DefaultSpec EXCEPT !.maxAttempts = Each(None), !.maxCalls = Each(None),
                        !.maxTotal = None, !.runTimeout = None, !.operationTimeout = None]

OneCallSpec == [DefaultSpec EXCEPT !.maxCalls = Each(1), !.maxRetries = 1]
FourTokensSpec == [DefaultSpec EXCEPT !.maxTotal = 4, !.maxInput = 2]
NoReplanSpec == [DefaultSpec EXCEPT !.maxReplans = 0]
ShortRunSpec == [DefaultSpec EXCEPT !.runTimeout = 2]
ShortRetrySpec == [DefaultSpec EXCEPT !.runTimeout = 4]
NoRetrySpec == [DefaultSpec EXCEPT !.maxRetries = 0]

SafetySpecs == {DefaultSpec, UnlimitedSpec, OneCallSpec, FourTokensSpec, NoReplanSpec,
                ShortRunSpec, ShortRetrySpec}
LivenessSpecs == {DefaultSpec, UnlimitedSpec, NoReplanSpec, ShortRunSpec, ShortRetrySpec}
OnlyDefaultSpec == {DefaultSpec}
OnlyNoRetrySpec == {NoRetrySpec}

MCBackoffs == {<<>>, <<2>>}
NoBackoff == {<<>>}

\* Every control point of a process.
EveryPoint == ControlPoints \ {"down", "done", "raised"}

\* The control points at which the next step appends an event.
AppendingPoints == {"approve", "research", "backoff", "schedule", "attempt", "answered",
                    "settle", "replan", "validated"}

\* The windows CrashPoint names: after a reservation, a dispatch, a call, a
\* success; and the loop head, where nothing is in flight.
CrashPointWindows == {"attempt", "dispatched", "answered", "replan", "loop"}

NoPoint == {}

=============================================================================
