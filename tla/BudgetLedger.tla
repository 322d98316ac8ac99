---------------------------- MODULE BudgetLedger ----------------------------
(***************************************************************************)
(* The budget ledger: what a run has reserved and been charged, and the    *)
(* checks the limits of its BudgetSpec impose (budgets.py). The code keeps *)
(* attempts and calls in two counters that always move together; here they *)
(* are one, calls. total_tokens is input plus output by validation, and    *)
(* cost follows the rule of input tokens and is 0 in every modelled run.   *)
(* A reservation is [op, attempt, kind, usage], a charge adds the outcome. *)
(* The code raises ValueError exactly when a Can... operator is false.     *)
(***************************************************************************)
EXTENDS Integers, FiniteSets, FiniteSetsExt

CONSTANT NoLimit    \* a limit of BudgetSpec left at None

Kinds == {"provider", "tool"}

Usage == [input : Nat, output : Nat]
Total(usage) == usage.input + usage.output

Limit == Nat \cup {NoLimit}

SpecType == [maxAttempts : [Kinds -> Limit], maxCalls : [Kinds -> Limit],
             maxInput : Limit, maxOutput : Limit, maxTotal : Limit, maxRetries : Limit,
             maxReplans : Nat, runTimeout : Limit, operationTimeout : Limit]

ReservationType == [op : Nat, attempt : Nat \ {0}, kind : Kinds, usage : Usage]
ChargeType == [op : Nat, attempt : Nat \ {0}, kind : Kinds, usage : Usage,
               outcome : {"succeeded", "failed_known"}]

LedgerType ==
    [calls : [Kinds -> Nat], input : Nat, output : Nat, retries : Nat, replans : Nat,
     elapsed : Nat, reservations : SUBSET ReservationType, charges : SUBSET ChargeType]

Within(amount, limit) == limit = NoLimit \/ amount <= limit

EmptyLedger ==
    [calls |-> [k \in Kinds |-> 0], input |-> 0, output |-> 0, retries |-> 0,
     replans |-> 0, elapsed |-> 0, reservations |-> {}, charges |-> {}]

ReservedTokens(l) == MapThenSumSet(LAMBDA r : Total(r.usage), l.reservations)

\* Mutant of Affordable: the call that is asked for is not counted.
AffordableUncounted(l, spec, kind, usage, withReserved) ==
    LET held == IF withReserved
                THEN Cardinality({r \in l.reservations : r.kind = kind}) ELSE 0
    IN  /\ Within(l.calls[kind] + held, spec.maxAttempts[kind])
        /\ Within(l.calls[kind] + held, spec.maxCalls[kind])
        /\ Within(l.input + usage.input, spec.maxInput)
        /\ Within(l.output + usage.output, spec.maxOutput)
        /\ Within(l.input + l.output + ReservedTokens(l) + Total(usage), spec.maxTotal)

\* _check. Outstanding reservations of the kind count when withReserved: one
\* more call must fit both limits. Input and output tokens never count them,
\* total tokens always do.
Affordable(l, spec, kind, usage, withReserved) ==
    LET held == IF withReserved
                THEN Cardinality({r \in l.reservations : r.kind = kind}) ELSE 0
    IN  /\ Within(l.calls[kind] + held + 1, spec.maxAttempts[kind])
        /\ Within(l.calls[kind] + held + 1, spec.maxCalls[kind])
        /\ Within(l.input + usage.input, spec.maxInput)
        /\ Within(l.output + usage.output, spec.maxOutput)
        /\ Within(l.input + l.output + ReservedTokens(l) + Total(usage), spec.maxTotal)

Held(l, op, n) == \E r \in l.reservations : r.op = op /\ r.attempt = n
Charged(l, op, n) == \E c \in l.charges : c.op = op /\ c.attempt = n

\* reserve. Reserving again with the same terms is a no-op, with other terms
\* an error; so is an attempt that was already charged.
CanReserve(l, spec, r) ==
    \/ r \in l.reservations
    \/ /\ ~Held(l, r.op, r.attempt)
       /\ ~Charged(l, r.op, r.attempt)
       /\ Affordable(l, spec, r.kind, r.usage, TRUE)
Reserve(l, r) == [l EXCEPT !.reservations = @ \cup {r}]

Release(l, op, n) ==
    [l EXCEPT !.reservations = {r \in @ : ~(r.op = op /\ r.attempt = n)}]

\* reconcile followed by charge_attempt: the reservation is dropped first, so
\* the charge competes with the other reservations only. The retry limit is
\* looked at here and nowhere else.
CanReconcile(l, spec, c) ==
    LET rest == Release(l, c.op, c.attempt)
    IN  \/ c \in l.charges
        \/ /\ ~Charged(l, c.op, c.attempt)
           /\ Within(l.retries + c.attempt - 1, spec.maxRetries)
           /\ Affordable(rest, spec, c.kind, c.usage, FALSE)
Reconcile(l, c) ==
    LET rest == Release(l, c.op, c.attempt)
    IN  IF c \in l.charges THEN rest
        ELSE [rest EXCEPT !.calls[c.kind] = @ + 1,
                          !.input = @ + c.usage.input,
                          !.output = @ + c.usage.output,
                          !.retries = @ + c.attempt - 1,
                          !.charges = @ \cup {c}]

CanRecordReplan(l, spec) == l.replans < spec.maxReplans
RecordReplan(l) == [l EXCEPT !.replans = @ + 1]

RecordElapsed(l, seconds) == [l EXCEPT !.elapsed = IF seconds > @ THEN seconds ELSE @]

=============================================================================
