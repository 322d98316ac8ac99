-------------------------- MODULE ExecutionPolicies --------------------------
(***************************************************************************)
(* The retry and replan policies and the error taxonomy they consult       *)
(* (policies.py, errors.py). Times are whole seconds.                      *)
(***************************************************************************)
EXTENDS BudgetLedger

CONSTANT MaxAttempts    \* RetryPolicy.max_attempts

ErrorCode == {"transient_provider", "rate_limited", "operation_timeout",
              "run_deadline_exceeded", "budget_exhausted", "cancelled",
              "contract_invalid", "grounding_rejected", "permanent_provider",
              "tool_failure", "unknown_outcome", "internal_invariant_violation"}

\* The codes both the allowlist of RetryPolicy and the error table call
\* retryable; the two sets are the same in the code.
Retryable == {"transient_provider", "rate_limited", "operation_timeout"}

\* delay_for: the schedule runs out into immediate retries.
DelayFor(backoff, n) == IF n \in DOMAIN backoff THEN backoff[n] ELSE 0

\* RetryPolicy.allows. Without a run deadline the remaining time is NoLimit;
\* otherwise it may equal the delay.
Allows(code, n, cancelled, remaining, backoff) ==
    /\ ~cancelled
    /\ n < MaxAttempts
    /\ code \in Retryable
    /\ remaining # NoLimit => remaining >= DelayFor(backoff, n)

\* ReplanPolicy.admit. Every caller in runtime_v2 proposes a plan identity
\* that differs from the old one, so the "plan_unchanged" refusal is not met.
Admits(ordinal, maxReplans) == ordinal < maxReplans

=============================================================================
