---------------------------- MODULE FakeScenarios ----------------------------
(***************************************************************************)
(* The nine scripted scenarios of fake_runtime.py: for each, the           *)
(* operations in the order they run and, per attempt, what the fake        *)
(* provider or tool answers. An answer has a status, whether its content   *)
(* is empty, a latency in seconds, an error code and the usage it reports. *)
(***************************************************************************)
EXTENDS Naturals, Sequences

\* _step: one input and one output token unless told otherwise.
Step(status, empty, latency, code) ==
    [status |-> status, empty |-> empty, latency |-> latency, code |-> code,
     usage |-> [input |-> 1, output |-> 1]]

Good == Step("success", FALSE, 0, "none")
Empty == Step("success", TRUE, 0, "none")
Abstains == Step("abstain", TRUE, 0, "none")
Transient == Step("error", FALSE, 0, "transient_provider")
Slow == Step("error", FALSE, 2, "operation_timeout")
Lost == Step("unknown", FALSE, 0, "unknown_outcome")

ToolOp(answers) == [kind |-> "tool", answers |-> answers]
ProviderOp(answers) == [kind |-> "provider", answers |-> answers]

scenario_operations ==
    [success_minimal |-> <<ToolOp(<<Good>>), ProviderOp(<<Good>>)>>,
     insufficient_evidence |-> <<ToolOp(<<Empty>>)>>,
     transient_retry_success |-> <<ProviderOp(<<Transient, Good>>)>>,
     timeout_exhausted |-> <<ProviderOp(<<Slow, Slow>>)>>,
     cancel_before_next_call |-> <<ToolOp(<<Good>>), ProviderOp(<<Good>>)>>,
     budget_exhausted |-> <<ToolOp(<<Good>>), ProviderOp(<<Good>>)>>,
     single_replan_success |-> <<ToolOp(<<Abstains>>), ToolOp(<<Good>>), ProviderOp(<<Good>>)>>,
     replan_limit_exceeded |-> <<ToolOp(<<Abstains>>), ToolOp(<<Abstains>>)>>,
     unknown_non_idempotent_outcome |-> <<ToolOp(<<Lost>>)>>]

=============================================================================
