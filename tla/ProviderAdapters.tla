--------------------------- MODULE ProviderAdapters ---------------------------
(***************************************************************************)
(* The clients of a language model provider: the text-only canaries        *)
(* (canary.py, deepseek_canary.py), the structured clients of the          *)
(* end-to-end runs (e2e.py, deepseek_e2e.py) with the planner and the      *)
(* writer that read what they return, and the client of everything else    *)
(* (llm/client.py). Each is a list of checks on what came back, the first  *)
(* that applies giving the result.                                         *)
(***************************************************************************)
EXTENDS Integers, Sequences

VARIABLES
    adapterReply,   \* what came back, or NoReply
    adapterResult   \* endpoint |-> what the client made of it
adapterVars == <<adapterReply, adapterResult>>

Endpoints == {"glm_canary", "deepseek_canary", "glm_e2e", "deepseek_e2e"}
Canaries == {"glm_canary", "deepseek_canary"}

Statuses == {200, 400, 401, 429, 500}
Bodies == {"garbage", "list", "error", "no_content", "null_message", "content"}
\* not JSON, JSON that is no object, the wrong object, one with fields the program owns,
\* fields out of scope, no subtasks, or an object of the right form
Contents == {"prose", "list", "wrong_shape", "owned_ids", "out_of_scope", "no_subtasks", "good"}
\* "split": the parts of the prompt do not add up; "over": consistent, above the budget
Usages == {"missing", "negative", "total", "split", "over", "good"}
Whole == [sent |-> "answered", status |-> 200, body |-> "content", content |-> "good",
          truncated |-> FALSE, sameModel |-> TRUE, usage |-> "good"]
NoReply == [Whole EXCEPT !.sent = "none"]
Lost == [Whole EXCEPT !.sent = "lost"]          \* a timeout, a refused or reset connection
CutShort == [Whole EXCEPT !.sent = "cut"]       \* the connection ends inside the body
Unread == [Whole EXCEPT !.body = "garbage", !.usage = "missing"]
GarbledReply(status, body) == [Unread EXCEPT !.status = status, !.body = body]
RefusedReply(status, body, usage) == [Whole EXCEPT !.status = status, !.body = body, !.usage = usage]
ContentReply(content, truncated, same, usage) ==
    [Whole EXCEPT !.content = content, !.truncated = truncated, !.sameModel = same, !.usage = usage]
Replies ==
    {Lost, CutShort}
        \cup {GarbledReply(status, body) : status \in Statuses, body \in {"garbage", "list"}}
        \cup {RefusedReply(status, body, usage) :
                status \in Statuses, body \in Bodies \ {"garbage", "list"}, usage \in Usages}
        \cup {ContentReply(content, truncated, same, usage) :
                content \in Contents, truncated \in BOOLEAN, same \in BOOLEAN, usage \in Usages}

---------------------------------------------------------------------------
Result(status, code, usage) == [status |-> status, code |-> code, usage |-> usage]
Check(when, status, code, usage) == [when |-> when, result |-> Result(status, code, usage)]
FirstThatApplies(checks) ==
    checks[CHOOSE i \in DOMAIN checks : checks[i].when /\ \A j \in 1..(i - 1) : ~checks[j].when].result

Ok(r) == r.status \in 200..299
StatusCode(r) ==
    CASE r.status = 429 -> "rate_limited"
      [] r.status >= 500 -> "transient_provider"
      [] OTHER -> "permanent_provider"
Nothing == "nothing"

\* What the prompt's parts add up to is only looked at by DeepSeek's clients; a number below
\* zero is one of the things they call missing, and an error of the usage record at GLM's.
ReportedGLM(r) == IF r.usage \in {"good", "over", "split"} THEN r.usage ELSE Nothing
ReportedDeepSeek(r) == IF r.usage \in {"good", "over"} THEN r.usage ELSE Nothing

GLMCanaryCall(r) == FirstThatApplies(<<
    Check(r.sent = "lost", "unknown", "unknown_outcome", Nothing),
    Check(r.sent = "cut", "raised", "unexpected", Nothing),
    Check(~Ok(r), "failed", StatusCode(r), Nothing),
    Check(r.body \in {"garbage", "list"}, "failed", "contract_invalid", Nothing),
    Check(r.body = "error", "failed", "permanent_provider", Nothing),
    Check(r.body = "null_message", "raised", "unexpected", Nothing),
    Check(r.body = "no_content", "failed", "contract_invalid", Nothing),
    Check(r.usage = "negative", "raised", "unexpected", Nothing),
    Check(~r.sameModel \/ r.content # "good" \/ r.usage \in {"missing", "total"},
          "failed", "contract_invalid", Nothing),
    Check(TRUE, "success", "none", ReportedGLM(r))>>)

\* Mutant: the acknowledgement is believed whatever model gave it.
DeepSeekCanaryCallOfAny(r) == FirstThatApplies(<<
    Check(r.sent = "lost", "unknown", "unknown_outcome", Nothing),
    Check(r.sent = "cut", "raised", "unexpected", Nothing),
    Check(~Ok(r), "failed", StatusCode(r), ReportedDeepSeek(r)),
    Check(r.body = "null_message", "raised", "unexpected", Nothing),
    Check(r.body # "content" \/ r.content # "good" \/ ReportedDeepSeek(r) = Nothing,
          "failed", "contract_invalid", ReportedDeepSeek(r)),
    Check(TRUE, "success", "none", ReportedDeepSeek(r))>>)

\* The usage is read first, and kept by every failure.
DeepSeekCanaryCall(r) == FirstThatApplies(<<
    Check(r.sent = "lost", "unknown", "unknown_outcome", Nothing),
    Check(r.sent = "cut", "raised", "unexpected", Nothing),
    Check(~Ok(r), "failed", StatusCode(r), ReportedDeepSeek(r)),
    Check(r.body = "error", "failed", "permanent_provider", ReportedDeepSeek(r)),
    Check(r.body = "null_message", "raised", "unexpected", Nothing),
    Check(r.body # "content" \/ ~r.sameModel \/ r.content # "good" \/ ReportedDeepSeek(r) = Nothing,
          "failed", "contract_invalid", ReportedDeepSeek(r)),
    Check(TRUE, "success", "none", ReportedDeepSeek(r))>>)

GLMComplete(r) == FirstThatApplies(<<
    Check(r.sent = "lost", "unknown", "outcome_unknown", Nothing),
    Check(r.sent = "cut", "raised", "unexpected", Nothing),
    Check(~Ok(r), "failed", "transport_failure", Nothing),
    Check(r.body = "null_message", "raised", "unexpected", Nothing),
    Check(r.body # "content", "failed", "provider_response_invalid", Nothing),
    Check(r.usage = "negative", "raised", "unexpected", Nothing),
    Check(ReportedGLM(r) = Nothing \/ ~r.sameModel, "failed", "provider_response_invalid", ReportedGLM(r)),
    Check(TRUE, "success", "none", ReportedGLM(r))>>)

\* The body is parsed before the status is looked at.
DeepSeekComplete(r) == FirstThatApplies(<<
    Check(r.sent = "lost", "unknown", "outcome_unknown", Nothing),
    Check(r.sent = "cut", "raised", "unexpected", Nothing),
    Check(r.body = "garbage", "failed", "provider_response_invalid", Nothing),
    Check(~Ok(r), "failed", "transport_failure", Nothing),
    Check(r.body = "null_message", "raised", "unexpected", Nothing),
    Check(r.body # "content", "failed", "provider_response_invalid", Nothing),
    Check(ReportedDeepSeek(r) = Nothing \/ ~r.sameModel,
          "failed", "provider_response_invalid", ReportedDeepSeek(r)),
    Check(TRUE, "success", "none", ReportedDeepSeek(r))>>)

Call(endpoint, r) ==
    CASE endpoint = "glm_canary" -> GLMCanaryCall(r)
      [] endpoint = "deepseek_canary" -> DeepSeekCanaryCall(r)
      [] endpoint = "glm_e2e" -> GLMComplete(r)
      [] endpoint = "deepseek_e2e" -> DeepSeekComplete(r)

\* The client of the reading, evaluation and agent workflows: neither the model nor the usage
\* is looked at. What is lost may come as an error of its own or as any other; an answer
\* without a text can be one whose text is null.
LLMComplete(r) ==
    CASE r.sent = "lost" -> {"llm_error", "raised"}
      [] r.sent = "cut" \/ (r.sent = "answered" /\ Ok(r) /\ r.body = "garbage") -> {"raised"}
      [] r.sent = "answered" /\ ~Ok(r) -> {"llm_error"}
      [] r.sent = "answered" /\ Ok(r) /\ r.body \in {"list", "error", "null_message"} -> {"llm_error"}
      [] r.sent = "answered" /\ Ok(r) /\ r.body = "no_content" -> {"llm_error", "no_text"}
      [] r.sent = "answered" /\ Ok(r) /\ r.body = "content" -> {"success"}
LLMCompleteTools(r) ==
    CASE r.sent = "answered" /\ Ok(r) /\ r.body = "null_message" -> {"raised"}
      [] r.sent = "answered" /\ Ok(r) /\ r.body = "no_content" -> {"llm_error", "success"}
      [] OTHER -> LLMComplete(r)

\* What the planner and the writer make of a reply the client returned.
PlannerReads(r) == FirstThatApplies(<<
    Check(r.truncated, "failed", "planner_content_truncated", Nothing),
    Check(r.content \in {"prose", "list"}, "failed", "planner_json_invalid", Nothing),
    Check(r.content = "owned_ids", "failed", "planner_schema_invalid", Nothing),
    Check(r.content = "out_of_scope", "failed", "planner_scope_invalid", Nothing),
    Check(r.content = "no_subtasks", "failed", "planner_empty", Nothing),
    Check(r.content = "wrong_shape", "failed", "planner_schema_invalid", Nothing),
    Check(TRUE, "draft", "none", Nothing)>>)
\* The writer drops the fields the program owns instead of refusing them.
WriterReads(r) == FirstThatApplies(<<
    Check(r.truncated, "failed", "writer_content_truncated", Nothing),
    Check(r.content = "prose", "failed", "writer_json_invalid", Nothing),
    Check(r.content \notin {"good", "owned_ids"}, "failed", "writer_schema_invalid", Nothing),
    Check(TRUE, "draft", "none", Nothing)>>)

Reading(endpoint, r, read) ==
    LET called == Call(endpoint, r)
    IN  IF called.status = "success" THEN [read EXCEPT !.usage = called.usage] ELSE called

\* classify_provider_error and retryable: what DeepSeek's client says of another try.
Retryable(r) ==
    LET called == DeepSeekComplete(r)
    IN  \/ called.status = "unknown"
        \/ called.status = "failed" /\ r.status \in {429, 500}

---------------------------------------------------------------------------
NoResult == [endpoint \in Endpoints |-> Result("none", "none", Nothing)]
AdapterInit == adapterReply = NoReply /\ adapterResult = NoResult

\* One reply as every client would read it.
AdapterReads ==
    /\ adapterReply = NoReply
    /\ \E r \in Replies :
        adapterReply' = r /\ adapterResult' = [endpoint \in Endpoints |-> Call(endpoint, r)]
AdapterNext == AdapterReads

---------------------------------------------------------------------------
(* Properties. *)

\* A client succeeds only on what its contract asks for, whatever order it checks in: an
\* answer of the model that was called, with a usage that adds up, in the form that was
\* asked for. What was lost is unknown and never a known failure, and DeepSeek's canary
\* keeps every usage that was reported. A draft comes of a whole reply only, and another
\* try is only ever suggested where the provider, not the answer, was at fault.
AcceptsOnlyTheContract ==
    adapterReply # NoReply =>
        LET r == adapterReply
            answered == r.sent = "answered" /\ r.status = 200 /\ r.body = "content" /\ r.sameModel
            Sums(endpoint) ==
                r.usage \in {"good", "over"} \/ (r.usage = "split" /\ endpoint \in {"glm_canary", "glm_e2e"})
        IN  /\ \A endpoint \in Endpoints :
                LET result == adapterResult[endpoint]
                IN  /\ result.status = "success" <=>
                        /\ answered /\ Sums(endpoint)
                        /\ endpoint \in Canaries => r.content = "good"
                    /\ result.status = "unknown" <=> r.sent = "lost"
                    /\ result.status \in {"success", "failed"} => r.sent = "answered"
                    /\ result.status = "success" => result.usage = r.usage
            /\ \A endpoint \in Endpoints \ Canaries :
                /\ Reading(endpoint, r, PlannerReads(r)).status = "draft" =>
                    answered /\ ~r.truncated /\ r.content = "good"
                /\ Reading(endpoint, r, WriterReads(r)).status = "draft" =>
                    answered /\ ~r.truncated /\ r.content \in {"good", "owned_ids"}
            /\ Retryable(r) => ~answered
            /\ "success" \in LLMComplete(r) => r.sent = "answered" /\ r.status = 200 /\ r.body = "content"
            /\ "success" \in LLMCompleteTools(r) => r.sent = "answered" /\ r.status = 200
            /\ r.sent = "answered" /\ r.usage \in {"good", "over"}
                    /\ adapterResult["deepseek_canary"].status = "failed"
                => adapterResult["deepseek_canary"].usage = r.usage
=============================================================================
