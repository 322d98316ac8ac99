--------------------------- MODULE Workflow_proofs ---------------------------
(***************************************************************************)
(* Theorems about the workflows around the research runtime, for every     *)
(* task, reply and bound. The agent: its state repeats its trace, it stays *)
(* within its budgets, no draft is staged without an approval and no       *)
(* outcome rests on nothing, all from one invariant that ties the place    *)
(* of a run to what its log tells (AgentInv). The canary: whatever a       *)
(* provider answers, the one call of a directory is paid for once and its  *)
(* stream is a prefix of the lines its result calls for (CanaryInv). The   *)
(* clients: only a reply that keeps the contract is a success. The first   *)
(* harness: its events replay into its ledger and journal, interrupted and *)
(* resumed or not (FakeInv).                                               *)
(***************************************************************************)
EXTENDS AgentRuntime, ProviderCanary, FakeRuntime, FiniteSetTheorems, WellFoundedInduction, TLAPS

---------------------------------------------------------------------------
(* Least and greatest *)

\* A set of naturals that is not empty has a least element.
LEMMA LeastOf ==
  ASSUME NEW S \in SUBSET Nat, S # {}
  PROVE  \E m \in S : \A k \in S : m <= k
<1>1. PICK m \in S : \A k \in S : ~ (<<k, m>> \in OpToRel(<, Nat))
  BY WFMin, NatLessThanWellFounded
<1>2. \A k \in S : ~ (k < m)
  BY <1>1 DEF OpToRel
<1>3. \A k \in S : m <= k
  BY <1>2
<1> QED
  BY <1>3

\* A set of naturals with a bound has a greatest element.
LEMMA GreatestOf ==
  ASSUME NEW n \in Nat, NEW S \in SUBSET (1..n), S # {}
  PROVE  Latest(S) \in S
<1> DEFINE D == {n - i : i \in S}
<1>1. D \in SUBSET Nat /\ D # {}
  <2>1. \A i \in S : n - i \in Nat
    OBVIOUS
  <2> QED
    BY <2>1
<1>2. PICK d \in D : \A k \in D : d <= k
  <2> HIDE DEF D
  <2> QED
    BY <1>1, LeastOf
<1>3. PICK i \in S : d = n - i
  BY <1>2
<1>4. \A j \in S : j <= i
  <2> TAKE j \in S
  <2>1. n - i <= n - j
    BY <1>2, <1>3
  <2> QED
    BY <2>1
<1> QED
  BY <1>4 DEF Latest

---------------------------------------------------------------------------
(* The agent: what its trace and its place say of each other *)

AgentSpec == AgentInit /\ [][AgentNext]_agentVars

Nodes ==
    {"idle", "planner", "policy_gate", "tool_executor", "coverage_router", "human_approval",
     "finalizer"} \cup AgentFinal
IsLog(log) == \E S : log \in Seq(S)
IsCall(action) == action.id # Internal /\ action.tool \in AgentTools

Places(log, type) == {i \in DOMAIN log : log[i].type = type}
SuccessPlaces(log) == {i \in Places(log, "tool_result") : log[i].status = "success"}
Backed(log) == \E i \in SuccessPlaces(log) : log[i].found # {}

\* Every result answers a call, and no call is answered twice.
CalledIn(log, id) == \E i \in Places(log, "tool_call") : log[i].id = id
DistinctAnswers(log) ==
    \A i, j \in Places(log, "tool_result") : log[i].id = log[j].id => i = j
SoundAnswers(log) ==
    DistinctAnswers(log) /\ \A i \in Places(log, "tool_result") : CalledIn(log, log[i].id)

\* Before a draft: the matrix was read, the draft was asked for, the author agreed.
AskedFor(log) ==
    \E matrix \in SuccessPlaces(log), asked \in Places(log, "approval_requested") : matrix < asked
ApprovedBefore(log, place) ==
    \E matrix \in SuccessPlaces(log), asked \in Places(log, "approval_requested"),
       decided \in Places(log, "approval_decision") :
        matrix < asked /\ asked < decided /\ decided < place /\ log[decided].approved

AgentFailed == agentState.status = "execution_failed"
Drafting == agentNode = "tool_executor" /\ agentState.action = StageDraft
Drafted == agentNode = "coverage_router" /\ agentState.lastTool = "stage_writing_draft"
Paused == agentNode = "human_approval" /\ agentState.pending = "registered"
Ending == agentNode \in {"finalizer", "done"}

IsState(s) ==
    s = [turns |-> s.turns, tools |-> s.tools, signatures |-> s.signatures, coverage |-> s.coverage,
         pending |-> s.pending, status |-> s.status, action |-> s.action, lastTool |-> s.lastTool,
         decision |-> s.decision, checked |-> s.checked]
AgentShape ==
    /\ IsState(agentState)
    /\ agentState.turns \in Nat /\ agentState.tools \in Seq(AgentTools)
    /\ IsLog(agentLog)
    /\ IsLog(agentQueue) /\ \A i \in 1..Len(agentQueue) : IsCall(agentQueue[i])

\* What runs next has passed the gate, or is the draft the author agreed to.
AgentPlace ==
    /\ agentNode \in Nodes
    /\ agentNode = "idle" => agentLog = <<>> /\ agentState = InitialAgentState
    /\ agentNode = "policy_gate" =>
        AgentFailed \/ agentState.action = Finish \/ IsCall(agentState.action)
    /\ agentNode = "tool_executor" =>
        \/ agentState.action = StageDraft
        \/ /\ IsCall(agentState.action) /\ agentState.action.tool # "stage_writing_draft"
           /\ Len(agentState.tools) < MaxToolCalls
           /\ agentState.action.tool = "retrieve_evidence" =>
                Successes("retrieve_evidence") < MaxRetrievalCalls

\* The state counts what the trace records, and stays within the budgets.
AgentCounts ==
    /\ SoundAnswers(agentLog)
    /\ Len(agentState.tools) =
         Cardinality(Places(agentLog, "internal_action_result") \cup SuccessPlaces(agentLog))
    /\ Successes("stage_writing_draft") = Cardinality(Places(agentLog, "internal_action_result"))
    /\ AgentWithinBudget

\* A draft is asked for once, decided once and staged once, in this order.
AgentDrafts ==
    /\ \A i, j \in Places(agentLog, "approval_decision") : i = j
    /\ \A i, j \in Places(agentLog, "internal_action_result") : i = j
    /\ Places(agentLog, "approval_requested") # {} =>
        Paused \/ Drafting \/ Drafted \/ Ending \/ agentNode = "raised"
    /\ Places(agentLog, "approval_decision") # {} => Drafting \/ Drafted \/ Ending
    /\ Places(agentLog, "internal_action_result") # {} => Drafted \/ Ending
    /\ agentNode = "coverage_router" /\ agentState.lastTool = "query_evidence_matrix" =>
        AgentFailed \/ SuccessPlaces(agentLog) # {}
    /\ Paused => AskedFor(agentLog)
    /\ Drafting => ApprovedBefore(agentLog, Len(agentLog) + 1)
    /\ \A i \in Places(agentLog, "internal_action_result") : ApprovedBefore(agentLog, i)

AgentAgrees == agentNode = "coverage_router" \/ Paused => Agrees

\* Passages at hand, a coverage and an outcome rest on evidence the trace names.
AgentEvidence ==
    /\ Backed(agentLog) => Successes("retrieve_evidence") >= 1
    /\ agentState.coverage \in {"complete", "partial"} => Backed(agentLog)
    /\ agentTop =>
        \/ Backed(agentLog) \/ Ending \/ agentNode = "raised"
        \/ agentNode = "coverage_router" /\ AgentFailed
    /\ agentState.lastTool = "stage_writing_draft" =>
        (Drafted \/ Ending) /\ (agentState.status # "none" \/ Successes("stage_writing_draft") = 1)
    /\ agentState.status \in {"complete", "partial"} => agentNode = "done"
    /\ agentNode = "done" /\ agentState.status \in {"complete", "partial"} =>
        Successes("stage_writing_draft") = 1 \/ Backed(agentLog)

AgentInv == AgentShape /\ AgentPlace /\ AgentCounts /\ AgentDrafts /\ AgentAgrees /\ AgentEvidence

Extends(old, new) ==
    IsLog(new) /\ Len(old) <= Len(new) /\ \A i \in 1..Len(old) : new[i] = old[i]
Telling == {"tool_result", "internal_action_result", "approval_requested", "approval_decision"}
\* The events that came say nothing of results, drafts and approvals.
Silent(old, new) ==
    Extends(old, new) /\ \A i \in (Len(old) + 1)..Len(new) : new[i].type \notin Telling

\* One event more.
LEMMA OneMore ==
  ASSUME NEW log, IsLog(log), NEW e
  PROVE  /\ Extends(log, Append(log, e)) /\ Len(log) \in Nat
         /\ Len(Append(log, e)) = Len(log) + 1 /\ Append(log, e)[Len(log) + 1] = e
         /\ DOMAIN log = 1..Len(log) /\ DOMAIN Append(log, e) = 1..(Len(log) + 1)
<1>1. PICK S : log \in Seq(S)
  BY DEF IsLog
<1>2. log \in Seq(S \cup {e}) /\ Append(log, e) \in Seq(S \cup {e})
  <2>1. log \in Seq(S \cup {e})
    BY <1>1
  <2> QED
    BY <2>1
<1> QED
  BY <1>1, <1>2 DEF IsLog, Extends

\* Several events more.
LEMMA SeveralMore ==
  ASSUME NEW log, IsLog(log), NEW more, IsLog(more)
  PROVE  /\ Extends(log, log \o more) /\ Len(log) \in Nat /\ Len(more) \in Nat
         /\ Len(log \o more) = Len(log) + Len(more)
         /\ \A i \in 1..Len(more) : (log \o more)[Len(log) + i] = more[i]
         /\ \A i \in (Len(log) + 1)..Len(log \o more) : (log \o more)[i] = more[i - Len(log)]
<1>1. PICK S : log \in Seq(S)
  BY DEF IsLog
<1>2. PICK T : more \in Seq(T)
  BY DEF IsLog
<1> DEFINE U == S \cup T
<1>3. log \in Seq(U) /\ more \in Seq(U)
  BY <1>1, <1>2
<1> HIDE DEF U
<1>4. log \o more \in Seq(U) /\ Len(log \o more) = Len(log) + Len(more)
      /\ Len(log) \in Nat /\ Len(more) \in Nat
      /\ \A i \in 1..(Len(log) + Len(more)) :
            (log \o more)[i] = IF i <= Len(log) THEN log[i] ELSE more[i - Len(log)]
  BY <1>3
<1> QED
  BY <1>4 DEF IsLog, Extends

\* What a log tells stays told.
LEMMA PlacesGrow ==
  ASSUME NEW old, IsLog(old), NEW new, Extends(old, new)
  PROVE  /\ DOMAIN old = 1..Len(old) /\ DOMAIN new = 1..Len(new) /\ Len(old) \in Nat /\ Len(new) \in Nat
         /\ \A type : Places(new, type) =
                Places(old, type) \cup {i \in (Len(old) + 1)..Len(new) : new[i].type = type}
         /\ SuccessPlaces(new) = SuccessPlaces(old) \cup
                {i \in (Len(old) + 1)..Len(new) : new[i].type = "tool_result" /\ new[i].status = "success"}
         /\ Backed(old) => Backed(new)
         /\ AskedFor(old) => AskedFor(new)
         /\ \A p \in Nat, q \in Nat : ApprovedBefore(old, p) /\ p <= q => ApprovedBefore(new, q)
<1>1. /\ DOMAIN old = 1..Len(old) /\ DOMAIN new = 1..Len(new) /\ Len(old) \in Nat /\ Len(new) \in Nat
      /\ Len(old) <= Len(new) /\ \A i \in 1..Len(old) : new[i] = old[i]
  BY DEF IsLog, Extends
<1>2. \A type : Places(new, type) =
         Places(old, type) \cup {i \in (Len(old) + 1)..Len(new) : new[i].type = type}
  BY <1>1 DEF Places
<1>3. SuccessPlaces(new) = SuccessPlaces(old) \cup
         {i \in (Len(old) + 1)..Len(new) : new[i].type = "tool_result" /\ new[i].status = "success"}
  BY <1>1, <1>2 DEF SuccessPlaces, Places
<1>4. \A type : Places(old, type) \subseteq Places(new, type) /\ Places(old, type) \subseteq 1..Len(old)
  BY <1>1, <1>2 DEF Places
<1>5. SuccessPlaces(old) \subseteq SuccessPlaces(new) /\ SuccessPlaces(old) \subseteq 1..Len(old)
  BY <1>3, <1>4 DEF SuccessPlaces
<1>6. Backed(old) => Backed(new)
  BY <1>1, <1>5 DEF Backed
<1>7. AskedFor(old) => AskedFor(new)
  BY <1>4, <1>5 DEF AskedFor
<1>8. ASSUME NEW p \in Nat, NEW q \in Nat, ApprovedBefore(old, p), p <= q
      PROVE  ApprovedBefore(new, q)
  <2>1. PICK matrix \in SuccessPlaces(old), asked \in Places(old, "approval_requested"),
             decided \in Places(old, "approval_decision") :
          matrix < asked /\ asked < decided /\ decided < p /\ old[decided].approved
    BY <1>8 DEF ApprovedBefore
  <2>2. decided < q /\ new[decided].approved
    BY <1>1, <1>4, <1>8, <2>1
  <2> QED
    BY <1>4, <1>5, <2>1, <2>2 DEF ApprovedBefore
<1> QED
  BY <1>1, <1>2, <1>3, <1>6, <1>7, <1>8

\* Silence changes nothing of what a log tells.
LEMMA SilenceKeeps ==
  ASSUME NEW old, IsLog(old), NEW new, Silent(old, new)
  PROVE  /\ \A type \in Telling : Places(new, type) = Places(old, type)
         /\ SuccessPlaces(new) = SuccessPlaces(old)
         /\ \A type \in Telling : \A i \in Places(old, type) : new[i] = old[i]
         /\ Backed(new) <=> Backed(old)
<1>0. Extends(old, new)
  BY DEF Silent
<1>1. \A i \in (Len(old) + 1)..Len(new) : new[i].type \notin Telling
  BY DEF Silent
<1>g. /\ \A type : Places(new, type) =
              Places(old, type) \cup {i \in (Len(old) + 1)..Len(new) : new[i].type = type}
      /\ SuccessPlaces(new) = SuccessPlaces(old) \cup
              {i \in (Len(old) + 1)..Len(new) : new[i].type = "tool_result" /\ new[i].status = "success"}
  BY <1>0, PlacesGrow
<1>2. ASSUME NEW type \in Telling PROVE Places(new, type) = Places(old, type)
  <2>1. {i \in (Len(old) + 1)..Len(new) : new[i].type = type} = {}
    BY <1>1
  <2> QED
    BY <1>g, <2>1
<1>3. \A i \in (Len(old) + 1)..Len(new) : new[i].type # "tool_result"
  BY <1>1 DEF Telling
<1>4. SuccessPlaces(new) = SuccessPlaces(old)
  <2>1. {i \in (Len(old) + 1)..Len(new) : new[i].type = "tool_result" /\ new[i].status = "success"} = {}
    BY <1>3
  <2> QED
    BY <1>g, <2>1
<1>5. \A type : \A i \in Places(old, type) : new[i] = old[i]
  BY <1>0, PlacesGrow DEF Places, Extends
<1>6. \A i \in SuccessPlaces(old) : new[i] = old[i]
  BY <1>5 DEF SuccessPlaces
<1> QED
  BY <1>2, <1>4, <1>5, <1>6 DEF Backed

\* Events that tell nothing are silent.
LEMMA SilentEvents ==
  ASSUME NEW log, IsLog(log), NEW more, IsLog(more), \A i \in 1..Len(more) : more[i].type \notin Telling
  PROVE  Silent(log, log \o more)
<1>1. /\ Extends(log, log \o more) /\ Len(log) \in Nat /\ Len(more) \in Nat
      /\ Len(log \o more) = Len(log) + Len(more)
      /\ \A i \in (Len(log) + 1)..Len(log \o more) : (log \o more)[i] = more[i - Len(log)]
  BY SeveralMore
<1>2. \A i \in (Len(log) + 1)..Len(log \o more) : i - Len(log) \in 1..Len(more)
  BY <1>1
<1> QED
  BY <1>1, <1>2 DEF Silent

\* One such event alone.
LEMMA SilentEvent ==
  ASSUME NEW log, IsLog(log), NEW e, e.type \notin Telling
  PROVE  Silent(log, Append(log, e))
<1>1. /\ Extends(log, Append(log, e)) /\ Len(log) \in Nat
      /\ Len(Append(log, e)) = Len(log) + 1 /\ Append(log, e)[Len(log) + 1] = e
  BY OneMore
<1>2. \A i \in (Len(log) + 1)..Len(Append(log, e)) : i = Len(log) + 1
  BY <1>1
<1> QED
  BY <1>1, <1>2 DEF Silent

\* Silence after silence is silence.
LEMMA SilentTwice ==
  ASSUME NEW a, IsLog(a), NEW b, Silent(a, b), NEW c, Silent(b, c)
  PROVE  Silent(a, c)
<1>1. Len(a) \in Nat /\ Len(b) \in Nat /\ Len(c) \in Nat
  BY DEF Silent, Extends, IsLog
<1>2. Extends(a, c)
  BY <1>1 DEF Silent, Extends
<1>3. ASSUME NEW i \in (Len(a) + 1)..Len(c) PROVE c[i].type \notin Telling
  <2>1. CASE i \in (Len(b) + 1)..Len(c)
    BY <2>1 DEF Silent
  <2>2. CASE i \in (Len(a) + 1)..Len(b)
    <3>1. i \in 1..Len(b)
      BY <1>1, <2>2
    <3>2. c[i] = b[i]
      BY <3>1 DEF Silent, Extends
    <3> QED
      BY <2>2, <3>2 DEF Silent
  <2> QED
    BY <1>1, <2>1, <2>2
<1> QED
  BY <1>2, <1>3 DEF Silent

\* A log that stays as it is.
LEMMA Unchanged == ASSUME NEW log, IsLog(log) PROVE Silent(log, log)
<1>1. Len(log) \in Nat
  BY DEF IsLog
<1> QED
  BY <1>1 DEF Silent, Extends

\* What is known of every list.
LEMMA ListFacts ==
  ASSUME NEW s, IsLog(s)
  PROVE  Len(s) \in Nat /\ DOMAIN s = 1..Len(s) /\ (s # <<>> => Len(s) > 0)
BY DEF IsLog

\* A list of tools, and how often one of them is in it.
Uses(tools, tool) == Cardinality({i \in DOMAIN tools : tools[i] = tool})

\* A tool that is appended has one use more.
LEMMA UsesCount ==
  ASSUME NEW tools \in Seq(AgentTools), NEW t \in AgentTools, NEW u
  PROVE  /\ Uses(tools, u) \in Nat
         /\ Uses(Append(tools, t), u) = Uses(tools, u) + IF t = u THEN 1 ELSE 0
<1>1. DOMAIN tools = 1..Len(tools) /\ Len(tools) \in Nat /\ DOMAIN Append(tools, t) = 1..(Len(tools) + 1)
      /\ Append(tools, t)[Len(tools) + 1] = t /\ \A i \in 1..Len(tools) : Append(tools, t)[i] = tools[i]
  OBVIOUS
<1> DEFINE old == {i \in DOMAIN tools : tools[i] = u}
<1>2. IsFiniteSet(old)
  <2>1. old \subseteq 1..Len(tools)
    BY <1>1
  <2> HIDE DEF old
  <2>2. 1 \in Int /\ Len(tools) \in Int
    BY <1>1
  <2>3. IsFiniteSet(1..Len(tools))
    BY <2>2, FS_Interval
  <2> QED
    BY <2>1, <2>3, FS_Subset
<1>3. {i \in DOMAIN Append(tools, t) : Append(tools, t)[i] = u} =
        IF t = u THEN old \cup {Len(tools) + 1} ELSE old
  BY <1>1
<1>4. Len(tools) + 1 \notin old
  BY <1>1
<1> HIDE DEF old
<1>5. Cardinality(old) \in Nat /\ Cardinality(old \cup {Len(tools) + 1}) = Cardinality(old) + 1
  BY <1>2, <1>4, FS_CardinalityType, FS_AddElement
<1>6. Uses(tools, u) = Cardinality(old)
      /\ Uses(Append(tools, t), u) = Cardinality(IF t = u THEN old \cup {Len(tools) + 1} ELSE old)
  BY <1>3 DEF Uses, old
<1> QED
  BY <1>5, <1>6

---------------------------------------------------------------------------
(* One step of the agent *)

\* A function over an interval is a list; without its first item it is one too.
LEMMA ListOf ==
  ASSUME NEW n \in Nat, NEW f, f = [i \in 1..n |-> f[i]]
  PROVE  /\ IsLog(f) /\ Len(f) = n
         /\ n > 0 => IsLog(Tail(f)) /\ Len(Tail(f)) = n - 1 /\ Head(f) = f[1]
                     /\ \A i \in 1..(n - 1) : Tail(f)[i] = f[i + 1]
<1> DEFINE S == {f[i] : i \in 1..n}
<1>1. f \in [1..n -> S]
  OBVIOUS
<1> HIDE DEF S
<1>2. f \in Seq(S) /\ Len(f) = n
  BY <1>1
<1>3. n > 0 => Tail(f) \in Seq(S) /\ Len(Tail(f)) = n - 1 /\ Head(f) = f[1]
               /\ \A i \in 1..(n - 1) : Tail(f)[i] = f[i + 1]
  BY <1>2
<1> QED
  BY <1>2, <1>3 DEF IsLog

\* A batch is logged silently; what is taken from it is a call, or nothing.
LEMMA BatchAsked ==
  ASSUME AgentAssumption, AgentShape, PlanAsked
  PROVE  /\ Silent(agentLog, agentLog')
         /\ IsLog(agentQueue') /\ \A i \in 1..Len(agentQueue') : IsCall(agentQueue'[i])
         /\ \E action : /\ action = Finish \/ IsCall(action)
                        /\ agentState' = [agentState EXCEPT !.action = action, !.turns = @ + 1]
         /\ agentNode' = "policy_gate"
<1>1. PICK reply \in AgentReplies :
        LET calls == [i \in DOMAIN reply |->
                [reply[i] EXCEPT !.id = IF @ = <<>> THEN <<agentState.turns + 1, i>> ELSE @]]
            known == \A i \in DOMAIN calls : calls[i].tool \in AgentTools
        IN  /\ agentLog' = agentLog \o <<[type |-> "provider_request"], [type |-> "provider_step"]>>
                              \o [i \in DOMAIN calls |-> ToolCallEvent(calls[i])]
            /\ agentQueue' = IF known /\ calls # <<>> THEN Tail(calls) ELSE <<>>
            /\ Goto("policy_gate",
                    [agentState EXCEPT !.action = IF known /\ calls # <<>> THEN Head(calls) ELSE Finish,
                                       !.turns = @ + 1])
  BY DEF PlanAsked
<1> DEFINE calls == [i \in DOMAIN reply |->
                [reply[i] EXCEPT !.id = IF @ = <<>> THEN <<agentState.turns + 1, i>> ELSE @]]
           known == \A i \in DOMAIN calls : calls[i].tool \in AgentTools
           told == [i \in DOMAIN calls |-> ToolCallEvent(calls[i])]
           opened == <<[type |-> "provider_request"], [type |-> "provider_step"]>>
           n == Len(reply)
<1>2. reply \in Seq([tool : STRING, args : STRING, id : Seq(STRING)])
  BY DEF AgentAssumption
<1>3. n \in Nat /\ DOMAIN reply = 1..n
      /\ \A i \in 1..n : reply[i] \in [tool : STRING, args : STRING, id : Seq(STRING)]
  <2>1. \A S : reply \in Seq(S) => Len(reply) \in Nat /\ DOMAIN reply = 1..Len(reply)
                                    /\ \A i \in 1..Len(reply) : reply[i] \in S
    OBVIOUS
  <2> QED
    BY <1>2, <2>1
<1>4. DOMAIN calls = 1..n /\ calls = [i \in 1..n |-> calls[i]] /\ told = [i \in 1..n |-> told[i]]
  BY <1>3
<1>5. \A i \in 1..n : calls[i].id # Internal /\ told[i].type = "tool_call"
  <2> TAKE i \in 1..n
  <2>1. <<agentState.turns + 1, i>> # <<>>
    OBVIOUS
  <2>2. calls[i].id = IF reply[i].id = <<>> THEN <<agentState.turns + 1, i>> ELSE reply[i].id
    BY <1>3
  <2>3. told[i].type = "tool_call"
    BY <1>3 DEF ToolCallEvent
  <2> QED
    BY <2>1, <2>2, <2>3 DEF Internal
<1>6. /\ agentLog' = agentLog \o opened \o told
      /\ agentQueue' = IF known /\ calls # <<>> THEN Tail(calls) ELSE <<>>
      /\ agentState' = [agentState EXCEPT !.action = IF known /\ calls # <<>> THEN Head(calls) ELSE Finish,
                                          !.turns = @ + 1]
      /\ agentNode' = "policy_gate"
  BY <1>1, Zenon DEF Goto
<1>7. \A i \in 1..n : known => calls[i].tool \in AgentTools
  BY <1>4
<1> HIDE DEF calls, told, known
<1> HIDE DEF n
<1>8. /\ IsLog(told) /\ Len(told) = n /\ IsLog(calls) /\ Len(calls) = n
      /\ n > 0 => IsLog(Tail(calls)) /\ Len(Tail(calls)) = n - 1 /\ Head(calls) = calls[1]
                   /\ \A i \in 1..(n - 1) : Tail(calls)[i] = calls[i + 1]
  <2>1. n \in Nat /\ told = [i \in 1..n |-> told[i]] /\ calls = [i \in 1..n |-> calls[i]]
    BY <1>3, <1>4, Zenon
  <2>2. IsLog(told) /\ Len(told) = n
    BY ONLY <2>1, ListOf
  <2>3. /\ IsLog(calls) /\ Len(calls) = n
        /\ n > 0 => IsLog(Tail(calls)) /\ Len(Tail(calls)) = n - 1 /\ Head(calls) = calls[1]
                     /\ \A i \in 1..(n - 1) : Tail(calls)[i] = calls[i + 1]
    BY ONLY <2>1, ListOf
  <2> QED
    BY <2>2, <2>3, Zenon
<1>9. calls # <<>> => n > 0
  <2>1. IsLog(calls) /\ Len(calls) = n
    BY <1>8
  <2> QED
    BY <2>1, ListFacts
<1>10. IsLog(<<>>) /\ Len(<<>>) = 0
  <2>1. <<>> \in Seq({})
    OBVIOUS
  <2> QED
    BY <2>1 DEF IsLog
<1>11. /\ IsLog(agentQueue') /\ \A i \in 1..Len(agentQueue') : IsCall(agentQueue'[i])
       /\ known /\ calls # <<>> => IsCall(Head(calls))
  <2>1. CASE known /\ calls # <<>>
    <3>1. \A i \in 1..n : IsCall(calls[i])
      BY <1>5, <1>7, <2>1 DEF IsCall
    <3>2. n > 0 /\ agentQueue' = Tail(calls)
      BY <1>6, <1>9, <2>1
    <3>3. \A i \in 1..(n - 1) : i + 1 \in 1..n
      BY <1>3
    <3>4. \A i \in 1..(n - 1) : IsCall(Tail(calls)[i])
      BY <1>8, <3>1, <3>2, <3>3
    <3> QED
      BY <1>3, <1>8, <3>1, <3>2, <3>4
  <2>2. CASE ~(known /\ calls # <<>>)
    BY <1>6, <1>10, <2>2
  <2> QED
    BY <2>1, <2>2
<1>12. Silent(agentLog, agentLog')
  <2>1. IsLog(opened) /\ Len(opened) = 2 /\ \A i \in 1..2 : opened[i].type \notin Telling
    <3>1. opened \in Seq({[type |-> "provider_request"], [type |-> "provider_step"]})
          /\ Len(opened) = 2 /\ opened[1].type = "provider_request" /\ opened[2].type = "provider_step"
      OBVIOUS
    <3> HIDE DEF opened
    <3>2. IsLog(opened)
      BY <3>1 DEF IsLog
    <3>3. \A i \in 1..2 : i = 1 \/ i = 2
      OBVIOUS
    <3> QED
      BY <3>1, <3>2, <3>3 DEF Telling
  <2> HIDE DEF opened
  <2>2. IsLog(agentLog)
    BY DEF AgentShape
  <2>3. Silent(agentLog, agentLog \o opened)
    BY <2>1, <2>2, SilentEvents
  <2>4. IsLog(agentLog \o opened)
    BY <2>3 DEF Silent, Extends
  <2>5. \A i \in 1..n : told[i].type \notin Telling
    BY <1>5 DEF Telling
  <2>6. Silent(agentLog \o opened, agentLog \o opened \o told)
    BY <1>8, <2>4, <2>5, SilentEvents
  <2> QED
    BY <1>6, <2>2, <2>3, <2>6, SilentTwice
<1> QED
  BY <1>6, <1>11, <1>12

\* The planner changes nothing that was found or recorded; what it hands on is a call or nothing.
LEMMA PlannerSteps ==
  ASSUME AgentAssumption, AgentShape, PlanRefused \/ PlanQueued \/ PlanAsked \/ PlanRaises
  PROVE  /\ agentNode = "planner" /\ Silent(agentLog, agentLog') /\ IsState(agentState')
         /\ UNCHANGED <<agentTop, agentTask>>
         /\ agentState'.tools = agentState.tools /\ agentState'.coverage = agentState.coverage
         /\ agentState'.lastTool = agentState.lastTool /\ agentState'.checked = agentState.checked
         /\ agentState'.status \in {agentState.status, "execution_failed"}
         /\ agentState'.turns \in Nat
         /\ agentState'.turns = agentState.turns \/ agentState'.turns <= MaxModelTurns
         /\ IsLog(agentQueue') /\ \A i \in 1..Len(agentQueue') : IsCall(agentQueue'[i])
         /\ \/ agentNode' = "raised"
            \/ /\ agentNode' = "policy_gate"
               /\ \/ agentState'.status = "execution_failed"
                  \/ agentState'.action = Finish \/ IsCall(agentState'.action)
<1>s. /\ IsState(agentState) /\ agentState.turns \in Nat /\ MaxModelTurns \in Nat
      /\ IsLog(agentLog) /\ IsLog(agentQueue) /\ \A i \in 1..Len(agentQueue) : IsCall(agentQueue[i])
  BY DEF AgentShape, AgentAssumption
<1>1. CASE PlanRefused
  <2>1. /\ agentNode = "planner" /\ agentNode' = "policy_gate"
        /\ agentState' = [agentState EXCEPT !.status = "execution_failed"]
        /\ agentLog' = agentLog /\ agentQueue' = agentQueue /\ agentTop' = agentTop /\ agentTask' = agentTask
    BY <1>1 DEF PlanRefused, Goto, Stop
  <2>2. Silent(agentLog, agentLog')
    BY <1>s, <2>1, Unchanged
  <2> QED
    BY <1>s, <2>1, <2>2 DEF IsState
<1>2. CASE PlanQueued
  <2>1. /\ agentNode = "planner" /\ agentNode' = "policy_gate" /\ agentQueue # <<>>
        /\ agentState' = [agentState EXCEPT !.action = Head(agentQueue)]
        /\ agentLog' = agentLog /\ agentQueue' = Tail(agentQueue)
        /\ agentTop' = agentTop /\ agentTask' = agentTask
    BY <1>2 DEF PlanQueued, Goto
  <2>2. Silent(agentLog, agentLog')
    BY <1>s, <2>1, Unchanged
  <2>3. PICK S : agentQueue \in Seq(S)
    BY <1>s DEF IsLog
  <2>4. /\ Tail(agentQueue) \in Seq(S) /\ Head(agentQueue) = agentQueue[1] /\ 1 \in 1..Len(agentQueue)
        /\ \A i \in 1..Len(Tail(agentQueue)) :
              i + 1 \in 1..Len(agentQueue) /\ Tail(agentQueue)[i] = agentQueue[i + 1]
    BY <2>1, <2>3
  <2>5. IsLog(agentQueue') /\ \A i \in 1..Len(agentQueue') : IsCall(agentQueue'[i])
    BY <1>s, <2>1, <2>4 DEF IsLog
  <2>6. IsCall(Head(agentQueue))
    BY <1>s, <2>4
  <2> QED
    BY <1>s, <2>1, <2>2, <2>5, <2>6 DEF IsState
<1>3. CASE PlanAsked
  <2>1. PICK action : /\ action = Finish \/ IsCall(action)
                      /\ agentState' = [agentState EXCEPT !.action = action, !.turns = @ + 1]
    BY <1>3, BatchAsked
  <2>2. /\ agentNode = "planner" /\ agentState.turns < MaxModelTurns
        /\ agentTop' = agentTop /\ agentTask' = agentTask
    BY <1>3 DEF PlanAsked
  <2>3. /\ Silent(agentLog, agentLog') /\ IsLog(agentQueue') /\ agentNode' = "policy_gate"
        /\ \A i \in 1..Len(agentQueue') : IsCall(agentQueue'[i])
    BY <1>3, BatchAsked
  <2>4. /\ IsState(agentState') /\ agentState'.action = action
        /\ agentState'.tools = agentState.tools /\ agentState'.coverage = agentState.coverage
        /\ agentState'.lastTool = agentState.lastTool /\ agentState'.checked = agentState.checked
        /\ agentState'.status = agentState.status /\ agentState'.turns = agentState.turns + 1
    BY <1>s, <2>1 DEF IsState
  <2>5. agentState'.turns \in Nat /\ agentState'.turns <= MaxModelTurns
    BY <1>s, <2>2, <2>4
  <2> QED
    BY <2>1, <2>2, <2>3, <2>4, <2>5
<1>4. CASE PlanRaises
  <2>1. /\ agentNode = "planner" /\ agentNode' = "raised" /\ agentState' = agentState
        /\ agentLog' = Append(agentLog, [type |-> "provider_request"])
        /\ agentQueue' = agentQueue /\ agentTop' = agentTop /\ agentTask' = agentTask
    BY <1>4 DEF PlanRaises, Goto
  <2>2. [type |-> "provider_request"].type \notin Telling
    BY DEF Telling
  <2>3. Silent(agentLog, agentLog')
    BY <1>s, <2>1, <2>2, SilentEvent
  <2> QED
    BY <1>s, <2>1, <2>3
<1> QED
  BY <1>1, <1>2, <1>3, <1>4

Refusal(log, new) ==
    \E id, verdict :
        /\ verdict # "success" /\ CalledIn(log, id)
        /\ \A i \in Places(log, "tool_result") : log[i].id # id
        /\ new = Append(log, ToolResult(id, verdict, {}, FALSE))

\* An id that may be answered is that of a call and of no result.
LEMMA FreshAnswer ==
  ASSUME NEW id, MayAnswer(id)
  PROVE  CalledIn(agentLog, id) /\ \A i \in Places(agentLog, "tool_result") : agentLog[i].id # id
BY DEF MayAnswer, Answered, Recorded, AgentEvents, Places, CalledIn

\* The successes of a tool are its uses in the state's list.
LEMMA SuccessesCounted ==
  ASSUME AgentShape
  PROVE  \A tool : Successes(tool) \in Nat /\ Successes(tool) = Uses(agentState.tools, tool)
<1>1. \A tool : Successes(tool) = Uses(agentState.tools, tool)
  BY DEF Successes, Uses
<1>2. agentState.tools \in Seq(AgentTools) /\ "list_papers" \in AgentTools
  BY DEF AgentShape, AgentTools
<1> QED
  BY <1>1, <1>2, UsesCount

\* The gate ends the run, or records a refusal and ends it, or lets a call through: a draft to
\* a pause that nobody can end, any other call to the tools if the budgets have room for it.
LEMMA GateSteps ==
  ASSUME AgentAssumption, AgentShape, AgentPlace, GateEnds \/ GateRefuses \/ GateAllows
  PROVE  /\ agentNode = "policy_gate" /\ IsState(agentState')
         /\ UNCHANGED <<agentTop, agentTask, agentQueue>>
         /\ agentState'.tools = agentState.tools /\ agentState'.coverage = agentState.coverage
         /\ agentState'.turns = agentState.turns /\ agentState'.lastTool = agentState.lastTool
         /\ agentState'.status \in {agentState.status, "execution_failed"}
         /\ \/ agentNode' \in {"finalizer", "raised"} /\ agentLog' = agentLog
            \/ agentNode' = "finalizer" /\ Refusal(agentLog, agentLog')
            \/ agentNode' = "human_approval" /\ agentState'.pending = "unregistered" /\ agentLog' = agentLog
            \/ /\ agentNode' = "tool_executor" /\ agentLog' = agentLog
               /\ agentState'.status = agentState.status
               /\ IsCall(agentState'.action) /\ agentState'.action.tool # "stage_writing_draft"
               /\ Len(agentState.tools) < MaxToolCalls
               /\ agentState'.action.tool = "retrieve_evidence" =>
                    Successes("retrieve_evidence") < MaxRetrievalCalls
<1>s. IsState(agentState)
  BY DEF AgentShape
<1>1. CASE GateEnds
  BY <1>1, <1>s DEF GateEnds, Goto
<1>2. CASE GateRefuses
  <2>1. AtGate /\ GateVerdict # "allowed" /\ UNCHANGED <<agentTask, agentQueue, agentTop>>
    BY <1>2 DEF GateRefuses
  <2>2. GateVerdict # "success" /\ agentNode = "policy_gate"
    BY <2>1 DEF GateVerdict, AtGate
  <2>3. CASE MayAnswer(agentState.action.id)
    <3>1. /\ agentLog' = Append(agentLog, ToolResult(agentState.action.id, GateVerdict, {}, FALSE))
          /\ agentNode' = "finalizer" /\ agentState' = Projecting(Stop(agentState))
      BY <1>2, <2>3 DEF GateRefuses, Goto
    <3>2. /\ CalledIn(agentLog, agentState.action.id)
          /\ \A i \in Places(agentLog, "tool_result") : agentLog[i].id # agentState.action.id
      BY <2>3, FreshAnswer
    <3>3. Refusal(agentLog, agentLog')
      BY <2>2, <3>1, <3>2, Zenon DEF Refusal
    <3>4. agentState' = [[agentState EXCEPT !.status = "execution_failed"]
                            EXCEPT !.checked = agentState'.checked]
      BY <1>s, <3>1 DEF Projecting, Stop, IsState
    <3> QED
      BY <1>s, <2>1, <2>2, <3>1, <3>3, <3>4 DEF IsState
  <2>4. CASE ~MayAnswer(agentState.action.id)
    <3>1. agentNode' = "raised" /\ agentState' = agentState /\ agentLog' = agentLog
      BY <1>2, <2>4 DEF GateRefuses, Goto
    <3> QED
      BY <1>s, <2>1, <2>2, <3>1
  <2> QED
    BY <2>3, <2>4
<1>3. CASE GateAllows
  <2> DEFINE asks == NeedsApproval(agentState.action.tool)
  <2>1. /\ AtGate /\ GateVerdict = "allowed" /\ agentLog' = agentLog
        /\ UNCHANGED <<agentTask, agentQueue, agentTop>>
        /\ agentNode' = IF asks THEN "human_approval" ELSE "tool_executor"
        /\ agentState' = [agentState EXCEPT !.signatures = @ \cup {Signature(agentState.action)},
                                            !.pending = IF asks THEN "unregistered" ELSE "none"]
    BY <1>3 DEF GateAllows, Goto
  <2>2. agentNode = "policy_gate" /\ IsCall(agentState.action)
    BY <2>1 DEF AtGate, AgentPlace, AgentFailed
  <2>3. /\ Len(agentState.tools) < MaxToolCalls
        /\ agentState.action.tool = "retrieve_evidence" =>
             Successes("retrieve_evidence") < MaxRetrievalCalls
    <3>1. /\ ~(Len(agentState.tools) >= MaxToolCalls)
          /\ agentState.action.tool = "retrieve_evidence" =>
                ~(Successes("retrieve_evidence") >= MaxRetrievalCalls)
      BY <2>1 DEF GateVerdict
    <3>2. /\ Successes("retrieve_evidence") \in Nat /\ Len(agentState.tools) \in Nat
          /\ MaxToolCalls \in Nat /\ MaxRetrievalCalls \in Nat
      BY SuccessesCounted DEF AgentShape, AgentAssumption
    <3> QED
      BY <3>1, <3>2
  <2>4. /\ IsState(agentState') /\ agentState'.action = agentState.action
        /\ agentState'.tools = agentState.tools /\ agentState'.coverage = agentState.coverage
        /\ agentState'.turns = agentState.turns /\ agentState'.lastTool = agentState.lastTool
        /\ agentState'.status = agentState.status
        /\ agentState'.pending = IF asks THEN "unregistered" ELSE "none"
    BY <1>s, <2>1 DEF IsState
  <2>5. asks <=> agentState.action.tool = "stage_writing_draft"
    BY DEF NeedsApproval
  <2> HIDE DEF asks
  <2> QED
    BY <2>1, <2>2, <2>3, <2>4, <2>5
<1> QED
  BY <1>1, <1>2, <1>3

\* What is found or answered is recorded as a call's, unless the action is a draft's.
Recording(log, new, action, found) ==
    IF action.id = Internal
    THEN new = Append(log, [type |-> "internal_action_result"])
    ELSE /\ CalledIn(log, action.id) /\ \A i \in Places(log, "tool_result") : log[i].id # action.id
         /\ \E missing : new = Append(log, ToolResult(action.id, "success", found, missing))

\* A state that has just been projected agrees with its trace.
LEMMA Reprojected ==
  ASSUME agentTask' = agentTask, agentState'.checked = Projected(agentLog')
  PROVE  Agrees'
BY DEF Agrees, Projected, Projection

\* A tool that succeeds is counted and recorded together; one that fails ends the run.
LEMMA ToolSteps ==
  ASSUME AgentShape, ToolSucceeds \/ ToolFails
  PROVE  /\ agentNode = "tool_executor" /\ IsState(agentState') /\ UNCHANGED <<agentTask, agentQueue>>
         /\ agentState'.turns = agentState.turns
         /\ \/ /\ agentNode' = "raised" /\ agentLog' = agentLog /\ agentState' = agentState
               /\ agentState.action.id # Internal
            \/ /\ agentNode' = "coverage_router" /\ Agrees'
               /\ agentState'.lastTool = agentState.action.tool
               /\ agentState'.tools = agentState.tools /\ agentState'.coverage = agentState.coverage
               /\ agentState'.status = "execution_failed"
               /\ \/ agentLog' = agentLog /\ agentState.action.id = Internal
                  \/ Refusal(agentLog, agentLog')
            \/ /\ agentNode' = "coverage_router" /\ Agrees'
               /\ agentState'.lastTool = agentState.action.tool
               /\ agentState'.tools = Append(agentState.tools, agentState.action.tool)
               /\ agentState'.status = agentState.status
               /\ \E found : /\ Recording(agentLog, agentLog', agentState.action, found)
                             /\ found # {} => agentState.action.tool = "retrieve_evidence"
                             /\ IF agentState.action.tool = "retrieve_evidence"
                                THEN agentTop' = (found # {}) ELSE agentTop' = agentTop
               /\ \/ agentState'.coverage = agentState.coverage
                  \/ agentState.action.tool = "answer_grounded" /\ agentTop
<1>s. IsState(agentState)
  BY DEF AgentShape
<1>f. MayAnswer(agentState.action.id) =>
        CalledIn(agentLog, agentState.action.id) /\ \A i \in Places(agentLog, "tool_result") : agentLog[i].id # agentState.action.id
  BY FreshAnswer
<1>1. CASE ToolSucceeds
  <2> DEFINE tool == agentState.action.tool
             done == [agentState EXCEPT !.tools = Append(@, tool), !.lastTool = tool, !.pending = "none"]
             Succeed(found, missing, coverage) ==
               IF agentState.action.id = Internal \/ MayAnswer(agentState.action.id)
               THEN /\ agentLog' = Append(agentLog, SuccessEvent(found, missing))
                    /\ Goto("coverage_router", Projecting([done EXCEPT !.coverage = coverage]))
               ELSE UNCHANGED agentLog /\ Goto("raised", agentState)
  <2>1. /\ agentNode = "tool_executor" /\ CanRun(tool) /\ UNCHANGED <<agentTask, agentQueue>>
        /\ \/ /\ tool = "retrieve_evidence"
              /\ \E found \in {{}, {agentState.action.args}} :
                    agentTop' = (found # {}) /\ Succeed(found, FALSE, agentState.coverage)
           \/ /\ tool = "answer_grounded"
              /\ \E answer \in AnswerCoverages :
                    Succeed({}, answer \in {"partial", "none"},
                            IF answer = "execution_failed" THEN agentState.coverage ELSE answer)
              /\ UNCHANGED agentTop
           \/ /\ tool \notin {"retrieve_evidence", "answer_grounded"}
              /\ Succeed({}, FALSE, agentState.coverage)
              /\ UNCHANGED agentTop
    BY <1>1 DEF ToolSucceeds
  <2> HIDE DEF Succeed
  <2>2. \E found, missing, coverage :
            /\ Succeed(found, missing, coverage)
            /\ found # {} => tool = "retrieve_evidence"
            /\ IF tool = "retrieve_evidence" THEN agentTop' = (found # {}) ELSE agentTop' = agentTop
            /\ coverage = agentState.coverage \/ (tool = "answer_grounded" /\ agentTop)
    <3>1. CASE tool = "retrieve_evidence"
      <4>1. PICK found \in {{}, {agentState.action.args}} :
                agentTop' = (found # {}) /\ Succeed(found, FALSE, agentState.coverage)
        BY <2>1, <3>1
      <4> QED
        BY <3>1, <4>1
    <3>2. CASE tool = "answer_grounded"
      <4>1. PICK answer \in AnswerCoverages :
                Succeed({}, answer \in {"partial", "none"},
                        IF answer = "execution_failed" THEN agentState.coverage ELSE answer)
        BY <2>1, <3>2
      <4>2. agentTop /\ agentTop' = agentTop
        BY <2>1, <3>2 DEF CanRun
      <4> QED
        BY <3>2, <4>1, <4>2
    <3>3. CASE tool \notin {"retrieve_evidence", "answer_grounded"}
      <4>1. Succeed({}, FALSE, agentState.coverage) /\ agentTop' = agentTop
        BY <2>1, <3>3
      <4> QED
        BY <3>3, <4>1
    <3> QED
      BY <3>1, <3>2, <3>3
  <2>3. PICK found, missing, coverage :
            /\ Succeed(found, missing, coverage)
            /\ found # {} => tool = "retrieve_evidence"
            /\ IF tool = "retrieve_evidence" THEN agentTop' = (found # {}) ELSE agentTop' = agentTop
            /\ coverage = agentState.coverage \/ (tool = "answer_grounded" /\ agentTop)
    BY <2>2
  <2>4. CASE agentState.action.id = Internal \/ MayAnswer(agentState.action.id)
    <3>1. /\ agentLog' = Append(agentLog, SuccessEvent(found, missing))
          /\ agentNode' = "coverage_router"
          /\ agentState' = Projecting([done EXCEPT !.coverage = coverage])
      BY <2>3, <2>4 DEF Succeed, Goto
    <3>2. /\ IsState(agentState') /\ agentState'.turns = agentState.turns
          /\ agentState'.lastTool = tool /\ agentState'.tools = Append(agentState.tools, tool)
          /\ agentState'.status = agentState.status /\ agentState'.coverage = coverage
          /\ agentState'.checked = Projected(agentLog')
      BY <1>s, <3>1 DEF Projecting, IsState
    <3>3. Recording(agentLog, agentLog', agentState.action, found)
      BY <1>f, <2>4, <3>1 DEF Recording, SuccessEvent
    <3>4. Agrees'
      BY <2>1, <3>2, Reprojected
    <3> QED
      BY <2>1, <2>3, <3>1, <3>2, <3>3, <3>4
  <2>5. CASE ~(agentState.action.id = Internal \/ MayAnswer(agentState.action.id))
    <3>1. agentLog' = agentLog /\ agentNode' = "raised" /\ agentState' = agentState
      BY <2>3, <2>5 DEF Succeed, Goto
    <3> QED
      BY <1>s, <2>1, <2>5, <3>1
  <2> QED
    BY <2>4, <2>5
<1>2. CASE ToolFails
  <2> DEFINE failed == [[agentState EXCEPT !.status = "execution_failed"]
                          EXCEPT !.lastTool = agentState.action.tool]
  <2>1. /\ agentNode = "tool_executor" /\ UNCHANGED <<agentTask, agentQueue>>
        /\ IF agentState.action.id = Internal
           THEN UNCHANGED agentLog /\ Goto("coverage_router", Projecting(failed))
           ELSE IF MayAnswer(agentState.action.id)
           THEN /\ agentLog' = Append(agentLog, ToolResult(agentState.action.id, "execution_error", {}, FALSE))
                /\ Goto("coverage_router", Projecting(failed))
           ELSE UNCHANGED agentLog /\ Goto("raised", agentState)
    BY <1>2 DEF ToolFails, Stop
  <2>2. CASE /\ agentNode' = "raised" /\ agentState' = agentState /\ agentLog' = agentLog
             /\ agentState.action.id # Internal
    BY <1>s, <2>1, <2>2
  <2>3. CASE /\ agentNode' = "coverage_router" /\ agentState' = Projecting(failed)
             /\ \/ agentLog' = agentLog /\ agentState.action.id = Internal
                \/ /\ MayAnswer(agentState.action.id)
                   /\ agentLog' = Append(agentLog, ToolResult(agentState.action.id, "execution_error", {}, FALSE))
    <3>1. /\ IsState(agentState') /\ agentState'.turns = agentState.turns
          /\ agentState'.lastTool = agentState.action.tool /\ agentState'.tools = agentState.tools
          /\ agentState'.status = "execution_failed" /\ agentState'.coverage = agentState.coverage
          /\ agentState'.checked = Projected(agentLog')
      BY <1>s, <2>3 DEF Projecting, IsState
    <3>2. \/ agentLog' = agentLog /\ agentState.action.id = Internal
          \/ Refusal(agentLog, agentLog')
      <4>1. "execution_error" # "success"
        OBVIOUS
      <4> QED
        BY <1>f, <2>3, <4>1, Zenon DEF Refusal
    <3>3. Agrees'
      BY <2>1, <3>1, Reprojected
    <3> QED
      BY <2>1, <2>3, <3>1, <3>2, <3>3
  <2> QED
    BY <2>1, <2>2, <2>3 DEF Goto
<1> QED
  BY <1>1, <1>2

\* A projection that knows evidence is that of a log which tells it.
LEMMA RetrievedIsBacked ==
  ASSUME NEW log, Projection(log).retrieved # {}
  PROVE  Backed(log)
<1> DEFINE good == {i \in DOMAIN log : log[i].type = "tool_result" /\ log[i].status = "success"}
           Good == {i \in good : ToolOf(log, log[i].id) = "retrieve_evidence"}
<1>1. good = SuccessPlaces(log)
  BY DEF SuccessPlaces, Places
<1>2. Projection(log).retrieved = UNION {log[i].found : i \in Good}
  <2>1. {i \in {j \in DOMAIN log : log[j].type = "tool_result"} : log[i].status = "success"} = good
    OBVIOUS
  <2> HIDE DEF good
  <2> QED
    BY <2>1 DEF Projection
<1>3. \E i \in Good : log[i].found # {}
  BY <1>2
<1> QED
  BY <1>1, <1>3 DEF Backed

\* The router sends a run on, to the end, or to the author: never on after a failure, and with
\* a coverage of its own only where the log has evidence.
LEMMA RouterSteps ==
  ASSUME AgentShape, RouteToApproval \/ RouteOnBudget \/ RouteOn
  PROVE  /\ agentNode = "coverage_router" /\ IsState(agentState')
         /\ UNCHANGED <<agentTask, agentQueue, agentTop>>
         /\ agentState'.turns = agentState.turns /\ agentState'.tools = agentState.tools
         /\ agentState'.lastTool = agentState.lastTool /\ agentState'.checked = agentState.checked
         /\ agentState'.status \in {agentState.status, "insufficient_evidence"}
         /\ \/ /\ agentState.lastTool = "query_evidence_matrix"
               /\ agentState'.coverage = agentState.coverage /\ agentState'.status = agentState.status
               /\ \/ agentNode' = "finalizer"
                  \/ agentNode' = "human_approval" /\ agentState'.pending = "registered" /\ ~AgentFailed
               /\ agentLog' = IF Recorded("approval_requested") = {}
                              THEN Append(agentLog, [type |-> "approval_requested"]) ELSE agentLog
            \/ /\ Silent(agentLog, agentLog')
               /\ \/ agentNode' = "finalizer"
                  \/ /\ agentNode' = "planner" /\ ~AgentFailed
                     /\ agentState.lastTool # "stage_writing_draft"
               /\ \/ agentState'.coverage \in {agentState.coverage, "none"}
                  \/ Backed(agentLog)
<1>s. IsState(agentState) /\ IsLog(agentLog)
  BY DEF AgentShape
<1>u. Silent(agentLog, agentLog)
  BY <1>s, Unchanged
<1>1. CASE RouteToApproval
  <2>1. /\ agentNode = "coverage_router" /\ agentState.lastTool = "query_evidence_matrix"
        /\ agentLog' = IF Recorded("approval_requested") = {}
                       THEN Append(agentLog, [type |-> "approval_requested"]) ELSE agentLog
        /\ agentNode' = IF agentState.status = "execution_failed" THEN "finalizer" ELSE "human_approval"
        /\ agentState' = [agentState EXCEPT !.action = NoAction, !.pending = "registered"]
        /\ UNCHANGED <<agentTask, agentQueue, agentTop>>
    BY <1>1 DEF RouteToApproval, AtRouter, AsksDraft, Goto
  <2>2. /\ IsState(agentState') /\ agentState'.pending = "registered"
        /\ agentState'.turns = agentState.turns /\ agentState'.tools = agentState.tools
        /\ agentState'.lastTool = agentState.lastTool /\ agentState'.checked = agentState.checked
        /\ agentState'.status = agentState.status /\ agentState'.coverage = agentState.coverage
    BY <1>s, <2>1 DEF IsState
  <2> QED
    BY <2>1, <2>2 DEF AgentFailed
<1>2. CASE RouteOnBudget
  <2> DEFINE route == CoverageRoute(Projection(agentLog))
             failed == agentState.status = "execution_failed"
  <2>1. /\ agentNode = "coverage_router" /\ agentState.lastTool = "retrieve_evidence"
        /\ UNCHANGED <<agentTask, agentQueue, agentTop>>
        /\ IF route = "none"
           THEN /\ agentNode' = "finalizer" /\ agentLog' = agentLog
                /\ agentState' = [agentState EXCEPT !.coverage = "none", !.status = "insufficient_evidence"]
           ELSE /\ agentNode' = IF failed THEN "finalizer" ELSE "planner"
                /\ agentState' = [agentState EXCEPT !.coverage = route]
                /\ agentLog' = IF Recorded("steering") = {}
                               THEN Append(agentLog, [type |-> "steering"]) ELSE agentLog
    BY <1>2 DEF RouteOnBudget, AtRouter, SoftBudgetReached, Goto
  <2>2. route # "none" => Backed(agentLog)
    <3>1. route # "none" => Projection(agentLog).retrieved # {}
      BY DEF CoverageRoute
    <3> QED
      BY <3>1, RetrievedIsBacked
  <2>3. Silent(agentLog, agentLog')
    <3>1. [type |-> "steering"].type \notin Telling
      BY DEF Telling
    <3>2. Silent(agentLog, Append(agentLog, [type |-> "steering"]))
      BY <1>s, <3>1, SilentEvent
    <3> QED
      BY <1>u, <2>1, <3>2
  <2> HIDE DEF route
  <2>4. /\ IsState(agentState')
        /\ agentState'.turns = agentState.turns /\ agentState'.tools = agentState.tools
        /\ agentState'.lastTool = agentState.lastTool /\ agentState'.checked = agentState.checked
        /\ IF route = "none"
           THEN agentState'.status = "insufficient_evidence" /\ agentState'.coverage = "none"
           ELSE agentState'.status = agentState.status /\ agentState'.coverage = route
    BY <1>s, <2>1 DEF IsState
  <2>5. agentState'.coverage \in {agentState.coverage, "none"} \/ Backed(agentLog)
    BY <2>2, <2>4
  <2>6. \/ agentNode' = "finalizer"
        \/ agentNode' = "planner" /\ ~AgentFailed
    BY <2>1 DEF AgentFailed
  <2>7. agentState'.status \in {agentState.status, "insufficient_evidence"}
    BY <2>4
  <2>8. agentState.lastTool # "stage_writing_draft"
    BY <2>1
  <2> QED
    BY <2>1, <2>3, <2>4, <2>5, <2>6, <2>7, <2>8
<1>3. CASE RouteOn
  <2>1. /\ agentNode = "coverage_router" /\ agentLog' = agentLog /\ agentState' = agentState
        /\ agentNode' = IF agentState.status = "execution_failed" \/ agentState.lastTool \in LastTools
                        THEN "finalizer" ELSE "planner"
        /\ UNCHANGED <<agentTask, agentQueue, agentTop>>
    BY <1>3 DEF RouteOn, AtRouter, Goto
  <2> QED
    BY <1>s, <1>u, <2>1 DEF AgentFailed, LastTools
<1> QED
  BY <1>1, <1>2, <1>3

\* The author decides a run that waits; the draft then needs no gate.
LEMMA AuthorSteps ==
  ASSUME AgentShape, ResumeRaises \/ \E approved \in BOOLEAN : Resume(approved)
  PROVE  /\ agentNode = "human_approval" /\ IsState(agentState')
         /\ UNCHANGED <<agentTask, agentQueue, agentTop>>
         /\ agentState'.turns = agentState.turns /\ agentState'.tools = agentState.tools
         /\ agentState'.lastTool = agentState.lastTool /\ agentState'.coverage = agentState.coverage
         /\ \/ /\ agentNode' = "raised" /\ agentState' = agentState /\ agentLog' = agentLog
            \/ /\ Paused /\ ~Decided /\ agentNode' = "tool_executor" /\ agentState'.action = StageDraft
               /\ agentState'.status = agentState.status
               /\ agentLog' = agentLog \o <<[type |-> "approval_decision", approved |-> TRUE],
                                            [type |-> "internal_action_scheduled"]>>
            \/ /\ Paused /\ ~Decided /\ agentNode' = "finalizer" /\ agentState'.status = "author_rejected"
               /\ agentLog' = Append(agentLog, [type |-> "approval_decision", approved |-> FALSE])
<1>s. IsState(agentState)
  BY DEF AgentShape
<1>1. CASE ResumeRaises
  BY <1>1, <1>s DEF ResumeRaises, Goto
<1>2. ASSUME NEW approved \in BOOLEAN, Resume(approved)
      PROVE  /\ Paused /\ ~Decided /\ UNCHANGED <<agentTask, agentQueue, agentTop>>
             /\ \/ /\ agentNode' = "tool_executor"
                   /\ agentState' = [agentState EXCEPT !.action = StageDraft, !.decision = "approved"]
                   /\ agentLog' = agentLog \o <<[type |-> "approval_decision", approved |-> TRUE],
                                                [type |-> "internal_action_scheduled"]>>
                \/ /\ agentNode' = "finalizer"
                   /\ agentState' = [agentState EXCEPT !.decision = "rejected", !.status = "author_rejected"]
                   /\ agentLog' = Append(agentLog, [type |-> "approval_decision", approved |-> FALSE])
  BY <1>2 DEF Resume, Goto, Paused
<1>3. CASE /\ Paused /\ ~Decided /\ UNCHANGED <<agentTask, agentQueue, agentTop>>
           /\ agentNode' = "tool_executor"
           /\ agentState' = [agentState EXCEPT !.action = StageDraft, !.decision = "approved"]
           /\ agentLog' = agentLog \o <<[type |-> "approval_decision", approved |-> TRUE],
                                        [type |-> "internal_action_scheduled"]>>
  BY <1>3, <1>s DEF IsState, Paused
<1>4. CASE /\ Paused /\ ~Decided /\ UNCHANGED <<agentTask, agentQueue, agentTop>>
           /\ agentNode' = "finalizer"
           /\ agentState' = [agentState EXCEPT !.decision = "rejected", !.status = "author_rejected"]
           /\ agentLog' = Append(agentLog, [type |-> "approval_decision", approved |-> FALSE])
  BY <1>4, <1>s DEF IsState, Paused
<1> QED
  BY <1>1, <1>2, <1>3, <1>4

\* The run ends with the status it has, or with one for what it has found.
LEMMA FinalizeStep ==
  ASSUME AgentShape, Finalize
  PROVE  /\ agentNode = "finalizer" /\ agentNode' = "done" /\ IsState(agentState')
         /\ UNCHANGED <<agentTask, agentQueue, agentTop, agentLog>>
         /\ agentState'.turns = agentState.turns /\ agentState'.tools = agentState.tools
         /\ agentState'.lastTool = agentState.lastTool /\ agentState'.coverage = agentState.coverage
         /\ IF agentState.status = "none"
            THEN agentState'.status \in {"complete", "partial"} =>
                    \/ agentState.lastTool = "stage_writing_draft"
                    \/ agentState.coverage \in {"complete", "partial"}
            ELSE agentState'.status = agentState.status
<1>s. IsState(agentState)
  BY DEF AgentShape
<1>1. /\ agentNode = "finalizer" /\ agentNode' = "done"
      /\ agentState' = [agentState EXCEPT !.status = FinalStatus]
      /\ UNCHANGED <<agentTask, agentQueue, agentTop, agentLog>>
  BY DEF Finalize, Goto
<1>2. /\ IsState(agentState') /\ agentState'.status = FinalStatus
      /\ agentState'.turns = agentState.turns /\ agentState'.tools = agentState.tools
      /\ agentState'.lastTool = agentState.lastTool /\ agentState'.coverage = agentState.coverage
  BY <1>s, <1>1 DEF IsState
<1>3. CASE agentState.status = "none"
  <2>1. FinalStatus = IF agentState.lastTool = "stage_writing_draft" \/ agentState.coverage = "complete"
                      THEN "complete"
                      ELSE IF agentState.coverage = "partial" THEN "partial" ELSE "insufficient_evidence"
    BY <1>3 DEF FinalStatus
  <2> QED
    BY <1>1, <1>2, <1>3, <2>1
<1>4. CASE agentState.status # "none"
  <2>1. FinalStatus = agentState.status
    BY <1>4 DEF FinalStatus
  <2> QED
    BY <1>1, <1>2, <1>4, <2>1
<1> QED
  BY <1>3, <1>4

\* A run starts with a clean state and a log that tells nothing.
LEMMA AgentStarts ==
  ASSUME AgentShape, AgentPlace, AgentStart
  PROVE  /\ agentNode = "idle" /\ agentNode' \in {"done", "planner"} /\ IsState(agentState')
         /\ UNCHANGED <<agentQueue, agentTop>> /\ Silent(agentLog, agentLog')
         /\ agentState'.turns = agentState.turns /\ agentState'.tools = agentState.tools
         /\ agentState'.lastTool = agentState.lastTool /\ agentState'.coverage = agentState.coverage
         /\ agentState'.status \in {agentState.status, "policy_rejected"}
<1>s. IsLog(agentLog)
  BY DEF AgentShape
<1>1. agentNode = "idle" /\ agentLog = <<>> /\ agentState = InitialAgentState
  BY DEF AgentStart, AgentPlace
<1>2. /\ agentNode' \in {"done", "planner"} /\ UNCHANGED <<agentQueue, agentTop>>
      /\ \/ agentState' = InitialAgentState
         \/ agentState' = [InitialAgentState EXCEPT !.status = "policy_rejected"]
      /\ agentLog' = <<[type |-> "turn_started"]>>
  BY DEF AgentStart, Goto
<1>3. Silent(agentLog, agentLog')
  <2>1. agentLog' = Append(agentLog, [type |-> "turn_started"])
    BY <1>1, <1>2
  <2>2. [type |-> "turn_started"].type \notin Telling
    BY DEF Telling
  <2> QED
    BY <1>s, <2>1, <2>2, SilentEvent
<1>4. /\ IsState(agentState')
      /\ agentState'.turns = agentState.turns /\ agentState'.tools = agentState.tools
      /\ agentState'.lastTool = agentState.lastTool /\ agentState'.coverage = agentState.coverage
      /\ agentState'.status \in {agentState.status, "policy_rejected"}
  BY <1>1, <1>2 DEF InitialAgentState, IsState
<1> QED
  BY <1>1, <1>2, <1>3, <1>4

---------------------------------------------------------------------------
(* What a step makes of the log *)

KeepsResults(old, new) ==
    /\ Extends(old, new)
    /\ Places(new, "internal_action_result") = Places(old, "internal_action_result")
    /\ SuccessPlaces(new) = SuccessPlaces(old)
    /\ Backed(new) <=> Backed(old)
    /\ SoundAnswers(old) => SoundAnswers(new)
KeepsApprovals(old, new) ==
    \A type \in {"approval_requested", "approval_decision"} : Places(new, type) = Places(old, type)

\* What one more event adds to the places of a log.
Adds(log, new, e) ==
    /\ \A type : type # e.type => Places(new, type) = Places(log, type)
    /\ Places(new, e.type) = Places(log, e.type) \cup {Len(log) + 1}
    /\ IF e.type = "tool_result" /\ e.status = "success"
       THEN SuccessPlaces(new) = SuccessPlaces(log) \cup {Len(log) + 1}
       ELSE SuccessPlaces(new) = SuccessPlaces(log)

LEMMA LastPlace ==
  ASSUME NEW log, IsLog(log), NEW new, Extends(log, new), Len(new) = Len(log) + 1
  PROVE  Adds(log, new, new[Len(log) + 1])
<1> DEFINE n == Len(log) + 1
           e == new[n]
<1>1. /\ DOMAIN log = 1..Len(log) /\ DOMAIN new = 1..n /\ Len(log) \in Nat
      /\ \A i \in 1..Len(log) : new[i] = log[i]
  BY DEF IsLog, Extends
<1>2. \A i : i \in DOMAIN new <=> i \in DOMAIN log \/ i = n
  BY <1>1
<1>3. n \notin DOMAIN log /\ \A i \in DOMAIN log : new[i] = log[i]
  BY <1>1
<1> HIDE DEF n
<1>4. \A type : type # e.type => Places(new, type) = Places(log, type)
  BY <1>2, <1>3 DEF Places
<1>5. Places(new, e.type) = Places(log, e.type) \cup {n}
  BY <1>2, <1>3 DEF Places
<1>6. \A i \in Places(log, "tool_result") : new[i] = log[i]
  BY <1>3 DEF Places
<1> HIDE DEF e
<1>7. CASE e.type = "tool_result"
  <2>1. Places(new, "tool_result") = Places(log, "tool_result") \cup {n}
    BY <1>5, <1>7
  <2>2. n \notin Places(log, "tool_result")
    BY <1>3 DEF Places
  <2>3. CASE e.status = "success"
    <3>1. SuccessPlaces(new) = SuccessPlaces(log) \cup {n}
      BY <1>6, <2>1, <2>2, <2>3 DEF SuccessPlaces, e
    <3> QED
      BY <1>4, <1>5, <1>7, <2>3, <3>1 DEF Adds, n, e
  <2>4. CASE e.status # "success"
    <3>1. SuccessPlaces(new) = SuccessPlaces(log)
      BY <1>6, <2>1, <2>2, <2>4 DEF SuccessPlaces, e
    <3> QED
      BY <1>4, <1>5, <1>7, <2>4, <3>1 DEF Adds, n, e
  <2> QED
    BY <2>3, <2>4
<1>8. CASE e.type # "tool_result"
  <2>1. Places(new, "tool_result") = Places(log, "tool_result")
    BY <1>4, <1>8
  <2>2. SuccessPlaces(new) = SuccessPlaces(log)
    BY <1>6, <2>1 DEF SuccessPlaces
  <2> QED
    BY <1>4, <1>5, <1>8, <2>2 DEF Adds, n, e
<1> QED
  BY <1>7, <1>8

\* The same of an event appended.
LEMMA EventPlaces ==
  ASSUME NEW log, IsLog(log), NEW e, NEW new, new = Append(log, e)
  PROVE  Adds(log, new, e)
<1>1. Extends(log, new) /\ Len(new) = Len(log) + 1 /\ new[Len(log) + 1] = e
  BY OneMore
<1> QED
  BY <1>1, LastPlace, Zenon

\* The places of a log are among its positions.
LEMMA PlacesWithin ==
  ASSUME NEW log, IsLog(log)
  PROVE  /\ Len(log) \in Nat /\ \A type : Places(log, type) \subseteq 1..Len(log)
         /\ SuccessPlaces(log) \subseteq 1..Len(log)
         /\ \A i \in SuccessPlaces(log) : log[i].type = "tool_result" /\ log[i].status = "success"
         /\ \A type : \A i \in Places(log, type) : log[i].type = type
BY ListFacts DEF Places, SuccessPlaces

\* A call that was logged stays logged.
LEMMA CallsStay ==
  ASSUME NEW old, IsLog(old), NEW new, Extends(old, new)
  PROVE  \A id : CalledIn(old, id) => CalledIn(new, id)
<1>1. \A type : \A i \in Places(old, type) : i \in Places(new, type) /\ new[i] = old[i]
  BY PlacesGrow, PlacesWithin DEF Extends
<1> QED
  BY <1>1 DEF CalledIn

\* Results that stay as they are stay sound.
LEMMA AnswersStaySound ==
  ASSUME NEW old, IsLog(old), NEW new, Extends(old, new), SoundAnswers(old),
         Places(new, "tool_result") = Places(old, "tool_result")
  PROVE  SoundAnswers(new)
<1>1. \A i \in Places(old, "tool_result") : new[i] = old[i]
  BY PlacesWithin DEF Extends
<1>2. \A id : CalledIn(old, id) => CalledIn(new, id)
  BY CallsStay
<1> QED
  BY <1>1, <1>2 DEF SoundAnswers, DistinctAnswers

\* An event that is neither a result nor a draft keeps the results.
LEMMA OtherEventKeeps ==
  ASSUME NEW log, IsLog(log), NEW e, e.type \notin {"tool_result", "internal_action_result"}
  PROVE  KeepsResults(log, Append(log, e))
<1> DEFINE new == Append(log, e)
<1>1. Extends(log, new)
  BY OneMore
<1>2. new = Append(log, e)
  OBVIOUS
<1> HIDE DEF new
<1>3. Adds(log, new, e)
  BY <1>2, EventPlaces
<1>4. /\ Places(new, "internal_action_result") = Places(log, "internal_action_result")
      /\ Places(new, "tool_result") = Places(log, "tool_result")
  BY <1>3 DEF Adds
<1>5. SuccessPlaces(new) = SuccessPlaces(log)
  BY <1>3 DEF Adds
<1>6. \A i \in SuccessPlaces(log) : new[i] = log[i]
  BY <1>1, PlacesWithin DEF Extends
<1>8. Backed(new) <=> Backed(log)
  BY <1>5, <1>6 DEF Backed
<1>9. SoundAnswers(log) => SoundAnswers(new)
  BY <1>1, <1>4, AnswersStaySound
<1>10. KeepsResults(log, new)
  BY <1>1, <1>4, <1>5, <1>8, <1>9 DEF KeepsResults
<1> QED
  BY <1>10 DEF new

\* Silence keeps results and approvals.
LEMMA SilenceKeepsAll ==
  ASSUME NEW old, IsLog(old), NEW new, Silent(old, new)
  PROVE  KeepsResults(old, new) /\ KeepsApprovals(old, new)
<1>1. /\ \A type \in Telling : Places(new, type) = Places(old, type)
      /\ SuccessPlaces(new) = SuccessPlaces(old)
      /\ \A type \in Telling : \A i \in Places(old, type) : new[i] = old[i]
      /\ Backed(new) <=> Backed(old)
  BY SilenceKeeps
<1>2. {"tool_result", "internal_action_result", "approval_requested", "approval_decision"} \subseteq Telling
  BY DEF Telling
<1>3. Extends(old, new)
  BY DEF Silent
<1>4. SoundAnswers(old) => SoundAnswers(new)
  BY <1>1, <1>2, <1>3, AnswersStaySound
<1> QED
  BY <1>1, <1>2, <1>3, <1>4 DEF KeepsResults, KeepsApprovals

\* A call that nothing answers may be answered.
LEMMA FreshStaysSound ==
  ASSUME NEW log, IsLog(log), NEW e, e.type = "tool_result", SoundAnswers(log), CalledIn(log, e.id),
         \A i \in Places(log, "tool_result") : log[i].id # e.id
  PROVE  SoundAnswers(Append(log, e))
<1> DEFINE new == Append(log, e)
<1>2. Extends(log, new) /\ new[Len(log) + 1] = e
  BY OneMore
<1>n. new = Append(log, e)
  OBVIOUS
<1> HIDE DEF new
<1>1. Places(new, "tool_result") = Places(log, "tool_result") \cup {Len(log) + 1}
  <2>1. Adds(log, new, e)
    BY <1>n, EventPlaces
  <2> QED
    BY <2>1 DEF Adds
<1>3. \A i \in Places(log, "tool_result") : new[i] = log[i]
  BY <1>2, PlacesWithin DEF Extends
<1>4. \A id : CalledIn(log, id) => CalledIn(new, id)
  BY <1>2, CallsStay
<1>5. DistinctAnswers(new)
  BY <1>1, <1>2, <1>3 DEF SoundAnswers, DistinctAnswers
<1>6. \A i \in Places(new, "tool_result") : CalledIn(new, new[i].id)
  BY <1>1, <1>2, <1>3, <1>4 DEF SoundAnswers
<1>7. SoundAnswers(new)
  BY <1>5, <1>6 DEF SoundAnswers
<1> QED
  BY <1>7 DEF new

\* A refusal answers its call and changes nothing else.
LEMMA RefusalKeeps ==
  ASSUME NEW log, IsLog(log), NEW new, Refusal(log, new)
  PROVE  KeepsResults(log, new) /\ KeepsApprovals(log, new)
<1>1. PICK id, verdict :
        /\ verdict # "success" /\ CalledIn(log, id)
        /\ \A i \in Places(log, "tool_result") : log[i].id # id
        /\ new = Append(log, ToolResult(id, verdict, {}, FALSE))
  BY DEF Refusal
<1> DEFINE e == ToolResult(id, verdict, {}, FALSE)
<1>2. e.type = "tool_result" /\ e.id = id /\ e.status # "success"
  BY <1>1 DEF ToolResult
<1> HIDE DEF e
<1>3. new = Append(log, e)
  BY <1>1 DEF e
<1>4. Extends(log, new)
  BY <1>3, OneMore
<1>5. Adds(log, new, e)
  BY <1>3, EventPlaces
<1>6. /\ SuccessPlaces(new) = SuccessPlaces(log)
      /\ Places(new, "internal_action_result") = Places(log, "internal_action_result")
      /\ Places(new, "approval_requested") = Places(log, "approval_requested")
      /\ Places(new, "approval_decision") = Places(log, "approval_decision")
  <2>1. SuccessPlaces(new) = SuccessPlaces(log)
    BY <1>2, <1>5 DEF Adds
  <2>2. \A type : type # "tool_result" => Places(new, type) = Places(log, type)
    BY <1>2, <1>5 DEF Adds
  <2> QED
    BY <2>1, <2>2
<1>7. \A i \in SuccessPlaces(log) : new[i] = log[i]
  BY <1>4, PlacesWithin DEF Extends
<1>8. Backed(new) <=> Backed(log)
  BY <1>6, <1>7 DEF Backed
<1>9. SoundAnswers(log) => SoundAnswers(new)
  BY <1>1, <1>2, <1>3, FreshStaysSound
<1> QED
  BY <1>4, <1>6, <1>8, <1>9 DEF KeepsResults, KeepsApprovals

\* A success leaves one more draft, or one more successful result, behind.
LEMMA RecordingTells ==
  ASSUME NEW log, IsLog(log), NEW new, NEW action, NEW found, Recording(log, new, action, found)
  PROVE  /\ Extends(log, new) /\ KeepsApprovals(log, new) /\ Len(new) = Len(log) + 1
         /\ SoundAnswers(log) => SoundAnswers(new)
         /\ IF action.id = Internal
            THEN /\ Places(new, "internal_action_result") =
                        Places(log, "internal_action_result") \cup {Len(log) + 1}
                 /\ SuccessPlaces(new) = SuccessPlaces(log) /\ (Backed(new) <=> Backed(log))
            ELSE /\ Places(new, "internal_action_result") = Places(log, "internal_action_result")
                 /\ SuccessPlaces(new) = SuccessPlaces(log) \cup {Len(log) + 1}
                 /\ Backed(new) <=> Backed(log) \/ found # {}
<1>1. CASE action.id = Internal
  <2> DEFINE e == [type |-> "internal_action_result"]
  <2>1. new = Append(log, e) /\ e.type = "internal_action_result"
    BY <1>1 DEF Recording
  <2> HIDE DEF e
  <2>2. Extends(log, new) /\ Len(new) = Len(log) + 1
    BY <2>1, OneMore
  <2>3. Adds(log, new, e)
    BY <2>1, EventPlaces
  <2>4. /\ SuccessPlaces(new) = SuccessPlaces(log)
        /\ Places(new, "tool_result") = Places(log, "tool_result")
        /\ Places(new, "internal_action_result") = Places(log, "internal_action_result") \cup {Len(log) + 1}
        /\ Places(new, "approval_requested") = Places(log, "approval_requested")
        /\ Places(new, "approval_decision") = Places(log, "approval_decision")
    <3>1. SuccessPlaces(new) = SuccessPlaces(log)
      BY <2>1, <2>3 DEF Adds
    <3>2. \A type : type # "internal_action_result" => Places(new, type) = Places(log, type)
      BY <2>1, <2>3 DEF Adds
    <3>3. Places(new, "internal_action_result") =
              Places(log, "internal_action_result") \cup {Len(log) + 1}
      BY <2>1, <2>3 DEF Adds
    <3> QED
      BY <3>1, <3>2, <3>3
  <2>5. \A i \in SuccessPlaces(log) : new[i] = log[i]
    BY <2>2, PlacesWithin DEF Extends
  <2>7. Backed(new) <=> Backed(log)
    BY <2>4, <2>5 DEF Backed
  <2>8. SoundAnswers(log) => SoundAnswers(new)
    BY <2>2, <2>4, AnswersStaySound
  <2> QED
    BY <1>1, <2>2, <2>4, <2>7, <2>8 DEF KeepsApprovals
<1>2. CASE action.id # Internal
  <2>1. PICK missing : new = Append(log, ToolResult(action.id, "success", found, missing))
    BY <1>2 DEF Recording
  <2> DEFINE e == ToolResult(action.id, "success", found, missing)
  <2>2. e.type = "tool_result" /\ e.id = action.id /\ e.status = "success" /\ e.found = found
    BY DEF ToolResult
  <2>3. CalledIn(log, action.id) /\ \A i \in Places(log, "tool_result") : log[i].id # action.id
    BY <1>2 DEF Recording
  <2> HIDE DEF e
  <2>4. new = Append(log, e)
    BY <2>1 DEF e
  <2>5. Extends(log, new) /\ Len(new) = Len(log) + 1 /\ new[Len(log) + 1] = e
    BY <2>4, OneMore
  <2>6. Adds(log, new, e)
    BY <2>4, EventPlaces
  <2>7. /\ SuccessPlaces(new) = SuccessPlaces(log) \cup {Len(log) + 1}
        /\ Places(new, "internal_action_result") = Places(log, "internal_action_result")
        /\ Places(new, "approval_requested") = Places(log, "approval_requested")
        /\ Places(new, "approval_decision") = Places(log, "approval_decision")
    <3>1. SuccessPlaces(new) = SuccessPlaces(log) \cup {Len(log) + 1}
      BY <2>2, <2>6 DEF Adds
    <3>2. \A type : type # "tool_result" => Places(new, type) = Places(log, type)
      BY <2>2, <2>6 DEF Adds
    <3> QED
      BY <3>1, <3>2
  <2>8. \A i \in SuccessPlaces(log) : new[i] = log[i]
    BY <2>5, PlacesWithin DEF Extends
  <2>9. Backed(new) <=> Backed(log) \/ found # {}
    BY <2>2, <2>5, <2>7, <2>8 DEF Backed
  <2>10. SoundAnswers(log) => SoundAnswers(new)
    BY <2>2, <2>3, <2>4, FreshStaysSound
  <2> QED
    BY <1>2, <2>5, <2>7, <2>9, <2>10 DEF KeepsApprovals
<1> QED
  BY <1>1, <1>2

---------------------------------------------------------------------------
(* The parts of the invariant *)

\* A tool that succeeded, or a step that counts nothing.
Counted ==
    /\ agentNode = "tool_executor" /\ agentNode' = "coverage_router"
    /\ agentState'.lastTool = agentState.action.tool
    /\ agentState'.tools = Append(agentState.tools, agentState.action.tool)
    /\ agentState'.status = agentState.status
    /\ \E found : /\ Recording(agentLog, agentLog', agentState.action, found)
                  /\ found # {} => agentState.action.tool = "retrieve_evidence"
                  /\ IF agentState.action.tool = "retrieve_evidence"
                     THEN agentTop' = (found # {}) ELSE agentTop' = agentTop
    /\ \/ agentState'.coverage = agentState.coverage
       \/ agentState.action.tool = "answer_grounded" /\ agentTop
Uncounted == agentState'.tools = agentState.tools /\ KeepsResults(agentLog, agentLog')

\* An approval and the action it schedules add one decision.
LEMMA DecisionKeeps ==
  ASSUME NEW log, IsLog(log),
         NEW new, new = log \o <<[type |-> "approval_decision", approved |-> TRUE],
                                 [type |-> "internal_action_scheduled"]>>
  PROVE  /\ KeepsResults(log, new) /\ Len(new) = Len(log) + 2 /\ new[Len(log) + 1].approved
         /\ Places(new, "approval_requested") = Places(log, "approval_requested")
         /\ Places(new, "approval_decision") = Places(log, "approval_decision") \cup {Len(log) + 1}
<1> DEFINE d == [type |-> "approval_decision", approved |-> TRUE]
           s == [type |-> "internal_action_scheduled"]
           mid == Append(log, d)
<1>1. new = Append(mid, s)
  <2>1. PICK S : log \in Seq(S)
    BY DEF IsLog
  <2>2. \A T, x, y : log \in Seq(T) /\ x \in T /\ y \in T =>
            log \o <<x, y>> = Append(Append(log, x), y)
    OBVIOUS
  <2>3. log \in Seq(S \cup {d, s})
    BY <2>1
  <2> HIDE DEF d, s
  <2>4. log \o <<d, s>> = Append(Append(log, d), s)
    BY <2>2, <2>3
  <2> QED
    BY <2>4 DEF mid, d, s
<1>2. d.type = "approval_decision" /\ d.approved /\ s.type = "internal_action_scheduled"
  OBVIOUS
<1> HIDE DEF d, s
<1>3. KeepsResults(log, mid) /\ Extends(log, mid) /\ Len(mid) = Len(log) + 1 /\ mid[Len(log) + 1] = d
      /\ Len(log) \in Nat
  BY <1>2, OtherEventKeeps, OneMore
<1>4. IsLog(mid)
  BY <1>3 DEF Extends
<1>0. mid = Append(log, d)
  OBVIOUS
<1> HIDE DEF mid
<1>5. Adds(log, mid, d)
  BY <1>0, EventPlaces
<1>6. KeepsResults(mid, new) /\ Extends(mid, new) /\ Len(new) = Len(mid) + 1
  BY <1>1, <1>2, <1>4, OtherEventKeeps, OneMore
<1>7. Adds(mid, new, s)
  BY <1>1, <1>4, EventPlaces
<1>8. Extends(log, new)
  BY <1>3, <1>6 DEF Extends
<1>9. KeepsResults(log, new)
  BY <1>3, <1>6, <1>8 DEF KeepsResults
<1>10. new[Len(log) + 1].approved
  BY <1>2, <1>3, <1>6 DEF Extends
<1>11. /\ Places(new, "approval_requested") = Places(log, "approval_requested")
       /\ Places(new, "approval_decision") = Places(log, "approval_decision") \cup {Len(log) + 1}
  <2>1. /\ Places(mid, "approval_requested") = Places(log, "approval_requested")
        /\ Places(mid, "approval_decision") = Places(log, "approval_decision") \cup {Len(log) + 1}
    BY <1>2, <1>5 DEF Adds
  <2>2. /\ Places(new, "approval_requested") = Places(mid, "approval_requested")
        /\ Places(new, "approval_decision") = Places(mid, "approval_decision")
    BY <1>2, <1>7 DEF Adds
  <2> QED
    BY <2>1, <2>2
<1> QED
  BY <1>3, <1>6, <1>9, <1>10, <1>11

\* The router's request keeps the results too.
LEMMA RequestKeeps ==
  ASSUME NEW log, IsLog(log), NEW new,
         new \in {log, Append(log, [type |-> "approval_requested"])}
  PROVE  KeepsResults(log, new) /\ Places(new, "approval_decision") = Places(log, "approval_decision")
<1>1. CASE new = log
  <2>1. Silent(log, new)
    BY <1>1, Unchanged
  <2> QED
    BY <2>1, SilenceKeepsAll DEF KeepsApprovals
<1>2. CASE new = Append(log, [type |-> "approval_requested"])
  <2> DEFINE e == [type |-> "approval_requested"]
  <2>1. e.type = "approval_requested" /\ new = Append(log, e)
    BY <1>2
  <2> HIDE DEF e
  <2>2. Places(new, "approval_decision") = Places(log, "approval_decision")
    <3>1. Adds(log, new, e)
      BY <2>1, EventPlaces
    <3> QED
      BY <2>1, <3>1 DEF Adds
  <2>3. KeepsResults(log, new)
    BY <2>1, OtherEventKeeps
  <2> QED
    BY <2>1, <2>2, <2>3
<1> QED
  BY <1>1, <1>2

\* Whatever a step does, what was told stays told, and a success is counted as it is recorded.
LEMMA WhatAStepTells ==
  ASSUME AgentAssumption, AgentShape, AgentPlace, AgentNext
  PROVE  /\ Counted \/ Uncounted
         /\ IsState(agentState') /\ agentState'.turns \in Nat
         /\ agentState'.turns = agentState.turns \/ agentState'.turns <= MaxModelTurns
         /\ IsLog(agentQueue') /\ \A i \in 1..Len(agentQueue') : IsCall(agentQueue'[i])
<1>s. /\ IsLog(agentLog) /\ agentState.turns \in Nat
      /\ IsLog(agentQueue) /\ \A i \in 1..Len(agentQueue) : IsCall(agentQueue[i])
  BY DEF AgentShape
<1>u. KeepsResults(agentLog, agentLog)
  BY <1>s, Unchanged, SilenceKeepsAll
<1>1. CASE AgentStart
  BY <1>1, <1>s, AgentStarts, SilenceKeepsAll DEF Uncounted
<1>2. CASE PlanRefused \/ PlanQueued \/ PlanAsked \/ PlanRaises
  <2>1. /\ Silent(agentLog, agentLog') /\ IsState(agentState') /\ agentState'.tools = agentState.tools
        /\ agentState'.turns \in Nat
        /\ agentState'.turns = agentState.turns \/ agentState'.turns <= MaxModelTurns
        /\ IsLog(agentQueue') /\ \A i \in 1..Len(agentQueue') : IsCall(agentQueue'[i])
    BY <1>2, PlannerSteps
  <2> QED
    BY <1>s, <2>1, SilenceKeepsAll DEF Uncounted
<1>3. CASE GateEnds \/ GateRefuses \/ GateAllows
  <2>1. /\ IsState(agentState') /\ agentState'.tools = agentState.tools
        /\ agentState'.turns = agentState.turns /\ agentQueue' = agentQueue
        /\ agentLog' = agentLog \/ Refusal(agentLog, agentLog')
    BY <1>3, GateSteps
  <2> QED
    BY <1>s, <1>u, <2>1, RefusalKeeps DEF Uncounted
<1>4. CASE ToolSucceeds \/ ToolFails
  <2>1. /\ agentNode = "tool_executor" /\ IsState(agentState') /\ agentQueue' = agentQueue
        /\ agentState'.turns = agentState.turns
        /\ \/ agentLog' = agentLog /\ agentState'.tools = agentState.tools
           \/ Refusal(agentLog, agentLog') /\ agentState'.tools = agentState.tools
           \/ Counted
    BY <1>4, ToolSteps DEF Counted
  <2> QED
    BY <1>s, <1>u, <2>1, RefusalKeeps DEF Uncounted
<1>5. CASE RouteToApproval \/ RouteOnBudget \/ RouteOn
  <2>1. /\ IsState(agentState') /\ agentQueue' = agentQueue
        /\ agentState'.turns = agentState.turns /\ agentState'.tools = agentState.tools
        /\ \/ agentLog' \in {agentLog, Append(agentLog, [type |-> "approval_requested"])}
           \/ Silent(agentLog, agentLog')
    BY <1>5, RouterSteps
  <2> QED
    BY <1>s, <2>1, RequestKeeps, SilenceKeepsAll DEF Uncounted
<1>6. CASE ResumeRaises \/ \E approved \in BOOLEAN : Resume(approved)
  <2>1. /\ IsState(agentState') /\ agentQueue' = agentQueue
        /\ agentState'.turns = agentState.turns /\ agentState'.tools = agentState.tools
        /\ \/ agentLog' = agentLog
           \/ agentLog' = agentLog \o <<[type |-> "approval_decision", approved |-> TRUE],
                                        [type |-> "internal_action_scheduled"]>>
           \/ agentLog' = Append(agentLog, [type |-> "approval_decision", approved |-> FALSE])
    BY <1>6, AuthorSteps
  <2>2. KeepsResults(agentLog, Append(agentLog, [type |-> "approval_decision", approved |-> FALSE]))
    <3> DEFINE e == [type |-> "approval_decision", approved |-> FALSE]
    <3>1. e.type \notin {"tool_result", "internal_action_result"}
      OBVIOUS
    <3> HIDE DEF e
    <3>2. KeepsResults(agentLog, Append(agentLog, e))
      BY <1>s, <3>1, OtherEventKeeps
    <3> QED
      BY <3>2 DEF e
  <2>3. KeepsResults(agentLog, agentLog')
    BY <1>s, <1>u, <2>1, <2>2, DecisionKeeps
  <2> QED
    BY <1>s, <2>1, <2>3 DEF Uncounted
<1>7. CASE Finalize
  <2>1. /\ IsState(agentState') /\ agentQueue' = agentQueue /\ agentLog' = agentLog
        /\ agentState'.turns = agentState.turns /\ agentState'.tools = agentState.tools
    BY <1>7, FinalizeStep
  <2> QED
    BY <1>s, <1>u, <2>1 DEF Uncounted
<1> QED
  BY <1>1, <1>2, <1>3, <1>4, <1>5, <1>6, <1>7 DEF AgentNext

\* A step keeps the shape of the state and only appends to the log.
LEMMA ShapeStep ==
  ASSUME AgentAssumption, AgentShape, AgentPlace, AgentNext
  PROVE  AgentShape' /\ Extends(agentLog, agentLog')
<1>1. /\ Counted \/ Uncounted
      /\ IsState(agentState') /\ agentState'.turns \in Nat
      /\ IsLog(agentQueue') /\ \A i \in 1..Len(agentQueue') : IsCall(agentQueue'[i])
  BY WhatAStepTells
<1>2. IsLog(agentLog) /\ agentState.tools \in Seq(AgentTools)
  BY DEF AgentShape
<1>3. CASE Counted
  <2>1. agentState.action.tool \in AgentTools
    BY <1>3 DEF Counted, AgentPlace, IsCall, StageDraft, AgentTools
  <2>2. agentState'.tools \in Seq(AgentTools)
    BY <1>2, <1>3, <2>1 DEF Counted
  <2>3. Extends(agentLog, agentLog')
    BY <1>2, <1>3, RecordingTells DEF Counted
  <2> QED
    BY <1>1, <2>2, <2>3 DEF AgentShape, Extends
<1>4. CASE Uncounted
  BY <1>1, <1>2, <1>4 DEF AgentShape, Extends, Uncounted, KeepsResults
<1> QED
  BY <1>1, <1>3, <1>4

\* What a step does to the successes follows from what it does to the list.
LEMMA SuccessesAfter ==
  ASSUME AgentShape
  PROVE  /\ \A tool : Successes(tool)' = Uses(agentState'.tools, tool)
         /\ agentState'.tools = agentState.tools => \A tool : Successes(tool)' = Successes(tool)
         /\ \A t \in AgentTools : agentState'.tools = Append(agentState.tools, t) =>
                \A tool : Successes(tool)' = Successes(tool) + IF t = tool THEN 1 ELSE 0
<1>1. \A tool : Successes(tool)' = Uses(agentState'.tools, tool)
  BY DEF Successes, Uses
<1>2. \A tool : Successes(tool) = Uses(agentState.tools, tool)
  BY SuccessesCounted
<1>3. agentState'.tools = agentState.tools => \A tool : Successes(tool)' = Successes(tool)
  BY <1>1, <1>2
<1>4. ASSUME NEW t \in AgentTools, agentState'.tools = Append(agentState.tools, t)
      PROVE  \A tool : Successes(tool)' = Successes(tool) + IF t = tool THEN 1 ELSE 0
  <2>1. agentState.tools \in Seq(AgentTools)
    BY DEF AgentShape
  <2> QED
    BY <1>1, <1>2, <1>4, <2>1, UsesCount
<1> QED
  BY <1>1, <1>3, <1>4

\* At the tools, what runs is a draft exactly if it has no id of a call.
LEMMA DraftOrCall ==
  ASSUME AgentPlace, agentNode = "tool_executor"
  PROVE  /\ agentState.action.tool \in AgentTools
         /\ agentState.action.id = Internal <=> agentState.action = StageDraft
         /\ agentState.action.tool = "stage_writing_draft" <=> agentState.action = StageDraft
BY DEF AgentPlace, StageDraft, IsCall, AgentTools, Internal

\* A step leads to a place where what it needs is known.
LEMMA PlaceStep ==
  ASSUME AgentAssumption, AgentShape, AgentPlace, AgentNext
  PROVE  AgentPlace'
<1>t. agentState'.tools = agentState.tools => \A tool : Successes(tool)' = Successes(tool)
  BY SuccessesAfter
<1>1. CASE AgentStart
  <2>1. agentNode' \in {"done", "planner"}
    BY <1>1, AgentStarts
  <2> QED
    BY <2>1 DEF AgentPlace, Nodes, AgentFinal
<1>2. CASE PlanRefused \/ PlanQueued \/ PlanAsked \/ PlanRaises
  <2>1. \/ agentNode' = "raised"
        \/ /\ agentNode' = "policy_gate"
           /\ \/ agentState'.status = "execution_failed"
              \/ agentState'.action = Finish \/ IsCall(agentState'.action)
    BY <1>2, PlannerSteps
  <2> QED
    BY <2>1 DEF AgentPlace, Nodes, AgentFinal, AgentFailed, Finish, NoAction, IsCall
<1>3. CASE GateEnds \/ GateRefuses \/ GateAllows
  <2>1. /\ agentState'.tools = agentState.tools
        /\ \/ agentNode' \in {"finalizer", "raised", "human_approval"}
           \/ /\ agentNode' = "tool_executor"
              /\ IsCall(agentState'.action) /\ agentState'.action.tool # "stage_writing_draft"
              /\ Len(agentState.tools) < MaxToolCalls
              /\ agentState'.action.tool = "retrieve_evidence" =>
                    Successes("retrieve_evidence") < MaxRetrievalCalls
    BY <1>3, GateSteps
  <2> QED
    BY <1>t, <2>1 DEF AgentPlace, Nodes, AgentFinal, IsCall
<1>4. CASE ToolSucceeds \/ ToolFails
  <2>1. agentNode' \in {"raised", "coverage_router"}
    BY <1>4, ToolSteps
  <2> QED
    BY <2>1 DEF AgentPlace, Nodes, AgentFinal
<1>5. CASE RouteToApproval \/ RouteOnBudget \/ RouteOn
  <2>1. agentNode' \in {"finalizer", "human_approval", "planner"}
    BY <1>5, RouterSteps
  <2> QED
    BY <2>1 DEF AgentPlace, Nodes, AgentFinal
<1>6. CASE ResumeRaises \/ \E approved \in BOOLEAN : Resume(approved)
  <2>1. \/ agentNode' \in {"raised", "finalizer"}
        \/ agentNode' = "tool_executor" /\ agentState'.action = StageDraft
    BY <1>6, AuthorSteps
  <2> QED
    BY <2>1 DEF AgentPlace, Nodes, AgentFinal, StageDraft
<1>7. CASE Finalize
  BY <1>7, FinalizeStep DEF AgentPlace, Nodes, AgentFinal
<1> QED
  BY <1>1, <1>2, <1>3, <1>4, <1>5, <1>6, <1>7 DEF AgentNext

\* A step counts what it records.
LEMMA CountsStep ==
  ASSUME AgentAssumption, AgentShape, AgentPlace, AgentCounts, AgentNext
  PROVE  AgentCounts'
<1> DEFINE staged == Places(agentLog, "internal_action_result")
           good == SuccessPlaces(agentLog)
           n == Len(agentLog) + 1
<1>1. /\ Counted \/ Uncounted
      /\ agentState'.turns = agentState.turns \/ agentState'.turns <= MaxModelTurns
  BY WhatAStepTells
<1>2. /\ SoundAnswers(agentLog) /\ Len(agentState.tools) = Cardinality(staged \cup good)
      /\ Successes("stage_writing_draft") = Cardinality(staged)
      /\ agentState.turns <= MaxModelTurns
      /\ Len(agentState.tools) - Successes("stage_writing_draft") <= MaxToolCalls
      /\ Successes("retrieve_evidence") <= MaxRetrievalCalls
  BY DEF AgentCounts, SoundAnswers, AgentWithinBudget
<1>3. /\ IsLog(agentLog) /\ agentState.tools \in Seq(AgentTools) /\ Len(agentState.tools) \in Nat
      /\ MaxToolCalls \in Nat /\ MaxRetrievalCalls \in Nat
      /\ \A tool : Successes(tool) \in Nat
  BY SuccessesCounted DEF AgentShape, AgentAssumption
<1>4. SUFFICES
      /\ SoundAnswers(agentLog')
      /\ Len(agentState'.tools) =
            Cardinality(Places(agentLog', "internal_action_result") \cup SuccessPlaces(agentLog'))
      /\ Successes("stage_writing_draft")' = Cardinality(Places(agentLog', "internal_action_result"))
      /\ Len(agentState'.tools) - Successes("stage_writing_draft")' <= MaxToolCalls
      /\ Successes("retrieve_evidence")' <= MaxRetrievalCalls
  BY <1>1, <1>2 DEF AgentCounts, SoundAnswers, AgentWithinBudget
<1>5. CASE Uncounted
  <2>1. /\ agentState'.tools = agentState.tools
        /\ Places(agentLog', "internal_action_result") = staged /\ SuccessPlaces(agentLog') = good
        /\ SoundAnswers(agentLog')
    BY <1>2, <1>5 DEF Uncounted, KeepsResults
  <2>2. \A tool : Successes(tool)' = Successes(tool)
    BY <2>1, SuccessesAfter
  <2> HIDE DEF staged, good
  <2> QED
    BY <1>2, <2>1, <2>2
<1>6. CASE Counted
  <2>1. PICK found : Recording(agentLog, agentLog', agentState.action, found)
    BY <1>6 DEF Counted
  <2>2. agentNode = "tool_executor" /\ agentState'.tools = Append(agentState.tools, agentState.action.tool)
    BY <1>6 DEF Counted
  <2>3. /\ agentState.action.tool \in AgentTools
        /\ agentState.action.id = Internal <=> agentState.action = StageDraft
        /\ agentState.action.tool = "stage_writing_draft" <=> agentState.action = StageDraft
    BY <2>2, DraftOrCall
  <2>4. \A tool : Successes(tool)' = Successes(tool) + IF agentState.action.tool = tool THEN 1 ELSE 0
    BY <2>2, <2>3, SuccessesAfter
  <2>5. Len(agentState'.tools) = Len(agentState.tools) + 1
    BY <1>3, <2>2, <2>3
  <2>6. staged \subseteq 1..(n - 1) /\ good \subseteq 1..(n - 1) /\ n - 1 \in Nat /\ n \in Nat
    BY <1>3, PlacesWithin
  <2> HIDE DEF n
  <2>7. /\ SoundAnswers(agentLog')
        /\ IF agentState.action = StageDraft
           THEN Places(agentLog', "internal_action_result") = staged \cup {n} /\ SuccessPlaces(agentLog') = good
           ELSE Places(agentLog', "internal_action_result") = staged /\ SuccessPlaces(agentLog') = good \cup {n}
    BY <1>2, <1>3, <2>1, <2>3, RecordingTells DEF n
  <2> HIDE DEF staged, good
  <2>8. IsFiniteSet(staged) /\ IsFiniteSet(staged \cup good) /\ n \notin staged /\ n \notin staged \cup good
    <3>1. 1 \in Int /\ n - 1 \in Int
      BY <2>6
    <3>2. IsFiniteSet(1..(n - 1))
      BY <3>1, FS_Interval
    <3>3. staged \cup good \subseteq 1..(n - 1)
      BY <2>6
    <3>4. n \notin 1..(n - 1)
      BY <2>6
    <3> QED
      BY <2>6, <3>2, <3>3, <3>4, FS_Subset
  <2>9. /\ Cardinality(staged \cup {n}) = Cardinality(staged) + 1
        /\ Cardinality((staged \cup good) \cup {n}) = Cardinality(staged \cup good) + 1
    BY <2>8, FS_AddElement
  <2>10. Places(agentLog', "internal_action_result") \cup SuccessPlaces(agentLog') = (staged \cup good) \cup {n}
    BY <2>7
  <2>11. Len(agentState'.tools) =
            Cardinality(Places(agentLog', "internal_action_result") \cup SuccessPlaces(agentLog'))
    BY <1>2, <2>5, <2>9, <2>10
  <2>12. CASE agentState.action = StageDraft
    <3>1. /\ Successes("stage_writing_draft")' = Successes("stage_writing_draft") + 1
          /\ Successes("retrieve_evidence")' = Successes("retrieve_evidence")
      BY <1>3, <2>3, <2>4, <2>12
    <3>2. Places(agentLog', "internal_action_result") = staged \cup {n}
      BY <2>7, <2>12
    <3>3. Successes("stage_writing_draft")' = Cardinality(Places(agentLog', "internal_action_result"))
      BY <1>2, <2>9, <3>1, <3>2
    <3>4. Len(agentState'.tools) - Successes("stage_writing_draft")' <= MaxToolCalls
      BY <1>2, <1>3, <2>5, <3>1
    <3> QED
      BY <1>2, <2>7, <2>11, <3>1, <3>3, <3>4
  <2>13. CASE agentState.action # StageDraft
    <3>1. /\ Len(agentState.tools) < MaxToolCalls
          /\ agentState.action.tool = "retrieve_evidence" =>
                Successes("retrieve_evidence") < MaxRetrievalCalls
      BY <2>2, <2>13 DEF AgentPlace
    <3>2. /\ Successes("stage_writing_draft")' = Successes("stage_writing_draft")
          /\ Successes("retrieve_evidence")' = Successes("retrieve_evidence")
                + IF agentState.action.tool = "retrieve_evidence" THEN 1 ELSE 0
      BY <1>3, <2>3, <2>4, <2>13
    <3>3. Len(agentState'.tools) - Successes("stage_writing_draft")' <= MaxToolCalls
      BY <1>3, <2>5, <3>1, <3>2
    <3>4. Successes("retrieve_evidence")' <= MaxRetrievalCalls
      BY <1>2, <1>3, <3>1, <3>2
    <3> QED
      BY <1>2, <2>7, <2>11, <2>13, <3>2, <3>3, <3>4
  <2> QED
    BY <2>12, <2>13
<1> QED
  BY <1>1, <1>5, <1>6

AskedIn(log) == Places(log, "approval_requested")
DecisionsIn(log) == Places(log, "approval_decision")
StagedIn(log) == Places(log, "internal_action_result")
NoDraftYet(log) == AskedIn(log) = {} /\ DecisionsIn(log) = {} /\ StagedIn(log) = {}

\* Where a run has no draft in hand, its log knows of none.
LEMMA NoDraftBefore ==
  ASSUME AgentDrafts, ~(Paused \/ Drafting \/ Drafted \/ Ending \/ agentNode = "raised")
  PROVE  NoDraftYet(agentLog)
BY DEF AgentDrafts, NoDraftYet, AskedIn, DecisionsIn, StagedIn

\* A log without a draft is consistent with every place but those of a draft.
LEMMA NoDraftAfter ==
  ASSUME NoDraftYet(agentLog'), ~Paused', ~Drafting',
         agentNode' = "coverage_router" /\ agentState'.lastTool = "query_evidence_matrix" =>
            agentState'.status = "execution_failed" \/ SuccessPlaces(agentLog') # {}
  PROVE  AgentDrafts'
BY DEF AgentDrafts, NoDraftYet, AskedIn, DecisionsIn, StagedIn, AgentFailed

\* A log that gains neither a result of a draft nor an approval knows of no draft still.
LEMMA NoDraftKept ==
  ASSUME NoDraftYet(agentLog), KeepsResults(agentLog, agentLog'), KeepsApprovals(agentLog, agentLog')
  PROVE  NoDraftYet(agentLog')
BY DEF NoDraftYet, AskedIn, DecisionsIn, StagedIn, KeepsResults, KeepsApprovals

\* What is known of the drafts stays known at the end of a run.
LEMMA DraftsKept ==
  ASSUME IsLog(agentLog), AgentDrafts,
         KeepsResults(agentLog, agentLog'), KeepsApprovals(agentLog, agentLog'), Drafted' \/ Ending'
  PROVE  AgentDrafts'
<1>1. Extends(agentLog, agentLog')
  BY DEF KeepsResults
<1>2. /\ AskedIn(agentLog') = AskedIn(agentLog) /\ DecisionsIn(agentLog') = DecisionsIn(agentLog)
      /\ StagedIn(agentLog') = StagedIn(agentLog)
  BY DEF KeepsResults, KeepsApprovals, AskedIn, DecisionsIn, StagedIn
<1>3. \A i \in StagedIn(agentLog) : ApprovedBefore(agentLog', i)
  <2>1. StagedIn(agentLog) \subseteq Nat
    BY PlacesWithin DEF StagedIn
  <2>2. \A p \in Nat, q \in Nat : ApprovedBefore(agentLog, p) /\ p <= q => ApprovedBefore(agentLog', q)
    BY <1>1, PlacesGrow
  <2>3. \A i \in StagedIn(agentLog) : ApprovedBefore(agentLog, i)
    BY DEF AgentDrafts, StagedIn
  <2> QED
    BY <2>1, <2>2, <2>3
<1>4. ~Paused' /\ ~Drafting'
      /\ ~(agentNode' = "coverage_router" /\ agentState'.lastTool = "query_evidence_matrix")
  BY DEF Drafted, Ending, Paused, Drafting
<1>5. /\ \A i, j \in DecisionsIn(agentLog) : i = j
      /\ \A i, j \in StagedIn(agentLog) : i = j
  BY DEF AgentDrafts, DecisionsIn, StagedIn
<1> QED
  BY <1>2, <1>3, <1>4, <1>5 DEF AgentDrafts, DecisionsIn, StagedIn

\* An event is recorded exactly if it has a place.
LEMMA RecordedPlaces ==
  ASSUME NEW type
  PROVE  Recorded(type) = {} <=> Places(agentLog, type) = {}
BY DEF Recorded, AgentEvents, Places

\* A step keeps the order in which a draft is asked for, decided and staged.
LEMMA DraftsStep ==
  ASSUME AgentAssumption, AgentShape, AgentPlace, AgentDrafts, AgentNext
  PROVE  AgentDrafts'
<1>s. IsLog(agentLog)
  BY DEF AgentShape
<1>u. KeepsResults(agentLog, agentLog) /\ KeepsApprovals(agentLog, agentLog)
  BY <1>s, Unchanged, SilenceKeepsAll
<1>n. Len(agentLog) \in Nat /\ Len(agentLog) + 1 \in Nat
  BY <1>s, ListFacts
<1>1. CASE AgentStart \/ PlanRefused \/ PlanQueued \/ PlanAsked \/ PlanRaises
  <2>1. /\ agentNode \in {"idle", "planner"} /\ Silent(agentLog, agentLog')
        /\ agentNode' \in {"done", "planner", "policy_gate", "raised"}
    BY <1>1, AgentStarts, PlannerSteps
  <2>2. NoDraftYet(agentLog)
    BY <2>1, NoDraftBefore DEF Paused, Drafting, Drafted, Ending
  <2>3. NoDraftYet(agentLog')
    BY <1>s, <2>1, <2>2, SilenceKeepsAll, NoDraftKept
  <2> QED
    BY <2>1, <2>3, NoDraftAfter DEF Paused, Drafting
<1>2. CASE GateEnds \/ GateRefuses \/ GateAllows
  <2>1. /\ agentNode = "policy_gate"
        /\ agentLog' = agentLog \/ Refusal(agentLog, agentLog')
        /\ \/ agentNode' \in {"finalizer", "raised"}
           \/ agentNode' = "human_approval" /\ agentState'.pending = "unregistered"
           \/ agentNode' = "tool_executor" /\ IsCall(agentState'.action)
    BY <1>2, GateSteps
  <2>3. NoDraftYet(agentLog)
    BY <2>1, NoDraftBefore DEF Paused, Drafting, Drafted, Ending
  <2>4. KeepsResults(agentLog, agentLog') /\ KeepsApprovals(agentLog, agentLog')
    BY <1>s, <1>u, <2>1, RefusalKeeps
  <2>5. NoDraftYet(agentLog')
    BY <2>3, <2>4, NoDraftKept
  <2> QED
    BY <2>1, <2>5, NoDraftAfter DEF Paused, Drafting, IsCall, StageDraft
<1>3. CASE ToolSucceeds \/ ToolFails
  <2>1. /\ agentNode = "tool_executor"
        /\ \/ agentNode' = "raised" /\ agentLog' = agentLog /\ agentState.action.id # Internal
           \/ /\ agentNode' = "coverage_router"
              /\ agentState'.lastTool = agentState.action.tool /\ agentState'.status = "execution_failed"
              /\ agentLog' = agentLog \/ Refusal(agentLog, agentLog')
           \/ /\ agentNode' = "coverage_router"
              /\ agentState'.lastTool = agentState.action.tool
              /\ \E found : Recording(agentLog, agentLog', agentState.action, found)
    BY <1>3, ToolSteps
  <2>2. /\ agentState.action.id = Internal <=> agentState.action = StageDraft
        /\ agentState.action.tool = "stage_writing_draft" <=> agentState.action = StageDraft
    BY <2>1, DraftOrCall
  <2>3. CASE agentState.action # StageDraft
    <3>1. NoDraftYet(agentLog)
      BY <2>1, <2>3, NoDraftBefore DEF Paused, Drafting, Drafted, Ending
    <3>2. CASE agentLog' = agentLog \/ Refusal(agentLog, agentLog')
      <4>1. NoDraftYet(agentLog')
        BY <1>s, <1>u, <3>1, <3>2, RefusalKeeps, NoDraftKept
      <4>2. CASE agentNode' = "coverage_router" /\ \E found : Recording(agentLog, agentLog', agentState.action, found)
        <5>1. Len(agentLog) + 1 \in SuccessPlaces(agentLog')
          BY <1>s, <2>2, <2>3, <4>2, RecordingTells
        <5> QED
          BY <4>1, <4>2, <5>1, NoDraftAfter DEF Paused, Drafting
      <4> QED
        BY <2>1, <4>1, <4>2, NoDraftAfter DEF Paused, Drafting
    <3>3. CASE agentNode' = "coverage_router" /\ \E found : Recording(agentLog, agentLog', agentState.action, found)
      <4>1. /\ Len(agentLog) + 1 \in SuccessPlaces(agentLog') /\ KeepsApprovals(agentLog, agentLog')
            /\ Places(agentLog', "internal_action_result") = Places(agentLog, "internal_action_result")
        BY <1>s, <2>2, <2>3, <3>3, RecordingTells
      <4>2. NoDraftYet(agentLog')
        BY <3>1, <4>1 DEF NoDraftYet, AskedIn, DecisionsIn, StagedIn, KeepsApprovals
      <4> QED
        BY <3>3, <4>1, <4>2, NoDraftAfter DEF Paused, Drafting
    <3> QED
      BY <2>1, <3>2, <3>3
  <2>4. CASE agentState.action = StageDraft
    <3>1. Drafted' /\ agentState.action.id = Internal
      BY <2>1, <2>2, <2>4 DEF Drafted
    <3>2. CASE agentLog' = agentLog \/ Refusal(agentLog, agentLog')
      BY <1>s, <1>u, <3>1, <3>2, RefusalKeeps, DraftsKept
    <3>3. CASE \E found : Recording(agentLog, agentLog', agentState.action, found)
      <4>1. /\ Extends(agentLog, agentLog') /\ KeepsApprovals(agentLog, agentLog')
            /\ StagedIn(agentLog') = StagedIn(agentLog) \cup {Len(agentLog) + 1}
        BY <1>s, <3>1, <3>3, RecordingTells DEF StagedIn
      <4>2. StagedIn(agentLog) = {} /\ Drafting
        BY <2>1, <2>4 DEF AgentDrafts, StagedIn, Drafting, Drafted, Ending
      <4>3. ApprovedBefore(agentLog, Len(agentLog) + 1)
        BY <4>2 DEF AgentDrafts
      <4>4. ApprovedBefore(agentLog', Len(agentLog) + 1)
        <5>1. \A p \in Nat, q \in Nat : ApprovedBefore(agentLog, p) /\ p <= q => ApprovedBefore(agentLog', q)
          BY <1>s, <4>1, PlacesGrow
        <5> QED
          BY <1>n, <4>3, <5>1
      <4>5. StagedIn(agentLog') = {Len(agentLog) + 1}
        BY <4>1, <4>2
      <4>6. ~Paused' /\ ~Drafting' /\ agentState'.lastTool # "query_evidence_matrix"
        BY <3>1 DEF Drafted, Paused, Drafting
      <4>7. \A i, j \in DecisionsIn(agentLog') : i = j
        BY <4>1 DEF AgentDrafts, KeepsApprovals, DecisionsIn
      <4> QED
        BY <3>1, <4>4, <4>5, <4>6, <4>7 DEF AgentDrafts, DecisionsIn, StagedIn
    <3> QED
      BY <2>1, <2>2, <2>4, <3>2, <3>3
  <2> QED
    BY <2>3, <2>4
<1>4. CASE RouteToApproval \/ RouteOnBudget \/ RouteOn
  <2>1. /\ agentNode = "coverage_router" /\ agentState'.status \in {agentState.status, "insufficient_evidence"}
        /\ \/ /\ agentState.lastTool = "query_evidence_matrix"
              /\ \/ agentNode' = "finalizer"
                 \/ agentNode' = "human_approval" /\ agentState'.pending = "registered" /\ ~AgentFailed
              /\ agentLog' = IF Recorded("approval_requested") = {}
                             THEN Append(agentLog, [type |-> "approval_requested"]) ELSE agentLog
           \/ /\ Silent(agentLog, agentLog')
              /\ \/ agentNode' = "finalizer"
                 \/ agentNode' = "planner" /\ agentState.lastTool # "stage_writing_draft"
    BY <1>4, RouterSteps
  <2>2. CASE /\ agentState.lastTool = "query_evidence_matrix"
             /\ \/ agentNode' = "finalizer"
                \/ agentNode' = "human_approval" /\ agentState'.pending = "registered" /\ ~AgentFailed
             /\ agentLog' = IF Recorded("approval_requested") = {}
                            THEN Append(agentLog, [type |-> "approval_requested"]) ELSE agentLog
    <3>1. NoDraftYet(agentLog)
      BY <2>1, <2>2, NoDraftBefore DEF Paused, Drafting, Drafted, Ending
    <3>2. agentLog' = Append(agentLog, [type |-> "approval_requested"])
      BY <2>2, <3>1, RecordedPlaces DEF NoDraftYet, AskedIn
    <3>3. /\ AskedIn(agentLog') = {Len(agentLog) + 1} /\ DecisionsIn(agentLog') = {} /\ StagedIn(agentLog') = {}
          /\ SuccessPlaces(agentLog') = SuccessPlaces(agentLog)
      <4> DEFINE e == [type |-> "approval_requested"]
      <4>1. e.type = "approval_requested" /\ agentLog' = Append(agentLog, e)
        BY <3>2
      <4> HIDE DEF e
      <4>2. Adds(agentLog, agentLog', e)
        BY <1>s, <4>1, EventPlaces
      <4>3. /\ Places(agentLog', "approval_requested") =
                  Places(agentLog, "approval_requested") \cup {Len(agentLog) + 1}
            /\ SuccessPlaces(agentLog') = SuccessPlaces(agentLog)
        BY <4>1, <4>2 DEF Adds
      <4>4. /\ Places(agentLog', "approval_decision") = Places(agentLog, "approval_decision")
            /\ Places(agentLog', "internal_action_result") = Places(agentLog, "internal_action_result")
        BY <4>1, <4>2 DEF Adds
      <4> QED
        BY <3>1, <4>3, <4>4 DEF NoDraftYet, AskedIn, DecisionsIn, StagedIn
    <3>4. Paused' => AskedFor(agentLog')
      <4>1. Paused' => SuccessPlaces(agentLog) # {}
        BY <2>1, <2>2 DEF AgentDrafts, Paused
      <4>2. \A i \in SuccessPlaces(agentLog) : i < Len(agentLog) + 1
        BY <1>s, <1>n, PlacesWithin
      <4> QED
        BY <3>3, <4>1, <4>2 DEF AskedFor, AskedIn
    <3>5. Paused' \/ Ending'
      BY <2>2 DEF Paused, Ending
    <3>6. ~Drafting' /\ agentNode' # "coverage_router"
      BY <2>2 DEF Drafting
    <3> QED
      BY <3>3, <3>4, <3>5, <3>6 DEF AgentDrafts, AskedIn, DecisionsIn, StagedIn
  <2>3. CASE Silent(agentLog, agentLog') /\ agentNode' = "finalizer"
    BY <1>s, <2>3, SilenceKeepsAll, DraftsKept DEF Ending
  <2>4. CASE Silent(agentLog, agentLog') /\ agentNode' = "planner" /\ agentState.lastTool # "stage_writing_draft"
    <3>1. NoDraftYet(agentLog)
      BY <2>1, <2>4, NoDraftBefore DEF Paused, Drafting, Drafted, Ending
    <3>2. NoDraftYet(agentLog')
      BY <1>s, <2>4, <3>1, SilenceKeepsAll, NoDraftKept
    <3> QED
      BY <2>4, <3>2, NoDraftAfter DEF Paused, Drafting
  <2> QED
    BY <2>1, <2>2, <2>3, <2>4
<1>5. CASE ResumeRaises \/ \E approved \in BOOLEAN : Resume(approved)
  <2>1. /\ agentNode = "human_approval"
        /\ \/ agentNode' = "raised" /\ agentLog' = agentLog
           \/ /\ Paused /\ ~Decided /\ agentNode' = "tool_executor" /\ agentState'.action = StageDraft
              /\ agentLog' = agentLog \o <<[type |-> "approval_decision", approved |-> TRUE],
                                           [type |-> "internal_action_scheduled"]>>
           \/ /\ Paused /\ ~Decided /\ agentNode' = "finalizer"
              /\ agentLog' = Append(agentLog, [type |-> "approval_decision", approved |-> FALSE])
    BY <1>5, AuthorSteps
  <2>2. DecisionsIn(agentLog) = {} /\ StagedIn(agentLog) = {}
    BY <2>1 DEF AgentDrafts, DecisionsIn, StagedIn, Drafting, Drafted, Ending
  <2>3. CASE agentNode' = "raised" /\ agentLog' = agentLog
    BY <2>2, <2>3 DEF AgentDrafts, DecisionsIn, StagedIn, Drafting, Paused
  <2>4. CASE /\ Paused /\ agentNode' = "tool_executor" /\ agentState'.action = StageDraft
             /\ agentLog' = agentLog \o <<[type |-> "approval_decision", approved |-> TRUE],
                                          [type |-> "internal_action_scheduled"]>>
    <3>1. /\ KeepsResults(agentLog, agentLog') /\ Len(agentLog') = Len(agentLog) + 2
          /\ agentLog'[Len(agentLog) + 1].approved
          /\ AskedIn(agentLog') = AskedIn(agentLog)
          /\ DecisionsIn(agentLog') = DecisionsIn(agentLog) \cup {Len(agentLog) + 1}
      BY <1>s, <2>4, DecisionKeeps DEF AskedIn, DecisionsIn
    <3>2. StagedIn(agentLog') = {} /\ SuccessPlaces(agentLog') = SuccessPlaces(agentLog)
          /\ DecisionsIn(agentLog') = {Len(agentLog) + 1}
      BY <2>2, <3>1 DEF KeepsResults, StagedIn
    <3>3. PICK matrix \in SuccessPlaces(agentLog), asked \in AskedIn(agentLog) : matrix < asked
      BY <2>4 DEF AgentDrafts, AskedFor, AskedIn
    <3>4. asked < Len(agentLog) + 1 /\ Len(agentLog) + 1 < Len(agentLog') + 1
      BY <1>s, <1>n, <3>1, <3>3, PlacesWithin DEF AskedIn
    <3>5. ApprovedBefore(agentLog', Len(agentLog') + 1)
      BY <3>1, <3>2, <3>3, <3>4 DEF ApprovedBefore, AskedIn, DecisionsIn
    <3>6. Drafting' /\ ~Paused' /\ agentNode' # "coverage_router"
      BY <2>4 DEF Drafting, Paused
    <3> QED
      BY <3>2, <3>5, <3>6 DEF AgentDrafts, DecisionsIn, StagedIn
  <2>5. CASE /\ agentNode' = "finalizer"
             /\ agentLog' = Append(agentLog, [type |-> "approval_decision", approved |-> FALSE])
    <3> DEFINE e == [type |-> "approval_decision", approved |-> FALSE]
    <3>1. e.type = "approval_decision" /\ agentLog' = Append(agentLog, e)
      BY <2>5
    <3> HIDE DEF e
    <3>2. Adds(agentLog, agentLog', e)
      BY <1>s, <3>1, EventPlaces
    <3>3. DecisionsIn(agentLog') = {Len(agentLog) + 1} /\ StagedIn(agentLog') = {}
      <4>1. /\ Places(agentLog', "approval_decision") =
                  Places(agentLog, "approval_decision") \cup {Len(agentLog) + 1}
            /\ Places(agentLog', "internal_action_result") = Places(agentLog, "internal_action_result")
        BY <3>1, <3>2 DEF Adds
      <4> QED
        BY <2>2, <4>1 DEF DecisionsIn, StagedIn
    <3>4. Ending' /\ ~Drafting' /\ ~Paused' /\ agentNode' # "coverage_router"
      BY <2>5 DEF Ending, Drafting, Paused
    <3> QED
      BY <3>3, <3>4 DEF AgentDrafts, DecisionsIn, StagedIn
  <2> QED
    BY <2>1, <2>3, <2>4, <2>5
<1>6. CASE Finalize
  <2>1. agentNode' = "done" /\ agentLog' = agentLog
    BY <1>6, FinalizeStep
  <2> QED
    BY <1>s, <1>u, <2>1, DraftsKept DEF Ending
<1> QED
  BY <1>1, <1>2, <1>3, <1>4, <1>5, <1>6 DEF AgentNext

\* The request for a draft is nothing the state repeats.
LEMMA RequestNotProjected ==
  ASSUME NEW log, IsLog(log), SoundAnswers(log)
  PROVE  Projected(Append(log, [type |-> "approval_requested"])) = Projected(log)
<1> DEFINE e == [type |-> "approval_requested"]
           new == Append(log, e)
           Results(l) == {i \in DOMAIN l : l[i].type = "tool_result"}
           Good(l, tool) == {i \in {j \in Results(l) : l[j].status = "success"} : ToolOf(l, l[i].id) = tool}
           At(l, id) == {i \in DOMAIN l : l[i].type = "tool_call" /\ l[i].id = id}
<1>1. e.type = "approval_requested"
  OBVIOUS
<1> HIDE DEF e
<1>2. /\ Extends(log, new) /\ Len(log) \in Nat /\ Len(new) = Len(log) + 1 /\ new[Len(log) + 1] = e
      /\ DOMAIN log = 1..Len(log) /\ DOMAIN new = 1..(Len(log) + 1)
  BY OneMore
<1> HIDE DEF new
<1>3. \A i \in DOMAIN log : i \in DOMAIN new /\ new[i] = log[i]
  BY <1>2 DEF Extends
<1>4. \A i \in DOMAIN new : i \in DOMAIN log \/ new[i].type = "approval_requested"
  BY <1>1, <1>2
<1>5. Results(new) = Results(log)
  BY <1>3, <1>4
<1>6. \A i \in Results(log) : new[i] = log[i]
  BY <1>3
<1>7. \A id : At(new, id) = At(log, id)
  BY <1>3, <1>4
<1>8. ASSUME NEW i \in Results(log)
      PROVE  ToolOf(new, log[i].id) = ToolOf(log, log[i].id)
  <2>1. CalledIn(log, log[i].id)
    BY DEF SoundAnswers, Places
  <2>2. At(log, log[i].id) # {} /\ At(log, log[i].id) \in SUBSET (1..Len(log))
    BY <1>2, <2>1 DEF CalledIn, Places
  <2>3. Latest(At(log, log[i].id)) \in At(log, log[i].id)
    <3> HIDE DEF At
    <3> QED
      BY <1>2, <2>2, GreatestOf
  <2>4. new[Latest(At(log, log[i].id))] = log[Latest(At(log, log[i].id))]
    BY <1>3, <2>3
  <2>5. /\ ToolOf(new, log[i].id) = new[Latest(At(new, log[i].id))].tool
        /\ ToolOf(log, log[i].id) = log[Latest(At(log, log[i].id))].tool
    BY DEF ToolOf
  <2> HIDE DEF At
  <2> QED
    BY <1>7, <2>4, <2>5
<1>9. \A tool : Good(new, tool) = Good(log, tool)
  <2>1. \A i \in Results(log) : new[i] = log[i] /\ ToolOf(new, new[i].id) = ToolOf(log, log[i].id)
    BY <1>6, <1>8
  <2> HIDE DEF Results
  <2> QED
    BY <1>5, <2>1
<1>10. \A l : Projected(l) =
          [completed |-> {l[i].id : i \in Results(l)},
           retrieved |-> UNION {l[i].found : i \in Good(l, "retrieve_evidence")},
           matrixLoaded |-> Good(l, "query_evidence_matrix") # {}]
  BY DEF Projected, Projection
<1>11. {new[i].id : i \in Results(new)} = {log[i].id : i \in Results(log)}
  <2> HIDE DEF Results
  <2> QED
    BY <1>5, <1>6
<1>12. {new[i].found : i \in Good(new, "retrieve_evidence")} = {log[i].found : i \in Good(log, "retrieve_evidence")}
  <2>1. \A i \in Good(log, "retrieve_evidence") : new[i] = log[i]
    BY <1>6
  <2> HIDE DEF Good
  <2> QED
    BY <1>9, <2>1
<1> HIDE DEF Results, Good
<1>13. Projected(new) = Projected(log)
  BY <1>9, <1>10, <1>11, <1>12
<1> QED
  BY <1>13 DEF new, e

\* A step keeps the state and the trace in agreement where a resumption relies on it.
LEMMA AgreesStep ==
  ASSUME AgentAssumption, AgentShape, AgentPlace, AgentCounts, AgentAgrees, AgentNext
  PROVE  AgentAgrees'
<1>s. IsLog(agentLog) /\ SoundAnswers(agentLog)
  BY DEF AgentShape, AgentCounts
<1>1. CASE AgentStart \/ PlanRefused \/ PlanQueued \/ PlanAsked \/ PlanRaises \/ Finalize
  <2>1. agentNode' \notin {"coverage_router", "human_approval"}
    BY <1>1, AgentStarts, PlannerSteps, FinalizeStep
  <2> QED
    BY <2>1 DEF AgentAgrees, Paused
<1>2. CASE GateEnds \/ GateRefuses \/ GateAllows
  <2>1. /\ agentNode' # "coverage_router"
        /\ agentNode' = "human_approval" => agentState'.pending = "unregistered"
    BY <1>2, GateSteps
  <2> QED
    BY <2>1 DEF AgentAgrees, Paused
<1>3. CASE ToolSucceeds \/ ToolFails
  <2>1. agentNode' = "raised" \/ Agrees'
    BY <1>3, ToolSteps
  <2> QED
    BY <2>1 DEF AgentAgrees, Paused
<1>4. CASE RouteToApproval \/ RouteOnBudget \/ RouteOn
  <2>1. /\ agentNode = "coverage_router" /\ agentState'.checked = agentState.checked
        /\ agentTask' = agentTask /\ agentNode' # "coverage_router"
        /\ agentNode' = "human_approval" =>
              agentLog' \in {agentLog, Append(agentLog, [type |-> "approval_requested"])}
    BY <1>4, RouterSteps
  <2>2. agentState.checked = Projected(agentLog)
    BY <2>1 DEF AgentAgrees, Agrees
  <2>3. agentNode' = "human_approval" => agentState'.checked = Projected(agentLog')
    BY <1>s, <2>1, <2>2, RequestNotProjected
  <2>4. agentNode' = "human_approval" => Agrees'
    BY <2>1, <2>3, Reprojected
  <2> QED
    BY <2>1, <2>4 DEF AgentAgrees, Paused
<1>5. CASE ResumeRaises \/ \E approved \in BOOLEAN : Resume(approved)
  <2>1. agentNode' \notin {"coverage_router", "human_approval"}
    BY <1>5, AuthorSteps
  <2> QED
    BY <2>1 DEF AgentAgrees, Paused
<1> QED
  BY <1>1, <1>2, <1>3, <1>4, <1>5 DEF AgentNext

\* A step keeps coverage and outcome on evidence.
LEMMA EvidenceStep ==
  ASSUME AgentAssumption, AgentShape, AgentPlace, AgentCounts, AgentDrafts, AgentEvidence, AgentNext
  PROVE  AgentEvidence'
<1>s. IsLog(agentLog) /\ \A tool : Successes(tool) \in Nat
  BY SuccessesCounted DEF AgentShape
<1>1. Backed(agentLog) => Successes("retrieve_evidence") >= 1
  BY DEF AgentEvidence
<1>t. agentState'.tools = agentState.tools => \A tool : Successes(tool)' = Successes(tool)
  BY SuccessesAfter
<1>k. Uncounted => (Backed(agentLog') <=> Backed(agentLog)) /\ \A tool : Successes(tool)' = Successes(tool)
  BY <1>t DEF Uncounted, KeepsResults
<1>2. SUFFICES ASSUME Uncounted, ~(ToolSucceeds \/ ToolFails)
               PROVE  AgentEvidence'
  <2>1. CASE ToolSucceeds \/ ToolFails
    <3>1. /\ agentNode = "tool_executor"
          /\ agentState.action.tool \in AgentTools
          /\ agentState.action.id = Internal <=> agentState.action = StageDraft
          /\ agentState.action.tool = "stage_writing_draft" <=> agentState.action = StageDraft
      BY <2>1, ToolSteps, DraftOrCall
    <3>2. /\ agentTop => Backed(agentLog)
          /\ agentState.lastTool # "stage_writing_draft"
          /\ agentState.status \notin {"complete", "partial"}
          /\ agentState.coverage \in {"complete", "partial"} => Backed(agentLog)
      BY <3>1 DEF AgentEvidence, Ending, Drafted
    <3>3. CASE Uncounted
      <4>1. \/ agentNode' = "raised" /\ agentState' = agentState
            \/ /\ agentNode' = "coverage_router" /\ agentState'.status = "execution_failed"
               /\ agentState'.lastTool = agentState.action.tool
               /\ agentState'.coverage = agentState.coverage
            \/ Counted
        BY <2>1, ToolSteps DEF Counted
      <4>2. ~Counted
        <5>1. agentState.tools \in Seq(AgentTools)
          BY DEF AgentShape
        <5> QED
          BY <3>1, <3>3, <5>1 DEF Counted, Uncounted
      <4> QED
        BY <1>1, <1>k, <3>2, <3>3, <4>1, <4>2
           DEF AgentEvidence, Drafted, AgentFailed
    <3>4. CASE Counted
      <4>1. PICK found :
              /\ Recording(agentLog, agentLog', agentState.action, found)
              /\ found # {} => agentState.action.tool = "retrieve_evidence"
              /\ IF agentState.action.tool = "retrieve_evidence"
                 THEN agentTop' = (found # {}) ELSE agentTop' = agentTop
        BY <3>4 DEF Counted
      <4>2. /\ agentNode' = "coverage_router" /\ agentState'.status = agentState.status
            /\ agentState'.lastTool = agentState.action.tool
            /\ agentState'.tools = Append(agentState.tools, agentState.action.tool)
            /\ \/ agentState'.coverage = agentState.coverage
               \/ agentState.action.tool = "answer_grounded" /\ agentTop
        BY <3>4 DEF Counted
      <4>3. \A tool : Successes(tool)' = Successes(tool) + IF agentState.action.tool = tool THEN 1 ELSE 0
        BY <3>1, <4>2, SuccessesAfter
      <4>4. Backed(agentLog') <=> Backed(agentLog) \/ (agentState.action.id # Internal /\ found # {})
        BY <1>s, <4>1, RecordingTells
      <4>5. found # {} => agentState.action.id # Internal
        BY <3>1, <4>1 DEF StageDraft
      <4>6. Backed(agentLog') => Successes("retrieve_evidence")' >= 1
        <5>1. CASE agentState.action.tool = "retrieve_evidence"
          BY <1>s, <4>3, <5>1
        <5>2. CASE agentState.action.tool # "retrieve_evidence"
          BY <1>1, <1>s, <4>1, <4>3, <4>4, <5>2
        <5> QED
          BY <5>1, <5>2
      <4>7. agentTop' => Backed(agentLog')
        BY <3>2, <4>1, <4>4, <4>5
      <4>8. agentState'.coverage \in {"complete", "partial"} => Backed(agentLog')
        BY <3>2, <4>2, <4>4
      <4>9. agentState'.lastTool = "stage_writing_draft" => Successes("stage_writing_draft")' = 1
        <5>1. Places(agentLog, "internal_action_result") = {}
          BY <3>1 DEF AgentDrafts, Drafted, Ending
        <5>2. Successes("stage_writing_draft") = 0
          BY <5>1, FS_EmptySet DEF AgentCounts
        <5> QED
          BY <4>2, <4>3, <5>2
      <4> QED
        BY <3>2, <4>2, <4>6, <4>7, <4>8, <4>9 DEF AgentEvidence, Drafted
    <3> QED
      BY <3>3, <3>4, WhatAStepTells
  <2>2. CASE ~(ToolSucceeds \/ ToolFails)
    <3>1. agentNode # "tool_executor"
      <4>1. CASE AgentStart
        BY <4>1, AgentStarts
      <4>2. CASE PlanRefused \/ PlanQueued \/ PlanAsked \/ PlanRaises
        BY <4>2, PlannerSteps
      <4>3. CASE GateEnds \/ GateRefuses \/ GateAllows
        BY <4>3, GateSteps
      <4>4. CASE RouteToApproval \/ RouteOnBudget \/ RouteOn
        BY <4>4, RouterSteps
      <4>5. CASE ResumeRaises \/ \E approved \in BOOLEAN : Resume(approved)
        BY <4>5, AuthorSteps
      <4>6. CASE Finalize
        BY <4>6, FinalizeStep
      <4> QED
        BY <2>2, <4>1, <4>2, <4>3, <4>4, <4>5, <4>6 DEF AgentNext
    <3>2. Uncounted
      BY <3>1, WhatAStepTells DEF Counted
    <3> QED
      BY <1>2, <2>2, <3>2
  <2> QED
    BY <2>1, <2>2
<1>3. /\ Backed(agentLog') <=> Backed(agentLog)
      /\ \A tool : Successes(tool)' = Successes(tool)
  BY <1>2, <1>k
<1>4. Backed(agentLog') => Successes("retrieve_evidence")' >= 1
  BY <1>1, <1>3
<1>5. CASE AgentStart
  <2>1. /\ agentNode = "idle" /\ agentNode' \in {"done", "planner"} /\ agentTop' = agentTop
        /\ agentState'.lastTool = agentState.lastTool /\ agentState'.coverage = agentState.coverage
        /\ agentState'.status \in {agentState.status, "policy_rejected"}
    BY <1>5, AgentStarts
  <2> QED
    BY <1>3, <1>4, <2>1 DEF AgentEvidence, Drafted, Ending
<1>6. CASE PlanRefused \/ PlanQueued \/ PlanAsked \/ PlanRaises
  <2>1. /\ agentNode = "planner" /\ agentNode' \in {"raised", "policy_gate"} /\ agentTop' = agentTop
        /\ agentState'.lastTool = agentState.lastTool /\ agentState'.coverage = agentState.coverage
        /\ agentState'.status \in {agentState.status, "execution_failed"}
    BY <1>6, PlannerSteps
  <2> QED
    BY <1>3, <1>4, <2>1 DEF AgentEvidence, Drafted, Ending
<1>7. CASE GateEnds \/ GateRefuses \/ GateAllows
  <2>1. /\ agentNode = "policy_gate" /\ agentTop' = agentTop
        /\ agentNode' \in {"finalizer", "raised", "human_approval", "tool_executor"}
        /\ agentState'.lastTool = agentState.lastTool /\ agentState'.coverage = agentState.coverage
        /\ agentState'.status \in {agentState.status, "execution_failed"}
    BY <1>7, GateSteps
  <2> QED
    BY <1>3, <1>4, <2>1 DEF AgentEvidence, Drafted, Ending
<1>8. CASE RouteToApproval \/ RouteOnBudget \/ RouteOn
  <2>1. /\ agentNode = "coverage_router" /\ agentTop' = agentTop
        /\ agentState'.lastTool = agentState.lastTool
        /\ agentState'.status \in {agentState.status, "insufficient_evidence"}
        /\ agentState'.coverage \in {agentState.coverage, "none"} \/ Backed(agentLog)
        /\ \/ agentNode' = "finalizer"
           \/ /\ agentNode' \in {"planner", "human_approval"} /\ ~AgentFailed
              /\ agentState.lastTool # "stage_writing_draft"
    BY <1>8, RouterSteps
  <2>2. agentState'.coverage \in {"complete", "partial"} => Backed(agentLog')
    BY <1>3, <2>1 DEF AgentEvidence
  <2>3. agentTop' => Backed(agentLog') \/ Ending'
    BY <1>3, <2>1 DEF AgentEvidence, Ending
  <2>4. agentState'.status \notin {"complete", "partial"}
    BY <2>1 DEF AgentEvidence
  <2>5. agentState'.lastTool = "stage_writing_draft" =>
            Ending' /\ (agentState'.status # "none" \/ Successes("stage_writing_draft")' = 1)
    BY <1>3, <2>1 DEF AgentEvidence, Ending
  <2> QED
    BY <1>4, <2>2, <2>3, <2>4, <2>5 DEF AgentEvidence
<1>9. CASE ResumeRaises \/ \E approved \in BOOLEAN : Resume(approved)
  <2>1. /\ agentNode = "human_approval" /\ agentTop' = agentTop
        /\ agentState'.lastTool = agentState.lastTool /\ agentState'.coverage = agentState.coverage
        /\ agentNode' \in {"raised", "tool_executor", "finalizer"}
        /\ agentState'.status \in {agentState.status, "author_rejected"}
    BY <1>9, AuthorSteps
  <2> QED
    BY <1>3, <1>4, <2>1 DEF AgentEvidence, Drafted, Ending
<1>10. CASE Finalize
  <2>1. /\ agentNode = "finalizer" /\ agentNode' = "done" /\ agentTop' = agentTop
        /\ agentState'.lastTool = agentState.lastTool /\ agentState'.coverage = agentState.coverage
        /\ IF agentState.status = "none"
           THEN agentState'.status \in {"complete", "partial"} =>
                    \/ agentState.lastTool = "stage_writing_draft"
                    \/ agentState.coverage \in {"complete", "partial"}
           ELSE agentState'.status = agentState.status
    BY <1>10, FinalizeStep
  <2>2. agentState.status \notin {"complete", "partial"}
    BY <2>1 DEF AgentEvidence
  <2>3. agentState'.status \in {"complete", "partial"} =>
            Successes("stage_writing_draft")' = 1 \/ Backed(agentLog')
    BY <1>3, <2>1, <2>2 DEF AgentEvidence
  <2>4. Ending'
    BY <2>1 DEF Ending
  <2> QED
    BY <1>3, <1>4, <2>1, <2>3, <2>4 DEF AgentEvidence
<1> QED
  BY <1>2, <1>5, <1>6, <1>7, <1>8, <1>9, <1>10 DEF AgentNext

---------------------------------------------------------------------------
(* The invariant of the agent, and its properties *)

\* The invariant holds when a run begins.
LEMMA AgentInvInit == AgentAssumption /\ AgentInit => AgentInv
<1> SUFFICES ASSUME AgentAssumption, AgentInit PROVE AgentInv
  OBVIOUS
<1>1. /\ agentNode = "idle" /\ agentLog = <<>> /\ agentQueue = <<>> /\ agentTop = FALSE
      /\ agentState = InitialAgentState
  BY DEF AgentInit
<1>2. /\ IsState(agentState) /\ agentState.turns = 0 /\ agentState.tools = <<>>
      /\ agentState.coverage = "none" /\ agentState.status = "none" /\ agentState.lastTool = "none"
  BY <1>1 DEF InitialAgentState, IsState
<1>3. IsLog(<<>>) /\ Len(<<>>) = 0 /\ DOMAIN <<>> = {}
  <2>1. <<>> \in Seq({})
    OBVIOUS
  <2> QED
    BY <2>1 DEF IsLog
<1>4. (\A type : Places(agentLog, type) = {}) /\ SuccessPlaces(agentLog) = {} /\ ~Backed(agentLog)
  BY <1>1, <1>3 DEF Places, SuccessPlaces, Backed
<1>5. \A tool : Successes(tool) = 0
  <2>1. \A tool : {i \in DOMAIN agentState.tools : agentState.tools[i] = tool} = {}
    BY <1>2, <1>3
  <2> QED
    BY <2>1, FS_EmptySet DEF Successes
<1>6. AgentShape
  <2>1. <<>> \in Seq(AgentTools)
    OBVIOUS
  <2> QED
    BY <1>1, <1>2, <1>3, <2>1 DEF AgentShape
<1>7. AgentPlace
  BY <1>1 DEF AgentPlace, Nodes, AgentFinal
<1>8. AgentCounts
  <2>1. Cardinality({} \cup {}) = 0 /\ Cardinality({}) = 0
    BY FS_EmptySet
  <2>2. SoundAnswers(agentLog)
    BY <1>4 DEF SoundAnswers, DistinctAnswers
  <2>3. AgentWithinBudget
    BY <1>2, <1>3, <1>5 DEF AgentWithinBudget, AgentAssumption
  <2> QED
    BY <1>2, <1>3, <1>4, <1>5, <2>1, <2>2, <2>3 DEF AgentCounts
<1>9. AgentDrafts /\ AgentAgrees
  BY <1>1, <1>4 DEF AgentDrafts, AgentAgrees, Paused, Drafting
<1>10. AgentEvidence
  BY <1>1, <1>2, <1>4 DEF AgentEvidence
<1> QED
  BY <1>6, <1>7, <1>8, <1>9, <1>10 DEF AgentInv

\* The invariant holds after every step.
LEMMA AgentInvStep == AgentAssumption /\ AgentInv /\ [AgentNext]_agentVars => AgentInv'
<1> SUFFICES ASSUME AgentAssumption, AgentInv, [AgentNext]_agentVars PROVE AgentInv'
  OBVIOUS
<1>1. CASE AgentNext
  BY <1>1, ShapeStep, PlaceStep, CountsStep, DraftsStep, AgreesStep, EvidenceStep DEF AgentInv
<1>2. CASE UNCHANGED agentVars
  <2>1. AgentShape' /\ AgentPlace'
    BY <1>2 DEF AgentInv, agentVars, AgentShape, AgentPlace, AgentFailed, Successes
  <2>2. AgentCounts'
    BY <1>2 DEF AgentInv, agentVars, AgentCounts, AgentWithinBudget, Successes
  <2>3. AgentDrafts'
    BY <1>2 DEF AgentInv, agentVars, AgentDrafts, AgentFailed, Paused, Drafting, Drafted, Ending
  <2>4. AgentAgrees'
    BY <1>2 DEF AgentInv, agentVars, AgentAgrees, Paused, Agrees, Projected, Projection
  <2>5. AgentEvidence'
    BY <1>2 DEF AgentInv, agentVars, AgentEvidence, AgentFailed, Drafted, Ending, Successes
  <2> QED
    BY <2>1, <2>2, <2>3, <2>4, <2>5 DEF AgentInv
<1> QED
  BY <1>1, <1>2

\* The invariant holds.
LEMMA AgentInvHolds == AgentSpec => []AgentInv
<1>1. AgentInit => AgentInv
  BY AgentAssumption, AgentInvInit
<1>2. AgentInv /\ [AgentNext]_agentVars => AgentInv'
  BY AgentAssumption, AgentInvStep
<1> QED
  BY <1>1, <1>2, PTL DEF AgentSpec

\* Whatever batches the model answers with, the limits of AgentRunConfig hold.
THEOREM AgentStaysWithinBudget == AgentSpec => []AgentWithinBudget
<1>1. AgentInv => AgentWithinBudget
  BY DEF AgentInv, AgentCounts
<1> QED
  BY <1>1, AgentInvHolds, PTL

\* Whoever asks for a draft, none is staged that the author did not approve behind the matrix.
THEOREM DraftsNeedApproval == AgentSpec => []DraftsAreApproved
<1>1. AgentInv => DraftsAreApproved
  <2> SUFFICES ASSUME AgentInv PROVE DraftsAreApproved
    OBVIOUS
  <2> DEFINE At(type) == Places(agentLog, type)
  <2>1. /\ \A i, j \in At("internal_action_result") : i = j
        /\ \A i, j \in At("approval_decision") : i = j
    BY DEF AgentInv, AgentDrafts
  <2>2. \A S : (\A i, j \in S : i = j) => Cardinality(S) <= 1
    <3> SUFFICES ASSUME NEW S, \A i, j \in S : i = j PROVE Cardinality(S) <= 1
      OBVIOUS
    <3>1. CASE S = {}
      BY <3>1, FS_EmptySet
    <3>2. CASE S # {}
      <4>1. PICK x : x \in S
        BY <3>2
      <4>2. S = {x}
        <5>1. \A y \in S : y = x
          BY <4>1
        <5> QED
          BY <4>1, <5>1
      <4>3. Cardinality({x}) = 1
        BY FS_Singleton
      <4> QED
        BY <4>2, <4>3
    <3> QED
      BY <3>1, <3>2
  <2>3. Successes("stage_writing_draft") = Cardinality(At("internal_action_result"))
    BY DEF AgentInv, AgentCounts
  <2>4. \A staged \in At("internal_action_result") :
            \E matrix \in At("tool_result"), asked \in At("approval_requested"),
               decided \in At("approval_decision") :
                /\ matrix < asked /\ asked < decided /\ decided < staged
                /\ agentLog[decided].approved /\ agentLog[matrix].status = "success"
    BY DEF AgentInv, AgentDrafts, ApprovedBefore, SuccessPlaces
  <2> QED
    BY <2>1, <2>2, <2>3, <2>4 DEF DraftsAreApproved, Places
<1> QED
  BY <1>1, AgentInvHolds, PTL

\* The state repeats the trace and nothing else: a paused run can always be resumed.
THEOREM TraceHasAuthority == AgentSpec => []TraceIsAuthority
<1>1. AgentInv => TraceIsAuthority
  <2> SUFFICES ASSUME AgentInv PROVE TraceIsAuthority
    OBVIOUS
  <2>1. \A i, j \in DOMAIN agentLog :
            agentLog[i].type = "tool_result" /\ agentLog[j].type = "tool_result"
                /\ agentLog[i].id = agentLog[j].id => i = j
    BY DEF AgentInv, AgentCounts, SoundAnswers, DistinctAnswers, Places
  <2>2. Len(agentState.tools) =
            Cardinality({i \in DOMAIN agentLog :
                \/ agentLog[i].type = "internal_action_result"
                \/ agentLog[i].type = "tool_result" /\ agentLog[i].status = "success"})
    <3>1. Places(agentLog, "internal_action_result") \cup SuccessPlaces(agentLog) =
            {i \in DOMAIN agentLog :
                \/ agentLog[i].type = "internal_action_result"
                \/ agentLog[i].type = "tool_result" /\ agentLog[i].status = "success"}
      BY DEF Places, SuccessPlaces
    <3> QED
      BY <3>1 DEF AgentInv, AgentCounts
  <2>3. agentNode = "human_approval" /\ agentState.pending = "registered" => Agrees /\ ~Decided
    <3> SUFFICES ASSUME Paused PROVE Agrees /\ ~Decided
      BY DEF Paused
    <3>1. Agrees
      BY DEF AgentInv, AgentAgrees
    <3>2. Places(agentLog, "approval_decision") = {}
      BY DEF AgentInv, AgentDrafts, Paused, Drafting, Drafted, Ending
    <3> QED
      BY <3>1, <3>2, RecordedPlaces DEF Decided
  <2> QED
    BY <2>1, <2>2, <2>3 DEF TraceIsAuthority
<1> QED
  BY <1>1, AgentInvHolds, PTL

\* No run ends complete or partial on nothing.
THEOREM OutcomesHaveEvidence == AgentSpec => []OutcomesAreBacked
<1>1. AgentInv => OutcomesAreBacked
  <2> SUFFICES ASSUME AgentInv, Backed(agentLog)
               PROVE  /\ Successes("retrieve_evidence") >= 1
                      /\ \E e \in Recorded("tool_result") : e.status = "success" /\ e.found # {}
    BY DEF OutcomesAreBacked, AgentInv, AgentEvidence
  <2> QED
    BY DEF AgentInv, AgentEvidence, Backed, SuccessPlaces, Places, Recorded, AgentEvents
<1> QED
  BY <1>1, AgentInvHolds, PTL

---------------------------------------------------------------------------
(* The clients of a provider *)

\* A list of checks of which one applies gives the result of one that applies.
LEMMA SomeCheckApplies ==
  ASSUME NEW checks, NEW n \in Nat, DOMAIN checks = 1..n, \E i \in 1..n : checks[i].when
  PROVE  \E i \in 1..n : checks[i].when /\ FirstThatApplies(checks) = checks[i].result
<1> DEFINE Applying == {i \in 1..n : checks[i].when}
           First(i) == checks[i].when /\ \A j \in 1..(i - 1) : ~checks[j].when
<1>1. PICK m \in Applying : \A k \in Applying : m <= k
  <2>1. Applying \in SUBSET Nat /\ Applying # {}
    OBVIOUS
  <2> HIDE DEF Applying
  <2> QED
    BY <2>1, LeastOf
<1>2. m \in DOMAIN checks /\ First(m)
  BY <1>1
<1>3. \E i \in DOMAIN checks : First(i)
  BY <1>2
<1>4. (CHOOSE i \in DOMAIN checks : First(i)) \in DOMAIN checks
      /\ First(CHOOSE i \in DOMAIN checks : First(i))
  BY <1>3
<1> QED
  BY <1>4 DEF FirstThatApplies

\* Whatever comes back, the client of a canary succeeds, fails, does not know or raises.
LEMMA CanaryCallEnds ==
  ASSUME NEW endpoint \in Canaries, NEW r
  PROVE  Call(endpoint, r).status \in {"success", "failed", "unknown", "raised"}
<1>1. \A when, status, code, usage :
        /\ Check(when, status, code, usage).when = when
        /\ Check(when, status, code, usage).result.status = status
  BY DEF Check, Result
<1>2. ASSUME NEW checks, NEW n \in Nat, DOMAIN checks = 1..n, \E i \in 1..n : checks[i].when,
             \A i \in 1..n : checks[i].result.status \in {"success", "failed", "unknown", "raised"}
      PROVE  FirstThatApplies(checks).status \in {"success", "failed", "unknown", "raised"}
  BY <1>2, SomeCheckApplies
<1>3. GLMCanaryCall(r).status \in {"success", "failed", "unknown", "raised"}
  <2> DEFINE checks == <<
        Check(r.sent = "lost", "unknown", "unknown_outcome", Nothing),
        Check(r.sent = "cut", "raised", "unexpected", Nothing),
        Check(~Ok(r), "failed", StatusCode(r), Nothing),
        Check(r.body \in {"garbage", "list"}, "failed", "contract_invalid", Nothing),
        Check(r.body = "error", "failed", "permanent_provider", Nothing),
        Check(r.body = "null_message", "raised", "unexpected", Nothing),
        Check(r.body = "no_content", "failed", "contract_invalid", Nothing),
        Check(r.usage = "negative", "raised", "unexpected", Nothing),
        Check(~r.sameModel \/ r.content # "good" \/ r.usage \in {"missing", "total"},
              "failed", "contract_invalid", Nothing),
        Check(TRUE, "success", "none", ReportedGLM(r))>>
  <2>1. GLMCanaryCall(r) = FirstThatApplies(checks)
    BY Zenon DEF GLMCanaryCall
  <2>2. DOMAIN checks = 1..10
    OBVIOUS
  <2>3. checks[10].when
    BY DEF Check
  <2>4. \A i \in 1..10 : checks[i].result.status \in {"success", "failed", "unknown", "raised"}
    BY DEF Check, Result
  <2> HIDE DEF checks
  <2>5. FirstThatApplies(checks).status \in {"success", "failed", "unknown", "raised"}
    <3>1. 10 \in Nat /\ \E i \in 1..10 : checks[i].when
      BY <2>3
    <3> QED
      BY <1>2, <2>2, <2>4, <3>1
  <2> QED
    BY <2>1, <2>5
<1>4. DeepSeekCanaryCall(r).status \in {"success", "failed", "unknown", "raised"}
  <2> DEFINE checks == <<
        Check(r.sent = "lost", "unknown", "unknown_outcome", Nothing),
        Check(r.sent = "cut", "raised", "unexpected", Nothing),
        Check(~Ok(r), "failed", StatusCode(r), ReportedDeepSeek(r)),
        Check(r.body = "error", "failed", "permanent_provider", ReportedDeepSeek(r)),
        Check(r.body = "null_message", "raised", "unexpected", Nothing),
        Check(r.body # "content" \/ ~r.sameModel \/ r.content # "good" \/ ReportedDeepSeek(r) = Nothing,
              "failed", "contract_invalid", ReportedDeepSeek(r)),
        Check(TRUE, "success", "none", ReportedDeepSeek(r))>>
  <2>1. DeepSeekCanaryCall(r) = FirstThatApplies(checks)
    BY Zenon DEF DeepSeekCanaryCall
  <2>2. DOMAIN checks = 1..7
    OBVIOUS
  <2>3. checks[7].when
    BY DEF Check
  <2>4. \A i \in 1..7 : checks[i].result.status \in {"success", "failed", "unknown", "raised"}
    BY DEF Check, Result
  <2> HIDE DEF checks
  <2>5. FirstThatApplies(checks).status \in {"success", "failed", "unknown", "raised"}
    <3>1. 7 \in Nat /\ \E i \in 1..7 : checks[i].when
      BY <2>3
    <3> QED
      BY <1>2, <2>2, <2>4, <3>1
  <2> QED
    BY <2>1, <2>5
<1> QED
  BY <1>3, <1>4 DEF Call, Canaries

---------------------------------------------------------------------------
(* The canaries: one call, and a stream that says how it ended *)

CanarySpec == CanaryInit /\ [][CanaryNext]_canaryVars

CanaryEvents ==
    {"run_started", "brief_approved", "researching", "operation_reserved", "operation_dispatched",
     "operation_succeeded", "operation_unknown", "operation_failed", "validating", "complete", "failed"}

\* The line a directory has in place i, if it has one: what was called decides the last lines.
Line(i) == IF i <= 5 THEN Preamble[i] ELSE Epilogue[i - 5]
Written == Len(canaryStream)
Known == canaryResult.status \in {"success", "failed", "unknown"}
AllWritten == Written = 5 + Len(Epilogue)

\* A call that was made is told by a stream with the whole preamble, and a stream with lines
\* behind the preamble by a call whose outcome was known; the place of the execution fits both.
CanaryTold ==
    /\ canary \in Canaries
    /\ canaryStream \in Seq(CanaryEvents)
    /\ \A i \in 1..Written : canaryStream[i] = Line(i)
CanaryPlace ==
    /\ \/ canaryCalls = 0 /\ Written <= 5
       \/ canaryCalls = 1 /\ Written \in 5..(5 + Len(Epilogue))
    /\ Written > 5 => Known
    /\ Written > 6 \/ canaryFiles # {} => ~Refused
    /\ canaryFiles # {} => AllWritten
    /\ \/ canaryPc = "idle"
       \/ canaryPc = "preamble" /\ Written < 5
       \/ canaryPc = "call" /\ Written = 5 /\ canaryCalls = 0
       \/ /\ canaryPc = "settle" /\ canaryCalls = 1 /\ Known /\ Written < 5 + Len(Epilogue)
          /\ Written > 5 => ~Refused
       \/ canaryPc \in {"checkpoint", "artifacts"} /\ AllWritten /\ ~Refused
CanaryInv == CanaryTold /\ CanaryPlace

\* The lines of a directory are events, and no two of them are alike.
LEMMA LinesDiffer ==
  ASSUME Known
  PROVE  /\ Len(Epilogue) \in {2, 3}
         /\ \A i \in 1..(5 + Len(Epilogue)) : Line(i) \in CanaryEvents
         /\ \A i, j \in 1..(5 + Len(Epilogue)) : Line(i) = Line(j) => i = j
<1>1. /\ Line(1) = "run_started" /\ Line(2) = "brief_approved" /\ Line(3) = "researching"
      /\ Line(4) = "operation_reserved" /\ Line(5) = "operation_dispatched"
  BY DEF Line, Preamble
<1>2. CASE canaryResult.status = "success"
  <2>1. /\ Len(Epilogue) = 3 /\ Line(6) = "operation_succeeded" /\ Line(7) = "validating"
        /\ Line(8) = "complete"
    BY <1>2 DEF Line, Epilogue, TerminalEvent
  <2> QED
    BY <1>1, <2>1 DEF CanaryEvents
<1>3. CASE canaryResult.status \in {"failed", "unknown"}
  <2>1. /\ Len(Epilogue) = 2 /\ Line(7) = "failed"
        /\ Line(6) = IF canaryResult.status = "failed" THEN "operation_failed" ELSE "operation_unknown"
    BY <1>3 DEF Line, Epilogue, TerminalEvent
  <2> QED
    BY <1>1, <2>1 DEF CanaryEvents
<1> QED
  BY <1>2, <1>3 DEF Known

\* The initial states satisfy the invariant.
LEMMA InitCanary == CanaryInit => CanaryInv
BY DEF CanaryInit, CanaryInv, CanaryTold, CanaryPlace, Written, AllWritten, Result, Refused

\* What depends on the stream, the answer and the place does not change while they do not.
LEMMA CanaryStill ==
  ASSUME canaryResult' = canaryResult
  PROVE  /\ Epilogue' = Epilogue /\ Known' = Known /\ Refused' = Refused
         /\ \A i : Line(i)' = Line(i)
BY DEF Epilogue, TerminalEvent, Known, Refused, Line

\* A line that is written is the next one.
LEMMA CanaryAppends ==
  ASSUME CanaryInv, canaryResult' = canaryResult, Written < 5 \/ (Known /\ Written < 5 + Len(Epilogue)),
         canaryStream' = Append(canaryStream, Line(Written + 1))
  PROVE  /\ canaryStream' \in Seq(CanaryEvents)
         /\ Written' = Written + 1
         /\ \A i \in 1..Written' : canaryStream'[i] = Line(i)'
<1>1. Written \in Nat /\ canaryStream \in Seq(CanaryEvents)
  BY DEF CanaryInv, CanaryTold, Written
<1>2. Line(Written + 1) \in CanaryEvents
  <2>1. CASE Written < 5
    BY <1>1, <2>1 DEF Line, Preamble, CanaryEvents
  <2>2. CASE ~(Written < 5)
    <3>1. Known /\ Len(Epilogue) \in {2, 3} /\ Written + 1 \in 1..(5 + Len(Epilogue))
      BY <1>1, <2>2, LinesDiffer
    <3> QED
      BY <3>1, LinesDiffer
  <2> QED
    BY <2>1, <2>2
<1>3. /\ canaryStream' \in Seq(CanaryEvents) /\ Len(canaryStream') = Written + 1
      /\ \A i \in 1..Written : canaryStream'[i] = canaryStream[i]
      /\ canaryStream'[Written + 1] = Line(Written + 1)
  BY <1>1, <1>2 DEF Written
<1>4. \A i \in 1..(Written + 1) : canaryStream'[i] = Line(i)
  BY <1>1, <1>3 DEF CanaryInv, CanaryTold
<1> QED
  BY <1>3, <1>4, CanaryStill DEF Written

\* Every step preserves the invariant.
LEMMA StepCanary == CanaryInv /\ [CanaryNext]_canaryVars => CanaryInv'
<1> SUFFICES ASSUME CanaryInv, [CanaryNext]_canaryVars PROVE CanaryInv'
  OBVIOUS
<1>1. /\ Written \in Nat /\ Len(Epilogue) \in {2, 3}
      /\ canaryStream = <<>> <=> Written = 0
  BY DEF CanaryInv, CanaryTold, Written, Epilogue
\* A step that calls nothing and writes nothing to the stream.
<1>2. CASE /\ canary' = canary /\ canaryStream' = canaryStream /\ canaryResult' = canaryResult
           /\ canaryCalls' = canaryCalls
           /\ \/ canaryFiles' = canaryFiles
              \/ AllWritten /\ ~Refused
           /\ \/ canaryPc' \in {canaryPc, "idle"}
              \/ canaryPc' = "preamble" /\ Written = 0
              \/ canaryPc = "checkpoint" /\ canaryPc' = "artifacts"
  <2>1. Epilogue' = Epilogue /\ Known' = Known /\ Refused' = Refused /\ \A i : Line(i)' = Line(i)
    BY <1>2, CanaryStill
  <2>2. Written' = Written /\ AllWritten' = AllWritten
    BY <1>2, <2>1 DEF Written, AllWritten
  <2>3. CanaryTold'
    BY <1>2, <2>1, <2>2 DEF CanaryInv, CanaryTold
  <2>4. CanaryPlace'
    BY <1>1, <1>2, <2>1, <2>2 DEF CanaryInv, CanaryPlace
  <2> QED
    BY <2>3, <2>4 DEF CanaryInv
<1>3. CASE CanaryStarts
  BY <1>1, <1>2, <1>3 DEF CanaryStarts, Admitted
<1>4. CASE CanaryRefused \/ CanaryDies \/ UNCHANGED canaryVars
  BY <1>2, <1>4 DEF CanaryRefused, CanaryDies, canaryVars
<1>5. CASE CanaryCheckpoints \/ CanaryWritesArtifacts
  <2>1. canaryPc \in {"checkpoint", "artifacts"}
    BY <1>5 DEF CanaryCheckpoints, CanaryWritesArtifacts
  <2>2. AllWritten /\ ~Refused
    BY <2>1 DEF CanaryInv, CanaryPlace
  <2> QED
    BY <1>2, <1>5, <2>2 DEF CanaryCheckpoints, CanaryWritesArtifacts
<1>6. CASE CanaryWrites
  <2>1. canaryPc = "preamble" /\ Written < 5 /\ canaryCalls = 0 /\ canaryFiles = {}
    <3>1. canaryPc = "preamble"
      BY <1>6 DEF CanaryWrites
    <3> QED
      BY <1>1, <3>1 DEF CanaryInv, CanaryPlace, AllWritten
  <2>2. /\ canaryStream' = Append(canaryStream, Line(Written + 1))
        /\ canaryPc' = IF Written = 4 THEN "call" ELSE "preamble"
        /\ canary' = canary /\ canaryResult' = canaryResult
        /\ canaryFiles' = canaryFiles /\ canaryCalls' = canaryCalls
    <3>1. Line(Written + 1) = Preamble[Written + 1]
      BY <1>1, <2>1 DEF Line
    <3>2. Len(Preamble) = 5
      BY DEF Preamble
    <3>3. ReadyToCall <=> Written = 4
      BY <3>2 DEF ReadyToCall, Written
    <3> QED
      BY <1>6, <3>1, <3>3 DEF CanaryWrites, Written
  <2>3. /\ canaryStream' \in Seq(CanaryEvents) /\ Written' = Written + 1
        /\ \A i \in 1..Written' : canaryStream'[i] = Line(i)'
    BY <2>1, <2>2, CanaryAppends
  <2>4. Epilogue' = Epilogue /\ Known' = Known /\ Refused' = Refused
    BY <2>2, CanaryStill
  <2>5. CanaryTold'
    BY <2>2, <2>3 DEF CanaryInv, CanaryTold
  <2>6. CanaryPlace'
    <3>1. Written \in Nat /\ Written' = Written + 1 /\ Written + 1 <= 5
      BY <1>1, <2>1, <2>3
    <3>2. canaryCalls' = 0 /\ canaryFiles' = {}
      BY <2>1, <2>2
    <3>3. IF Written + 1 = 5 THEN canaryPc' = "call" ELSE canaryPc' = "preamble"
      BY <2>2, <3>1
    <3> QED
      BY <3>1, <3>2, <3>3 DEF CanaryPlace
  <2> QED
    BY <2>5, <2>6 DEF CanaryInv
<1>7. CASE CanaryCall
  <2>1. PICK r \in CanaryReplies :
          /\ canaryResult' = Call(canary, r)
          /\ canaryPc' = IF Call(canary, r).status = "raised" THEN "idle" ELSE "settle"
    BY <1>7 DEF CanaryCall
  <2>2. canaryPc = "call" /\ Written = 5 /\ canaryCalls = 0 /\ canaryFiles = {}
    <3>1. canaryPc = "call"
      BY <1>7 DEF CanaryCall
    <3> QED
      BY <1>1, <3>1 DEF CanaryInv, CanaryPlace, AllWritten
  <2>3. /\ canaryCalls' = 1 /\ canaryStream' = canaryStream /\ canary' = canary
        /\ canaryFiles' = canaryFiles
    BY <1>7, <2>2 DEF CanaryCall
  <2>4. Written' = 5 /\ canaryPc' \in {"idle", "settle"} /\ (canaryPc' = "settle" => Known')
    BY <2>1, <2>2, <2>3, CanaryCallEnds DEF Written, Known, CanaryInv, CanaryTold
  <2>5. Len(Epilogue)' \in {2, 3}
    BY DEF Epilogue
  <2>6. \A i \in 1..5 : canaryStream'[i] = Line(i)'
    BY <2>2, <2>3 DEF CanaryInv, CanaryTold, Line
  <2>7. CanaryTold'
    BY <2>3, <2>4, <2>6 DEF CanaryInv, CanaryTold
  <2>8. CanaryPlace'
    BY <2>2, <2>3, <2>4, <2>5 DEF CanaryPlace
  <2> QED
    BY <2>7, <2>8 DEF CanaryInv
<1>8. CASE CanarySettles
  <2>1. /\ canaryPc = "settle" /\ canaryCalls = 1 /\ Known
        /\ Written \in 5..(5 + Len(Epilogue)) /\ Written < 5 + Len(Epilogue)
        /\ Written > 5 => ~Refused
        /\ canaryFiles = {}
    <3>1. canaryPc = "settle"
      BY <1>8 DEF CanarySettles
    <3> QED
      BY <1>1, <3>1 DEF CanaryInv, CanaryPlace, AllWritten
  <2>2. /\ canaryStream' = Append(canaryStream, Line(Written + 1))
        /\ canaryPc' = IF Refused THEN "idle"
                       ELSE IF Written + 1 = 5 + Len(Epilogue) THEN "checkpoint" ELSE "settle"
        /\ canary' = canary /\ canaryResult' = canaryResult
        /\ canaryFiles' = canaryFiles /\ canaryCalls' = canaryCalls
    <3>1. Len(Preamble) = 5
      BY DEF Preamble
    <3>2. Line(Written + 1) = Epilogue[Written - 5 + 1]
      BY <1>1, <2>1 DEF Line
    <3>3. Written - 5 + 1 = Len(Epilogue) <=> Written + 1 = 5 + Len(Epilogue)
      BY <1>1
    <3> QED
      BY <1>8, <3>1, <3>2, <3>3 DEF CanarySettles, Written
  <2>3. /\ canaryStream' \in Seq(CanaryEvents) /\ Written' = Written + 1
        /\ \A i \in 1..Written' : canaryStream'[i] = Line(i)'
    BY <2>1, <2>2, CanaryAppends
  <2>4. Epilogue' = Epilogue /\ Known' = Known /\ Refused' = Refused
    BY <2>2, CanaryStill
  <2>5. CanaryTold'
    BY <2>2, <2>3 DEF CanaryInv, CanaryTold
  <2>6. CanaryPlace'
    BY <1>1, <2>1, <2>2, <2>3, <2>4 DEF CanaryPlace, AllWritten
  <2> QED
    BY <2>5, <2>6 DEF CanaryInv
<1> QED
  BY <1>3, <1>4, <1>5, <1>6, <1>7, <1>8 DEF CanaryNext

\* What the invariant says of a directory is what the property asks.
LEMMA CanaryConcludes == CanaryInv => CanaryCallsOnce
<1> SUFFICES ASSUME CanaryInv PROVE CanaryCallsOnce
  OBVIOUS
<1> DEFINE Has(event) == \E i \in DOMAIN canaryStream : canaryStream[i] = event
<1>1. /\ Written \in Nat /\ DOMAIN canaryStream = 1..Written /\ Len(Epilogue) \in {2, 3}
      /\ Written = Len(canaryStream)
  BY DEF CanaryInv, CanaryTold, Written, Epilogue
<1>2. Written <= 5 + Len(Epilogue)
  BY <1>1 DEF CanaryInv, CanaryTold, CanaryPlace
<1>3. /\ Line(1) = "run_started" /\ Line(2) = "brief_approved" /\ Line(3) = "researching"
      /\ Line(4) = "operation_reserved" /\ Line(5) = "operation_dispatched"
  BY DEF Line, Preamble
<1>4. canaryCalls <= 1 /\ (canaryCalls = 1 => Has("operation_dispatched"))
  <2>1. ASSUME canaryCalls = 1 PROVE 5 \in DOMAIN canaryStream /\ canaryStream[5] = "operation_dispatched"
    BY <1>1, <1>3, <2>1 DEF CanaryInv, CanaryTold, CanaryPlace
  <2> QED
    BY <2>1 DEF CanaryInv, CanaryTold, CanaryPlace
<1>5. Has("complete") => canaryResult.status = "success" /\ canaryResult.usage # "over"
  <2> SUFFICES ASSUME NEW i \in 1..Written, Line(i) = "complete"
               PROVE  canaryResult.status = "success" /\ canaryResult.usage # "over"
    BY <1>1 DEF CanaryInv, CanaryTold, CanaryPlace
  <2>1. i > 5 /\ Known
    BY <1>1, <1>3 DEF CanaryInv, CanaryTold, CanaryPlace
  <2>2. Epilogue[i - 5] = "complete" /\ i - 5 \in 1..Len(Epilogue)
    BY <1>1, <1>2, <2>1 DEF Line
  <2>3. canaryResult.status = "success" /\ i = 8
    <3>1. CASE canaryResult.status = "success"
      BY <1>1, <2>2, <3>1 DEF Epilogue, TerminalEvent
    <3>2. CASE canaryResult.status \in {"failed", "unknown"}
      BY <1>1, <2>2, <3>2 DEF Epilogue, TerminalEvent
    <3> QED
      BY <2>1, <3>1, <3>2 DEF Known
  <2>4. ~Refused
    BY <1>1, <2>3 DEF CanaryInv, CanaryTold, CanaryPlace
  <2> QED
    BY <2>3, <2>4 DEF Refused
<1>6. ASSUME canaryFiles # {}
      PROVE  /\ canaryStream[Len(canaryStream)] \in {"complete", "failed"}
             /\ Has("operation_unknown") <=> canaryResult.status = "unknown"
  <2>1. Written = 5 + Len(Epilogue) /\ Known
    <3>1. AllWritten
      BY <1>6 DEF CanaryInv, CanaryPlace
    <3>2. Written = 5 + Len(Epilogue) /\ Written > 5
      BY <1>1, <3>1 DEF AllWritten
    <3> QED
      BY <3>2 DEF CanaryInv, CanaryPlace
  <2>2. \A i \in 1..Written : canaryStream[i] = Line(i)
    BY DEF CanaryInv, CanaryTold, CanaryPlace
  <2>3. CASE canaryResult.status = "success"
    <3>1. /\ Written = 8 /\ Line(6) = "operation_succeeded" /\ Line(7) = "validating"
          /\ Line(8) = "complete"
      BY <2>1, <2>3 DEF Line, Epilogue, TerminalEvent
    <3> QED
      BY <1>1, <1>3, <2>2, <2>3, <3>1
  <2>4. CASE canaryResult.status \in {"failed", "unknown"}
    <3>1. /\ Written = 7 /\ Line(7) = "failed"
          /\ Line(6) = IF canaryResult.status = "failed" THEN "operation_failed"
                       ELSE "operation_unknown"
      BY <2>1, <2>4 DEF Line, Epilogue, TerminalEvent
    <3> QED
      BY <1>1, <1>3, <2>2, <2>4, <3>1
  <2> QED
    BY <2>1, <2>3, <2>4 DEF Known
<1>7. \A i, j \in DOMAIN canaryStream : canaryStream[i] = canaryStream[j] => i = j
  <2>1. CASE Written <= 5
    BY <1>1, <1>3, <2>1 DEF CanaryInv, CanaryTold, CanaryPlace
  <2>2. CASE Written > 5
    <3>1. Known
      BY <2>2 DEF CanaryInv, CanaryTold, CanaryPlace
    <3>2. 1..Written \subseteq 1..(5 + Len(Epilogue))
      BY <1>1, <1>2
    <3> QED
      BY <1>1, <3>1, <3>2, LinesDiffer DEF CanaryInv, CanaryTold, CanaryPlace
  <2> QED
    BY <1>1, <2>1, <2>2
<1> QED
  BY <1>4, <1>5, <1>6, <1>7 DEF CanaryCallsOnce

\* However often a canary is executed and wherever it dies, its provider is called once at
\* most and never before the dispatch is durable, and its directory says how the call ended.
THEOREM CanaryPaysOnce == CanarySpec => []CanaryCallsOnce
<1>1. CanarySpec => []CanaryInv
  BY InitCanary, StepCanary, PTL DEF CanarySpec
<1> QED
  BY <1>1, CanaryConcludes, PTL

---------------------------------------------------------------------------
(* What a client makes of a reply *)

\* Every reply is one of the service to one call, and every client has read it.
AdapterSpec == AdapterInit /\ [][AdapterNext]_adapterVars
AdapterInv ==
    adapterReply = NoReply \/ (adapterReply \in Replies /\ adapterResult = [endpoint \in Endpoints |-> Call(endpoint, adapterReply)])

ReplyKinds ==
    [sent : {"answered", "lost", "cut"}, status : Statuses, body : Bodies, content : Contents,
     truncated : BOOLEAN, sameModel : BOOLEAN, usage : Usages]

LEMMA RepliesAreTyped == Replies \subseteq ReplyKinds
<1>1. Whole \in ReplyKinds
  BY DEF Whole, ReplyKinds, Statuses, Bodies, Contents, Usages
<1>2. \A w \in ReplyKinds :
        /\ \A s \in {"answered", "lost", "cut"} : [w EXCEPT !.sent = s] \in ReplyKinds
        /\ \A c \in Statuses : [w EXCEPT !.status = c] \in ReplyKinds
        /\ \A b \in Bodies : [w EXCEPT !.body = b] \in ReplyKinds
        /\ \A t \in Contents : [w EXCEPT !.content = t] \in ReplyKinds
        /\ \A u \in Usages : [w EXCEPT !.usage = u] \in ReplyKinds
  BY DEF ReplyKinds
<1>3. \A w \in ReplyKinds : \A x \in BOOLEAN :
        [w EXCEPT !.truncated = x] \in ReplyKinds /\ [w EXCEPT !.sameModel = x] \in ReplyKinds
  BY DEF ReplyKinds
<1>4. Lost \in ReplyKinds /\ CutShort \in ReplyKinds
  BY <1>1, <1>2 DEF Lost, CutShort
<1>5. Unread \in ReplyKinds
  <2>1. Unread = [[Whole EXCEPT !.body = "garbage"] EXCEPT !.usage = "missing"]
    BY DEF Unread
  <2>2. "garbage" \in Bodies /\ "missing" \in Usages
    BY DEF Bodies, Usages
  <2> QED
    BY <1>1, <1>2, <2>1, <2>2
<1>6. ASSUME NEW c \in Statuses, NEW b \in {"garbage", "list"}
      PROVE  GarbledReply(c, b) \in ReplyKinds
  <2>1. GarbledReply(c, b) = [[Unread EXCEPT !.status = c] EXCEPT !.body = b]
    BY DEF GarbledReply
  <2>2. b \in Bodies
    BY DEF Bodies
  <2>3. [Unread EXCEPT !.status = c] \in ReplyKinds
    BY <1>2, <1>5
  <2> QED
    BY <1>2, <2>1, <2>2, <2>3
<1>7. ASSUME NEW c \in Statuses, NEW b \in Bodies \ {"garbage", "list"}, NEW u \in Usages
      PROVE  RefusedReply(c, b, u) \in ReplyKinds
  <2>1. RefusedReply(c, b, u) = [[[Whole EXCEPT !.status = c] EXCEPT !.body = b] EXCEPT !.usage = u]
    BY DEF RefusedReply
  <2>2. [Whole EXCEPT !.status = c] \in ReplyKinds
    BY <1>1, <1>2
  <2>3. [[Whole EXCEPT !.status = c] EXCEPT !.body = b] \in ReplyKinds
    BY <1>2, <2>2
  <2> QED
    BY <1>2, <2>1, <2>3
<1>8. ASSUME NEW t \in Contents, NEW x \in BOOLEAN, NEW m \in BOOLEAN, NEW u \in Usages
      PROVE  ContentReply(t, x, m, u) \in ReplyKinds
  <2>1. ContentReply(t, x, m, u)
          = [[[[Whole EXCEPT !.content = t] EXCEPT !.truncated = x] EXCEPT !.sameModel = m] EXCEPT !.usage = u]
    BY DEF ContentReply
  <2>2. [Whole EXCEPT !.content = t] \in ReplyKinds
    BY <1>1, <1>2
  <2>3. [[Whole EXCEPT !.content = t] EXCEPT !.truncated = x] \in ReplyKinds
    BY <1>3, <2>2
  <2>4. [[[Whole EXCEPT !.content = t] EXCEPT !.truncated = x] EXCEPT !.sameModel = m] \in ReplyKinds
    BY <1>3, <2>3
  <2> QED
    BY <1>2, <2>1, <2>4
<1>9. {GarbledReply(c, b) : c \in Statuses, b \in {"garbage", "list"}} \subseteq ReplyKinds
  BY <1>6
<1>10. {RefusedReply(c, b, u) : c \in Statuses, b \in Bodies \ {"garbage", "list"}, u \in Usages} \subseteq ReplyKinds
  BY <1>7
<1>11. {ContentReply(t, x, m, u) : t \in Contents, x \in BOOLEAN, m \in BOOLEAN, u \in Usages} \subseteq ReplyKinds
  BY <1>8
<1> QED
  BY <1>4, <1>9, <1>10, <1>11 DEF Replies

\* A list of checks gives the result of the first that applies.
LEMMA FirstCheckApplies ==
  ASSUME NEW checks, NEW n \in Nat, DOMAIN checks = 1..n, \E i \in 1..n : checks[i].when
  PROVE  \E i \in 1..n : /\ checks[i].when /\ \A j \in 1..(i - 1) : ~checks[j].when
                         /\ FirstThatApplies(checks) = checks[i].result
<1> DEFINE Applying == {i \in 1..n : checks[i].when}
           First(i) == checks[i].when /\ \A j \in 1..(i - 1) : ~checks[j].when
<1>1. PICK m \in Applying : \A k \in Applying : m <= k
  <2>1. Applying \in SUBSET Nat /\ Applying # {}
    OBVIOUS
  <2> HIDE DEF Applying
  <2> QED
    BY <2>1, LeastOf
<1>2. m \in DOMAIN checks /\ First(m)
  BY <1>1
<1>3. \E i \in DOMAIN checks : First(i)
  BY <1>2
<1>4. (CHOOSE i \in DOMAIN checks : First(i)) \in DOMAIN checks
      /\ First(CHOOSE i \in DOMAIN checks : First(i))
  BY <1>3
<1> QED
  BY <1>4 DEF FirstThatApplies

LEMMA ResultFields ==
  \A when, status, code, usage :
    /\ Check(when, status, code, usage).when = when
    /\ Check(when, status, code, usage).result = Result(status, code, usage)
    /\ Result(status, code, usage).status = status
    /\ Result(status, code, usage).usage = usage
    /\ \A other : [Result(status, code, usage) EXCEPT !.usage = other].status = status
BY DEF Check, Result

\* A success is an answer in full: nothing stood in its way, and its usage is that reported.
LEMMA GLMCanaryReads ==
  ASSUME NEW r \in ReplyKinds
  PROVE  LET c == GLMCanaryCall(r)
         IN  /\ c.status \in {"success", "failed", "unknown", "raised"}
             /\ c.status = "success" <=>
                    /\ r.sent = "answered" /\ Ok(r) /\ r.body = "content" /\ r.sameModel /\ r.content = "good"
                    /\ r.usage \in {"good", "over", "split"}
             /\ c.status = "unknown" <=> r.sent = "lost"
             /\ c.status \in {"success", "failed"} => r.sent = "answered"
             /\ c.status = "success" => c.usage = ReportedGLM(r)
<1> DEFINE checks == <<
        Check(r.sent = "lost", "unknown", "unknown_outcome", Nothing),
        Check(r.sent = "cut", "raised", "unexpected", Nothing),
        Check(~Ok(r), "failed", StatusCode(r), Nothing),
        Check(r.body \in {"garbage", "list"}, "failed", "contract_invalid", Nothing),
        Check(r.body = "error", "failed", "permanent_provider", Nothing),
        Check(r.body = "null_message", "raised", "unexpected", Nothing),
        Check(r.body = "no_content", "failed", "contract_invalid", Nothing),
        Check(r.usage = "negative", "raised", "unexpected", Nothing),
        Check(~r.sameModel \/ r.content # "good" \/ r.usage \in {"missing", "total"},
              "failed", "contract_invalid", Nothing),
        Check(TRUE, "success", "none", ReportedGLM(r))>>
       c == FirstThatApplies(checks)
<1>1. GLMCanaryCall(r) = c
  BY Zenon DEF GLMCanaryCall
<1>2. DOMAIN checks = 1..10 /\ 10 \in Nat /\ checks[10].when
  BY DEF Check
<1>5. /\ checks[1].when <=> r.sent = "lost"
      /\ checks[2].when <=> r.sent = "cut"
      /\ checks[3].when <=> ~Ok(r)
      /\ checks[4].when <=> r.body \in {"garbage", "list"}
      /\ checks[5].when <=> r.body = "error"
      /\ checks[6].when <=> r.body = "null_message"
      /\ checks[7].when <=> r.body = "no_content"
      /\ checks[8].when <=> r.usage = "negative"
      /\ checks[9].when <=> (~r.sameModel \/ r.content # "good" \/ r.usage \in {"missing", "total"})
  BY DEF Check
<1>6. /\ checks[1].result.status = "unknown" /\ checks[2].result.status = "raised"
      /\ \A j \in {3, 4, 5, 7, 9} : checks[j].result.status = "failed"
      /\ checks[6].result.status = "raised" /\ checks[8].result.status = "raised"
      /\ checks[10].result.status = "success" /\ checks[10].result.usage = ReportedGLM(r)
  BY DEF Check, Result
<1> HIDE DEF checks
<1>4. PICK i \in 1..10 : /\ checks[i].when /\ \A j \in 1..(i - 1) : ~checks[j].when
                         /\ c = checks[i].result
  <2>1. \E i \in 1..10 : checks[i].when
    BY <1>2
  <2> QED
    BY <1>2, <2>1, FirstCheckApplies
<1>7. /\ r.sent \in {"answered", "lost", "cut"} /\ r.body \in Bodies /\ r.content \in Contents /\ r.usage \in Usages
  BY DEF ReplyKinds
<1>8. i = 1 => r.sent = "lost"
  BY <1>4, <1>5
<1>9. i # 1 => r.sent # "lost"
  BY <1>4, <1>5
<1>10. i = 2 \/ i = 1 \/ r.sent = "answered"
  BY <1>4, <1>5, <1>7
<1>11. i = 10 <=> /\ r.sent = "answered" /\ Ok(r) /\ r.body = "content" /\ r.sameModel /\ r.content = "good"
                  /\ r.usage \in {"good", "over", "split"}
  <2>1. i = 10 => \A j \in 1..9 : ~checks[j].when
    BY <1>4
  <2>2. (\A j \in 1..9 : ~checks[j].when) => i = 10
    BY <1>4
  <2>3. (\A j \in 1..9 : ~checks[j].when) <=>
            /\ ~checks[1].when /\ ~checks[2].when /\ ~checks[3].when /\ ~checks[4].when /\ ~checks[5].when
            /\ ~checks[6].when /\ ~checks[7].when /\ ~checks[8].when /\ ~checks[9].when
    OBVIOUS
  <2>4. /\ r.sent = "answered" <=> r.sent # "lost" /\ r.sent # "cut"
        /\ r.body = "content" <=> r.body \notin {"garbage", "list"} /\ r.body # "error" /\ r.body # "null_message" /\ r.body # "no_content"
        /\ r.usage \in {"good", "over", "split"} <=> r.usage # "negative" /\ r.usage \notin {"missing", "total"}
    BY <1>7 DEF Bodies, Usages
  <2> QED
    BY <1>5, <2>1, <2>2, <2>3, <2>4
<1>12. i \in {1, 2, 3, 4, 5, 6, 7, 8, 9, 10}
  OBVIOUS
<1>13. c.status = checks[i].result.status /\ c.usage = checks[i].result.usage
  BY <1>4
<1> HIDE DEF c
<1>14. /\ c.status \in {"success", "failed", "unknown", "raised"}
       /\ c.status = "success" <=> i = 10
       /\ c.status = "unknown" <=> i = 1
       /\ c.status \in {"success", "failed"} => i # 1 /\ i # 2
       /\ i = 10 => c.usage = ReportedGLM(r)
  BY <1>6, <1>12, <1>13
<1> QED
  BY <1>1, <1>8, <1>9, <1>10, <1>11, <1>14

\* The same for DeepSeek's canary, whose failures keep what was reported.
LEMMA DeepSeekCanaryReads ==
  ASSUME NEW r \in ReplyKinds
  PROVE  LET c == DeepSeekCanaryCall(r)
         IN  /\ c.status \in {"success", "failed", "unknown", "raised"}
             /\ c.status = "success" <=>
                    /\ r.sent = "answered" /\ Ok(r) /\ r.body = "content" /\ r.sameModel /\ r.content = "good"
                    /\ r.usage \in {"good", "over"}
             /\ c.status = "unknown" <=> r.sent = "lost"
             /\ c.status \in {"success", "failed"} => r.sent = "answered"
             /\ c.status = "success" => c.usage = ReportedDeepSeek(r)
             /\ c.status = "failed" => c.usage = ReportedDeepSeek(r)
<1> DEFINE checks == <<
        Check(r.sent = "lost", "unknown", "unknown_outcome", Nothing),
        Check(r.sent = "cut", "raised", "unexpected", Nothing),
        Check(~Ok(r), "failed", StatusCode(r), ReportedDeepSeek(r)),
        Check(r.body = "error", "failed", "permanent_provider", ReportedDeepSeek(r)),
        Check(r.body = "null_message", "raised", "unexpected", Nothing),
        Check(r.body # "content" \/ ~r.sameModel \/ r.content # "good" \/ ReportedDeepSeek(r) = Nothing, "failed", "contract_invalid", ReportedDeepSeek(r)),
        Check(TRUE, "success", "none", ReportedDeepSeek(r))>>
           c == FirstThatApplies(checks)
<1>1. DeepSeekCanaryCall(r) = c
  BY Zenon DEF DeepSeekCanaryCall
<1>2. DOMAIN checks = 1..7 /\ 7 \in Nat /\ checks[7].when
  BY DEF Check
<1>3. /\ checks[1].when <=> r.sent = "lost"
      /\ checks[2].when <=> r.sent = "cut"
      /\ checks[3].when <=> ~Ok(r)
      /\ checks[4].when <=> r.body = "error"
      /\ checks[5].when <=> r.body = "null_message"
      /\ checks[6].when <=> (r.body # "content" \/ ~r.sameModel \/ r.content # "good" \/ ReportedDeepSeek(r) = Nothing)
  BY DEF Check
<1>4. /\ checks[1].result.status = "unknown"
      /\ checks[2].result.status = "raised"
      /\ checks[3].result.status = "failed"
      /\ checks[4].result.status = "failed"
      /\ checks[5].result.status = "raised"
      /\ checks[6].result.status = "failed"
      /\ checks[7].result.status = "success"
      /\ checks[7].result.usage = ReportedDeepSeek(r)
      /\ \A j \in {3, 4, 6} : checks[j].result.usage = ReportedDeepSeek(r)
  BY DEF Check, Result
<1> HIDE DEF checks
<1>5. PICK i \in 1..7 : /\ checks[i].when /\ \A j \in 1..(i - 1) : ~checks[j].when
                        /\ c = checks[i].result
  <2>1. \E i \in 1..7 : checks[i].when
    BY <1>2
  <2> QED
    BY <1>2, <2>1, FirstCheckApplies
<1>6. /\ r.sent \in {"answered", "lost", "cut"} /\ r.body \in Bodies /\ r.content \in Contents /\ r.usage \in Usages
  BY DEF ReplyKinds
<1>7. (i = 1 <=> r.sent = "lost") /\ (i = 2 \/ i = 1 \/ r.sent = "answered")
  BY <1>3, <1>5, <1>6
<1>8. i = 7 <=> /\ r.sent = "answered" /\ Ok(r) /\ r.body = "content" /\ r.sameModel /\ r.content = "good"
                /\ r.usage \in {"good", "over"}
  <2>1. i = 7 <=> \A j \in 1..6 : ~checks[j].when
    <3>1. i = 7 => \A j \in 1..6 : ~checks[j].when
      BY <1>5
    <3>2. (\A j \in 1..6 : ~checks[j].when) => i = 7
      BY <1>5
    <3> QED
      BY <3>1, <3>2
  <2>2. (\A j \in 1..6 : ~checks[j].when) <=>
            /\ ~checks[1].when /\ ~checks[2].when /\ ~checks[3].when /\ ~checks[4].when
            /\ ~checks[5].when /\ ~checks[6].when
    OBVIOUS
  <2>3. r.sent = "answered" <=> r.sent # "lost" /\ r.sent # "cut"
    BY <1>6
  <2>4. r.usage \in {"good", "over"} <=> ReportedDeepSeek(r) # Nothing
    BY <1>6 DEF ReportedDeepSeek, Nothing, Usages
  <2> QED
    BY <1>3, <2>1, <2>2, <2>3, <2>4
<1> HIDE DEF c
<1>9. c.status = checks[i].result.status /\ c.usage = checks[i].result.usage
  BY <1>5
<1>10. i \in {1, 2, 3, 4, 5, 6, 7}
  OBVIOUS
<1>11. /\ c.status \in {"success", "failed", "unknown", "raised"}
       /\ c.status = "success" <=> i = 7
       /\ c.status = "unknown" <=> i = 1
       /\ c.status \in {"success", "failed"} => i # 1 /\ i # 2
       /\ i = 7 => c.usage = ReportedDeepSeek(r)
       /\ c.status = "failed" => c.usage = ReportedDeepSeek(r)
  BY <1>4, <1>9, <1>10
<1> QED
  BY <1>1, <1>7, <1>8, <1>11

\* The same for the structured client of GLM, which leaves the content to its callers.
LEMMA GLMCompleteReads ==
  ASSUME NEW r \in ReplyKinds
  PROVE  LET c == GLMComplete(r)
         IN  /\ c.status \in {"success", "failed", "unknown", "raised"}
             /\ c.status = "success" <=>
                    /\ r.sent = "answered" /\ Ok(r) /\ r.body = "content" /\ r.sameModel
                    /\ r.usage \in {"good", "over", "split"}
             /\ c.status = "unknown" <=> r.sent = "lost"
             /\ c.status \in {"success", "failed"} => r.sent = "answered"
             /\ c.status = "success" => c.usage = ReportedGLM(r)
<1> DEFINE checks == <<
        Check(r.sent = "lost", "unknown", "outcome_unknown", Nothing),
        Check(r.sent = "cut", "raised", "unexpected", Nothing),
        Check(~Ok(r), "failed", "transport_failure", Nothing),
        Check(r.body = "null_message", "raised", "unexpected", Nothing),
        Check(r.body # "content", "failed", "provider_response_invalid", Nothing),
        Check(r.usage = "negative", "raised", "unexpected", Nothing),
        Check(ReportedGLM(r) = Nothing \/ ~r.sameModel, "failed", "provider_response_invalid", ReportedGLM(r)),
        Check(TRUE, "success", "none", ReportedGLM(r))>>
           c == FirstThatApplies(checks)
<1>1. GLMComplete(r) = c
  BY Zenon DEF GLMComplete
<1>2. DOMAIN checks = 1..8 /\ 8 \in Nat /\ checks[8].when
  BY DEF Check
<1>3. /\ checks[1].when <=> r.sent = "lost"
      /\ checks[2].when <=> r.sent = "cut"
      /\ checks[3].when <=> ~Ok(r)
      /\ checks[4].when <=> r.body = "null_message"
      /\ checks[5].when <=> r.body # "content"
      /\ checks[6].when <=> r.usage = "negative"
      /\ checks[7].when <=> (ReportedGLM(r) = Nothing \/ ~r.sameModel)
  BY DEF Check
<1>4. /\ checks[1].result.status = "unknown"
      /\ checks[2].result.status = "raised"
      /\ checks[3].result.status = "failed"
      /\ checks[4].result.status = "raised"
      /\ checks[5].result.status = "failed"
      /\ checks[6].result.status = "raised"
      /\ checks[7].result.status = "failed"
      /\ checks[8].result.status = "success"
      /\ checks[8].result.usage = ReportedGLM(r)
  BY DEF Check, Result
<1> HIDE DEF checks
<1>5. PICK i \in 1..8 : /\ checks[i].when /\ \A j \in 1..(i - 1) : ~checks[j].when
                        /\ c = checks[i].result
  <2>1. \E i \in 1..8 : checks[i].when
    BY <1>2
  <2> QED
    BY <1>2, <2>1, FirstCheckApplies
<1>6. /\ r.sent \in {"answered", "lost", "cut"} /\ r.body \in Bodies /\ r.content \in Contents /\ r.usage \in Usages
  BY DEF ReplyKinds
<1>7. (i = 1 <=> r.sent = "lost") /\ (i = 2 \/ i = 1 \/ r.sent = "answered")
  BY <1>3, <1>5, <1>6
<1>8. i = 8 <=> /\ r.sent = "answered" /\ Ok(r) /\ r.body = "content" /\ r.sameModel
                /\ r.usage \in {"good", "over", "split"}
  <2>1. i = 8 <=> \A j \in 1..7 : ~checks[j].when
    <3>1. i = 8 => \A j \in 1..7 : ~checks[j].when
      BY <1>5
    <3>2. (\A j \in 1..7 : ~checks[j].when) => i = 8
      BY <1>5
    <3> QED
      BY <3>1, <3>2
  <2>2. (\A j \in 1..7 : ~checks[j].when) <=>
            /\ ~checks[1].when /\ ~checks[2].when /\ ~checks[3].when /\ ~checks[4].when
            /\ ~checks[5].when /\ ~checks[6].when /\ ~checks[7].when
    OBVIOUS
  <2>3. r.sent = "answered" <=> r.sent # "lost" /\ r.sent # "cut"
    BY <1>6
  <2>4. r.usage \in {"good", "over", "split"} <=> ReportedGLM(r) # Nothing /\ r.usage # "negative"
    BY <1>6 DEF ReportedGLM, Nothing, Usages
  <2> QED
    BY <1>3, <2>1, <2>2, <2>3, <2>4
<1> HIDE DEF c
<1>9. c.status = checks[i].result.status /\ c.usage = checks[i].result.usage
  BY <1>5
<1>10. i \in {1, 2, 3, 4, 5, 6, 7, 8}
  OBVIOUS
<1>11. /\ c.status \in {"success", "failed", "unknown", "raised"}
       /\ c.status = "success" <=> i = 8
       /\ c.status = "unknown" <=> i = 1
       /\ c.status \in {"success", "failed"} => i # 1 /\ i # 2
       /\ i = 8 => c.usage = ReportedGLM(r)
  BY <1>4, <1>9, <1>10
<1> QED
  BY <1>1, <1>7, <1>8, <1>11

\* The same for the structured client of DeepSeek, which parses before it looks at the status.
LEMMA DeepSeekCompleteReads ==
  ASSUME NEW r \in ReplyKinds
  PROVE  LET c == DeepSeekComplete(r)
         IN  /\ c.status \in {"success", "failed", "unknown", "raised"}
             /\ c.status = "success" <=>
                    /\ r.sent = "answered" /\ Ok(r) /\ r.body = "content" /\ r.sameModel
                    /\ r.usage \in {"good", "over"}
             /\ c.status = "unknown" <=> r.sent = "lost"
             /\ c.status \in {"success", "failed"} => r.sent = "answered"
             /\ c.status = "success" => c.usage = ReportedDeepSeek(r)
<1> DEFINE checks == <<
        Check(r.sent = "lost", "unknown", "outcome_unknown", Nothing),
        Check(r.sent = "cut", "raised", "unexpected", Nothing),
        Check(r.body = "garbage", "failed", "provider_response_invalid", Nothing),
        Check(~Ok(r), "failed", "transport_failure", Nothing),
        Check(r.body = "null_message", "raised", "unexpected", Nothing),
        Check(r.body # "content", "failed", "provider_response_invalid", Nothing),
        Check(ReportedDeepSeek(r) = Nothing \/ ~r.sameModel, "failed", "provider_response_invalid", ReportedDeepSeek(r)),
        Check(TRUE, "success", "none", ReportedDeepSeek(r))>>
           c == FirstThatApplies(checks)
<1>1. DeepSeekComplete(r) = c
  BY Zenon DEF DeepSeekComplete
<1>2. DOMAIN checks = 1..8 /\ 8 \in Nat /\ checks[8].when
  BY DEF Check
<1>3. /\ checks[1].when <=> r.sent = "lost"
      /\ checks[2].when <=> r.sent = "cut"
      /\ checks[3].when <=> r.body = "garbage"
      /\ checks[4].when <=> ~Ok(r)
      /\ checks[5].when <=> r.body = "null_message"
      /\ checks[6].when <=> r.body # "content"
      /\ checks[7].when <=> (ReportedDeepSeek(r) = Nothing \/ ~r.sameModel)
  BY DEF Check
<1>4. /\ checks[1].result.status = "unknown"
      /\ checks[2].result.status = "raised"
      /\ checks[3].result.status = "failed"
      /\ checks[4].result.status = "failed"
      /\ checks[5].result.status = "raised"
      /\ checks[6].result.status = "failed"
      /\ checks[7].result.status = "failed"
      /\ checks[8].result.status = "success"
      /\ checks[8].result.usage = ReportedDeepSeek(r)
  BY DEF Check, Result
<1> HIDE DEF checks
<1>5. PICK i \in 1..8 : /\ checks[i].when /\ \A j \in 1..(i - 1) : ~checks[j].when
                        /\ c = checks[i].result
  <2>1. \E i \in 1..8 : checks[i].when
    BY <1>2
  <2> QED
    BY <1>2, <2>1, FirstCheckApplies
<1>6. /\ r.sent \in {"answered", "lost", "cut"} /\ r.body \in Bodies /\ r.content \in Contents /\ r.usage \in Usages
  BY DEF ReplyKinds
<1>7. (i = 1 <=> r.sent = "lost") /\ (i = 2 \/ i = 1 \/ r.sent = "answered")
  BY <1>3, <1>5, <1>6
<1>8. i = 8 <=> /\ r.sent = "answered" /\ Ok(r) /\ r.body = "content" /\ r.sameModel
                /\ r.usage \in {"good", "over"}
  <2>1. i = 8 <=> \A j \in 1..7 : ~checks[j].when
    <3>1. i = 8 => \A j \in 1..7 : ~checks[j].when
      BY <1>5
    <3>2. (\A j \in 1..7 : ~checks[j].when) => i = 8
      BY <1>5
    <3> QED
      BY <3>1, <3>2
  <2>2. (\A j \in 1..7 : ~checks[j].when) <=>
            /\ ~checks[1].when /\ ~checks[2].when /\ ~checks[3].when /\ ~checks[4].when
            /\ ~checks[5].when /\ ~checks[6].when /\ ~checks[7].when
    OBVIOUS
  <2>3. r.sent = "answered" <=> r.sent # "lost" /\ r.sent # "cut"
    BY <1>6
  <2>4. r.usage \in {"good", "over"} <=> ReportedDeepSeek(r) # Nothing
    BY <1>6 DEF ReportedDeepSeek, Nothing, Usages
  <2> QED
    BY <1>3, <2>1, <2>2, <2>3, <2>4
<1> HIDE DEF c
<1>9. c.status = checks[i].result.status /\ c.usage = checks[i].result.usage
  BY <1>5
<1>10. i \in {1, 2, 3, 4, 5, 6, 7, 8}
  OBVIOUS
<1>11. /\ c.status \in {"success", "failed", "unknown", "raised"}
       /\ c.status = "success" <=> i = 8
       /\ c.status = "unknown" <=> i = 1
       /\ c.status \in {"success", "failed"} => i # 1 /\ i # 2
       /\ i = 8 => c.usage = ReportedDeepSeek(r)
  BY <1>4, <1>9, <1>10
<1> QED
  BY <1>1, <1>7, <1>8, <1>11

LEMMA EveryClientReads ==
  ASSUME NEW r \in ReplyKinds, NEW endpoint \in Endpoints
  PROVE  LET c == Call(endpoint, r)
         IN  /\ c.status \in {"success", "failed", "unknown", "raised"}
             /\ c.status = "success" <=>
                    /\ r.sent = "answered" /\ r.status = 200 /\ r.body = "content" /\ r.sameModel
                    /\ r.usage \in {"good", "over"} \/ (r.usage = "split" /\ endpoint \in {"glm_canary", "glm_e2e"})
                    /\ endpoint \in Canaries => r.content = "good"
             /\ c.status = "unknown" <=> r.sent = "lost"
             /\ c.status \in {"success", "failed"} => r.sent = "answered"
             /\ c.status = "success" => c.usage = r.usage
<1>1. Ok(r) <=> r.status = 200
  BY DEF Ok, ReplyKinds, Statuses
<1>2. /\ r.usage \in {"good", "over"} => ReportedGLM(r) = r.usage /\ ReportedDeepSeek(r) = r.usage
      /\ r.usage \in {"good", "over", "split"} => ReportedGLM(r) = r.usage
  BY DEF ReportedGLM, ReportedDeepSeek
<1>3. CASE endpoint = "glm_canary"
  <2>1. Call(endpoint, r) = GLMCanaryCall(r) /\ endpoint \in Canaries
    BY <1>3 DEF Call, Canaries
  <2> QED
    BY <1>1, <1>2, <1>3, <2>1, GLMCanaryReads
<1>4. CASE endpoint = "deepseek_canary"
  <2>1. Call(endpoint, r) = DeepSeekCanaryCall(r) /\ endpoint \in Canaries
    BY <1>4 DEF Call, Canaries
  <2> QED
    BY <1>1, <1>2, <1>4, <2>1, DeepSeekCanaryReads
<1>5. CASE endpoint = "glm_e2e"
  <2>1. Call(endpoint, r) = GLMComplete(r) /\ endpoint \notin Canaries
    BY <1>5 DEF Call, Canaries
  <2> QED
    BY <1>1, <1>2, <1>5, <2>1, GLMCompleteReads
<1>6. CASE endpoint = "deepseek_e2e"
  <2>1. Call(endpoint, r) = DeepSeekComplete(r) /\ endpoint \notin Canaries
    BY <1>6 DEF Call, Canaries
  <2> QED
    BY <1>1, <1>2, <1>6, <2>1, DeepSeekCompleteReads
<1> QED
  BY <1>3, <1>4, <1>5, <1>6 DEF Endpoints

\* A draft comes of a reply that is whole and of the right form.
LEMMA PlannerDrafts ==
  ASSUME NEW r \in ReplyKinds, NEW usage
  PROVE  [PlannerReads(r) EXCEPT !.usage = usage].status = "draft" => ~r.truncated /\ r.content = "good"
<1> DEFINE checks == <<
        Check(r.truncated, "failed", "planner_content_truncated", Nothing),
        Check(r.content \in {"prose", "list"}, "failed", "planner_json_invalid", Nothing),
        Check(r.content = "owned_ids", "failed", "planner_schema_invalid", Nothing),
        Check(r.content = "out_of_scope", "failed", "planner_scope_invalid", Nothing),
        Check(r.content = "no_subtasks", "failed", "planner_empty", Nothing),
        Check(r.content = "wrong_shape", "failed", "planner_schema_invalid", Nothing),
        Check(TRUE, "draft", "none", Nothing)>>
           c == FirstThatApplies(checks)
<1>1. PlannerReads(r) = c
  BY Zenon DEF PlannerReads
<1>2. DOMAIN checks = 1..7 /\ 7 \in Nat /\ checks[7].when
  BY DEF Check
<1>3. /\ checks[1].when <=> r.truncated
      /\ checks[2].when <=> r.content \in {"prose", "list"}
      /\ checks[3].when <=> r.content = "owned_ids"
      /\ checks[4].when <=> r.content = "out_of_scope"
      /\ checks[5].when <=> r.content = "no_subtasks"
      /\ checks[6].when <=> r.content = "wrong_shape"
  BY DEF Check
<1>4. /\ checks[1].result.status = "failed" /\ checks[2].result.status = "failed" /\ checks[3].result.status = "failed"
      /\ checks[4].result.status = "failed" /\ checks[5].result.status = "failed" /\ checks[6].result.status = "failed"
  BY DEF Check, Result
<1>5. \A i \in 1..7 : [checks[i].result EXCEPT !.usage = usage].status = checks[i].result.status
  BY DEF Check, Result
<1> HIDE DEF checks
<1>6. PICK i \in 1..7 : /\ checks[i].when /\ \A j \in 1..(i - 1) : ~checks[j].when
                        /\ c = checks[i].result
  <2>1. \E i \in 1..7 : checks[i].when
    BY <1>2
  <2> QED
    BY <1>2, <2>1, FirstCheckApplies
<1>7. [c EXCEPT !.usage = usage].status = checks[i].result.status
  BY <1>5, <1>6
<1> HIDE DEF c
<1>8. ASSUME [c EXCEPT !.usage = usage].status = "draft"
      PROVE  ~r.truncated /\ r.content = "good"
  <2>1. i \in {1, 2, 3, 4, 5, 6, 7}
    OBVIOUS
  <2>2. i = 7
    BY <1>4, <1>7, <1>8, <2>1
  <2>3. \A j \in 1..6 : ~checks[j].when
    BY <1>6, <2>2
  <2>4. ~checks[1].when /\ ~checks[2].when /\ ~checks[3].when /\ ~checks[4].when /\ ~checks[5].when /\ ~checks[6].when
    BY <2>3
  <2>5. r.content \in Contents
    BY DEF ReplyKinds
  <2> QED
    BY <1>3, <2>4, <2>5 DEF Contents
<1> QED
  BY <1>1, <1>8

LEMMA WriterDrafts ==
  ASSUME NEW r \in ReplyKinds, NEW usage
  PROVE  [WriterReads(r) EXCEPT !.usage = usage].status = "draft" => ~r.truncated /\ r.content \in {"good", "owned_ids"}
<1> DEFINE checks == <<
        Check(r.truncated, "failed", "writer_content_truncated", Nothing),
        Check(r.content = "prose", "failed", "writer_json_invalid", Nothing),
        Check(r.content \notin {"good", "owned_ids"}, "failed", "writer_schema_invalid", Nothing),
        Check(TRUE, "draft", "none", Nothing)>>
           c == FirstThatApplies(checks)
<1>1. WriterReads(r) = c
  BY Zenon DEF WriterReads
<1>2. DOMAIN checks = 1..4 /\ 4 \in Nat /\ checks[4].when
  BY DEF Check
<1>3. /\ checks[1].when <=> r.truncated
      /\ checks[2].when <=> r.content = "prose"
      /\ checks[3].when <=> r.content \notin {"good", "owned_ids"}
  BY DEF Check
<1>4. checks[1].result.status = "failed" /\ checks[2].result.status = "failed" /\ checks[3].result.status = "failed"
  BY DEF Check, Result
<1>5. \A i \in 1..4 : [checks[i].result EXCEPT !.usage = usage].status = checks[i].result.status
  BY DEF Check, Result
<1> HIDE DEF checks
<1>6. PICK i \in 1..4 : /\ checks[i].when /\ \A j \in 1..(i - 1) : ~checks[j].when
                        /\ c = checks[i].result
  <2>1. \E i \in 1..4 : checks[i].when
    BY <1>2
  <2> QED
    BY <1>2, <2>1, FirstCheckApplies
<1>7. [c EXCEPT !.usage = usage].status = checks[i].result.status
  BY <1>5, <1>6
<1> HIDE DEF c
<1>8. ASSUME [c EXCEPT !.usage = usage].status = "draft"
      PROVE  ~r.truncated /\ r.content \in {"good", "owned_ids"}
  <2>1. i \in {1, 2, 3, 4}
    OBVIOUS
  <2>2. i = 4
    BY <1>4, <1>7, <1>8, <2>1
  <2>3. \A j \in 1..3 : ~checks[j].when
    BY <1>6, <2>2
  <2>4. ~checks[1].when /\ ~checks[2].when /\ ~checks[3].when
    BY <2>3
  <2> QED
    BY <1>3, <2>4
<1> QED
  BY <1>1, <1>8

LEMMA LLMClientReads ==
  ASSUME NEW r \in ReplyKinds
  PROVE  /\ "success" \in LLMComplete(r) => r.sent = "answered" /\ r.status = 200 /\ r.body = "content"
         /\ "success" \in LLMCompleteTools(r) => r.sent = "answered" /\ r.status = 200
<1>1. Ok(r) <=> r.status = 200
  BY DEF Ok, ReplyKinds, Statuses
<1>2. r.sent \in {"lost", "cut", "answered"} /\ r.body \in Bodies
  BY DEF ReplyKinds
<1>3. "success" \in LLMComplete(r) => r.sent = "answered" /\ Ok(r) /\ r.body = "content"
  BY <1>2 DEF LLMComplete, Bodies
<1>4. CASE r.sent = "answered" /\ Ok(r) /\ r.body \in {"null_message", "no_content"}
  BY <1>1, <1>3, <1>4
<1>5. CASE ~(r.sent = "answered" /\ Ok(r) /\ r.body \in {"null_message", "no_content"})
  <2>1. LLMCompleteTools(r) = LLMComplete(r)
    BY <1>5 DEF LLMCompleteTools
  <2> QED
    BY <1>1, <1>3, <2>1
<1> QED
  BY <1>4, <1>5

\* A reply that has been read keeps the contract.
LEMMA ReadKeepsTheContract ==
  ASSUME NEW r \in ReplyKinds, adapterReply = r, adapterResult = [endpoint \in Endpoints |-> Call(endpoint, r)]
  PROVE  AcceptsOnlyTheContract
<1> DEFINE answered == r.sent = "answered" /\ r.status = 200 /\ r.body = "content" /\ r.sameModel
           Sums(endpoint) ==
              r.usage \in {"good", "over"} \/ (r.usage = "split" /\ endpoint \in {"glm_canary", "glm_e2e"})
<1>1. ASSUME NEW endpoint \in Endpoints
      PROVE  LET result == adapterResult[endpoint]
             IN  /\ result.status = "success" <=>
                        /\ answered /\ Sums(endpoint)
                        /\ endpoint \in Canaries => r.content = "good"
                 /\ result.status = "unknown" <=> r.sent = "lost"
                 /\ result.status \in {"success", "failed"} => r.sent = "answered"
                 /\ result.status = "success" => result.usage = r.usage
  BY EveryClientReads
<1>2. ASSUME NEW endpoint \in Endpoints \ Canaries
      PROVE  /\ Reading(endpoint, r, PlannerReads(r)).status = "draft" => answered /\ ~r.truncated /\ r.content = "good"
             /\ Reading(endpoint, r, WriterReads(r)).status = "draft" =>
                    answered /\ ~r.truncated /\ r.content \in {"good", "owned_ids"}
  <2> DEFINE called == Call(endpoint, r)
  <2>1. called.status = "success" => answered
    BY EveryClientReads
  <2>2. called.status # "draft"
    BY EveryClientReads
  <2>3. \A read : Reading(endpoint, r, read) = IF called.status = "success" THEN [read EXCEPT !.usage = called.usage] ELSE called
    BY DEF Reading
  <2> HIDE DEF called
  <2>4. CASE called.status = "success"
    <3>1. \A read : Reading(endpoint, r, read) = [read EXCEPT !.usage = called.usage]
      BY <2>3, <2>4
    <3>2. Reading(endpoint, r, PlannerReads(r)).status = "draft" => ~r.truncated /\ r.content = "good"
      BY <3>1, PlannerDrafts
    <3>3. Reading(endpoint, r, WriterReads(r)).status = "draft" => ~r.truncated /\ r.content \in {"good", "owned_ids"}
      BY <3>1, WriterDrafts
    <3> QED
      BY <2>1, <2>4, <3>2, <3>3
  <2>5. CASE called.status # "success"
    BY <2>2, <2>3, <2>5
  <2> QED
    BY <2>4, <2>5
<1>3. Retryable(r) => ~answered
  <2>1. DeepSeekComplete(r).status = "unknown" <=> r.sent = "lost"
    BY DeepSeekCompleteReads
  <2> QED
    BY <2>1 DEF Retryable
<1>4. r.sent = "answered" /\ r.usage \in {"good", "over"} /\ adapterResult["deepseek_canary"].status = "failed"
        => adapterResult["deepseek_canary"].usage = r.usage
  <2>1. adapterResult["deepseek_canary"] = DeepSeekCanaryCall(r)
    BY DEF Call, Endpoints
  <2>2. r.usage \in {"good", "over"} => ReportedDeepSeek(r) = r.usage
    BY DEF ReportedDeepSeek
  <2> QED
    BY <2>1, <2>2, DeepSeekCanaryReads
<1> QED
  BY <1>1, <1>2, <1>3, <1>4, LLMClientReads DEF AcceptsOnlyTheContract

\* Every client of a provider accepts what its contract asks for and nothing else, whatever comes back.
THEOREM ClientsKeepTheContract == AdapterSpec => []AcceptsOnlyTheContract
<1>1. AdapterInit => AdapterInv
  BY DEF AdapterInit, AdapterInv
<1>2. AdapterInv /\ [AdapterNext]_adapterVars => AdapterInv'
  <2> SUFFICES ASSUME AdapterInv, [AdapterNext]_adapterVars
               PROVE  AdapterInv'
    OBVIOUS
  <2>1. CASE UNCHANGED adapterVars
    BY <2>1 DEF AdapterInv, adapterVars
  <2>2. CASE AdapterNext
    BY <2>2 DEF AdapterInv, AdapterNext, AdapterReads
  <2> QED
    BY <2>1, <2>2
<1>3. AdapterInv => AcceptsOnlyTheContract
  <2>1. CASE adapterReply = NoReply
    BY <2>1 DEF AcceptsOnlyTheContract
  <2>2. CASE adapterReply \in Replies /\ adapterResult = [endpoint \in Endpoints |-> Call(endpoint, adapterReply)]
    BY <2>2, RepliesAreTyped, ReadKeepsTheContract
  <2> QED
    BY <2>1, <2>2 DEF AdapterInv
<1> QED
  BY <1>1, <1>2, <1>3, PTL DEF AdapterSpec

---------------------------------------------------------------------------
(* Replaying the events of the first harness *)

\* f holds what a replay makes of the first n events.
IsReplay(f, events, n, spec) ==
    f = [i \in 0..n |-> IF i = 0 THEN ReplayStart ELSE ReplayStep(f[i - 1], events[i], spec)]

\* Every list of events can be replayed, one after the other.
LEMMA ReplayExists ==
  ASSUME NEW events, NEW spec, NEW n \in Nat
  PROVE  \E f : IsReplay(f, events, n, spec)
<1> DEFINE Bad == {m \in Nat : ~ \E f : IsReplay(f, events, m, spec)}
<1> SUFFICES ASSUME Bad # {} PROVE FALSE
  OBVIOUS
<1>1. PICK m \in Bad : \A k \in Bad : m <= k
  <2>1. Bad \in SUBSET Nat
    OBVIOUS
  <2> QED
    BY <2>1, LeastOf
<1>2. m \in Nat /\ ~ \E f : IsReplay(f, events, m, spec)
  OBVIOUS
<1>3. m # 0
  <2> DEFINE g == [i \in 0..0 |-> ReplayStart]
  <2>1. IsReplay(g, events, 0, spec)
    BY DEF IsReplay
  <2> QED
    BY <1>2, <2>1
<1>4. m - 1 \in Nat /\ m - 1 \notin Bad
  BY <1>1, <1>2, <1>3
<1>5. PICK f : IsReplay(f, events, m - 1, spec)
  BY <1>4
<1> DEFINE g == [i \in 0..m |-> IF i = m THEN ReplayStep(f[m - 1], events[m], spec) ELSE f[i]]
<1>6. \A i \in 0..m - 1 : g[i] = f[i]
  BY <1>2
<1>7. \A i \in 0..m - 1 : f[i] = IF i = 0 THEN ReplayStart ELSE ReplayStep(f[i - 1], events[i], spec)
  BY <1>5 DEF IsReplay
<1>8. \A i \in 0..m : g[i] = IF i = 0 THEN ReplayStart ELSE ReplayStep(g[i - 1], events[i], spec)
  <2> SUFFICES ASSUME NEW i \in 0..m
               PROVE  g[i] = IF i = 0 THEN ReplayStart ELSE ReplayStep(g[i - 1], events[i], spec)
    OBVIOUS
  <2>1. i = m \/ i \in 0..m - 1
    BY <1>2
  <2>2. i # 0 => i - 1 \in 0..m - 1
    BY <1>2
  <2>3. i # 0 => g[i - 1] = f[i - 1]
    BY <2>2, <1>6
  <2>4. CASE i = m
    <3>1. g[i] = ReplayStep(f[i - 1], events[i], spec)
      BY <2>4
    <3> HIDE DEF g
    <3> QED
      BY <3>1, <2>3, <2>4, <1>3
  <2>5. CASE i \in 0..m - 1
    <3>1. g[i] = f[i]
      BY <2>5, <1>6
    <3> HIDE DEF g
    <3> QED
      BY <3>1, <2>3, <2>5, <1>7
  <2> QED
    BY <2>1, <2>4, <2>5
<1>9. IsReplay(g, events, m, spec)
  <2>1. g = [i \in 0..m |-> g[i]]
    OBVIOUS
  <2> HIDE DEF g
  <2> QED
    BY <2>1, <1>8 DEF IsReplay
<1> QED
  BY <1>2, <1>9

\* Two replays of the same events agree, up to where the same events go.
LEMMA ReplaysAgree ==
  ASSUME NEW spec, NEW f, NEW s, NEW m \in Nat, IsReplay(f, s, m, spec),
         NEW g, NEW t, NEW n \in Nat, IsReplay(g, t, n, spec),
         NEW k \in Nat, k <= m, k <= n, \A i \in 1..k : s[i] = t[i]
  PROVE  f[k] = g[k]
<1> DEFINE Bad == {i \in Nat : i <= k /\ f[i] # g[i]}
<1> SUFFICES ASSUME Bad # {} PROVE FALSE
  OBVIOUS
<1>1. PICK b \in Bad : \A i \in Bad : b <= i
  <2>1. Bad \in SUBSET Nat
    OBVIOUS
  <2> QED
    BY <2>1, LeastOf
<1>2. b \in Nat /\ b <= k /\ f[b] # g[b] /\ b \in 0..m /\ b \in 0..n
  OBVIOUS
<1>3. f[b] = IF b = 0 THEN ReplayStart ELSE ReplayStep(f[b - 1], s[b], spec)
  BY <1>2 DEF IsReplay
<1>4. g[b] = IF b = 0 THEN ReplayStart ELSE ReplayStep(g[b - 1], t[b], spec)
  BY <1>2 DEF IsReplay
<1>5. b # 0
  BY <1>2, <1>3, <1>4
<1>6. b - 1 \in Nat /\ b - 1 <= k /\ b - 1 \notin Bad
  BY <1>1, <1>2, <1>5
<1>7. f[b - 1] = g[b - 1]
  BY <1>6
<1>8. s[b] = t[b]
  BY <1>2, <1>5
<1> HIDE DEF Bad
<1> QED
  BY <1>2, <1>3, <1>4, <1>5, <1>7, <1>8

LEMMA ReplayIs ==
  ASSUME NEW events, NEW spec, Len(events) \in Nat
  PROVE  \E f : IsReplay(f, events, Len(events), spec) /\ ReplayOf(events, spec) = f[Len(events)]
<1> DEFINE n == Len(events)
           R(f) == f = [i \in 0..n |-> IF i = 0 THEN ReplayStart ELSE ReplayStep(f[i - 1], events[i], spec)]
<1>1. ReplayOf(events, spec) = (CHOOSE f : R(f))[n]
  BY DEF ReplayOf
<1>2. \A f : R(f) <=> IsReplay(f, events, n, spec)
  BY DEF IsReplay
<1>3. \E f : R(f)
  BY <1>2, ReplayExists
<1> HIDE DEF R
<1>4. R(CHOOSE f : R(f))
  BY <1>3
<1> QED
  BY <1>1, <1>2, <1>4

LEMMA ReplayOfNone == ASSUME NEW spec PROVE ReplayOf(<<>>, spec) = ReplayStart
<1>1. Len(<<>>) = 0
  OBVIOUS
<1>2. PICK f : IsReplay(f, <<>>, 0, spec) /\ ReplayOf(<<>>, spec) = f[0]
  BY <1>1, ReplayIs
<1> QED
  BY <1>2 DEF IsReplay

\* A replay goes on with the event that was appended.
LEMMA ReplayGoesOn ==
  ASSUME NEW S, NEW events \in Seq(S), NEW e, NEW spec
  PROVE  ReplayOf(Append(events, e), spec) = ReplayStep(ReplayOf(events, spec), e, spec)
<1> DEFINE n == Len(events)
           longer == Append(events, e)
<1>1. n \in Nat /\ Len(longer) = n + 1 /\ longer[n + 1] = e /\ \A i \in 1..n : longer[i] = events[i]
  OBVIOUS
<1> HIDE DEF longer, n
<1>2. PICK f : IsReplay(f, events, n, spec) /\ ReplayOf(events, spec) = f[n]
  BY <1>1, ReplayIs DEF n
<1>3. PICK g : IsReplay(g, longer, n + 1, spec) /\ ReplayOf(longer, spec) = g[n + 1]
  <2>1. Len(longer) \in Nat
    BY <1>1
  <2> QED
    BY <1>1, <2>1, ReplayIs
<1>4. g[n] = f[n]
  <2>1. n + 1 \in Nat /\ n <= n + 1 /\ n <= n
    BY <1>1
  <2> QED
    BY <1>1, <1>2, <1>3, <2>1, ReplaysAgree
<1>5. g[n + 1] = ReplayStep(g[n], longer[n + 1], spec)
  BY <1>1, <1>3 DEF IsReplay
<1> QED
  BY <1>1, <1>2, <1>3, <1>4, <1>5 DEF longer

\* What each kind of event does to ledger and journal, and where it raises.
ReplayParts == {"ledger", "journal", "ok"}
ChargeOf(e) == [op |-> e.op, attempt |-> e.attempt, kind |-> e.kind, usage |-> e.usage, outcome |-> e.outcome]
MovedTo(journal, e) ==
    IF journal[e.op].attempt = e.attempt THEN journal
    ELSE Journal!NewAttempt(journal, e.op, e.attempt, "planned", journal[e.op].error)
OutcomeTypes == {"operation_succeeded", "operation_failed", "operation_unknown"}

LEMMA PlannedReplays ==
  ASSUME NEW at, NEW e, NEW spec, DOMAIN at = ReplayParts, e.type = "operation_planned"
  PROVE  LET r == ReplayStep(at, e, spec)
         IN  /\ DOMAIN r = ReplayParts /\ r.ledger = at.ledger
             /\ r.ok <=> at.ok
             /\ r.journal = Journal!Add(at.journal, e.op, e.attempt)
BY DEF ReplayStep, ReplayParts

LEMMA StartedReplays ==
  ASSUME NEW at, NEW e, NEW spec, DOMAIN at = ReplayParts, e.type = "operation_started"
  PROVE  LET r == ReplayStep(at, e, spec)
         IN  /\ DOMAIN r = ReplayParts /\ r.ledger = at.ledger
             /\ r.ok <=> (at.ok /\ Journal!CanStart(MovedTo(at.journal, e), e.op, e.attempt))
             /\ r.journal = Journal!StartOp(MovedTo(at.journal, e), e.op, e.attempt)
BY DEF ReplayStep, ReplayParts, MovedTo

LEMMA OutcomeReplays ==
  ASSUME NEW at, NEW e, NEW spec, DOMAIN at = ReplayParts, e.type \in OutcomeTypes
  PROVE  LET r == ReplayStep(at, e, spec)
         IN  /\ DOMAIN r = ReplayParts /\ r.ledger = at.ledger
             /\ r.ok <=> (at.ok /\ Journal!CanMark(at.journal, e.op, e.attempt))
             /\ r.journal = Journal!SetStatus(at.journal, e.op, e.outcome, e.code)
BY DEF ReplayStep, ReplayParts, OutcomeTypes

LEMMA ChargeReplays ==
  ASSUME NEW at, NEW e, NEW spec, DOMAIN at = ReplayParts, e.type = "attempt_charged"
  PROVE  LET r == ReplayStep(at, e, spec)
         IN  /\ DOMAIN r = ReplayParts /\ r.journal = at.journal
             /\ r.ok <=> (at.ok /\ Budget!CanReconcile(at.ledger, spec, ChargeOf(e)))
             /\ r.ledger = Budget!Reconcile(at.ledger, ChargeOf(e))
BY DEF ReplayStep, ReplayParts, ChargeOf

LEMMA ReplanReplays ==
  ASSUME NEW at, NEW e, NEW spec, DOMAIN at = ReplayParts, e.type = "replan_decided"
  PROVE  LET r == ReplayStep(at, e, spec)
         IN  /\ DOMAIN r = ReplayParts /\ r.journal = at.journal
             /\ r.ok <=> (at.ok /\ Budget!CanRecordReplan(at.ledger, spec))
             /\ r.ledger = Budget!RecordReplan(at.ledger)
BY DEF ReplayStep, ReplayParts

\* Ledger and journal of a replay do not depend on the limits: those only say whether it raises.
EventKinds == {"operation_planned", "operation_started", "attempt_charged", "replan_decided"} \cup OutcomeTypes
LEMMA LimitsOnlyRaise ==
  ASSUME NEW events, NEW spec, NEW other, Len(events) \in Nat, \A i \in 1..Len(events) : events[i].type \in EventKinds
  PROVE  /\ DOMAIN ReplayOf(events, spec) = ReplayParts
         /\ ReplayOf(events, spec).ledger = ReplayOf(events, other).ledger
         /\ ReplayOf(events, spec).journal = ReplayOf(events, other).journal
<1> DEFINE n == Len(events)
           Same(a, b) == /\ DOMAIN a = ReplayParts /\ DOMAIN b = ReplayParts
                         /\ a.ledger = b.ledger /\ a.journal = b.journal
<1>1. PICK f : IsReplay(f, events, n, spec) /\ ReplayOf(events, spec) = f[n]
  BY ReplayIs
<1>2. PICK g : IsReplay(g, events, n, other) /\ ReplayOf(events, other) = g[n]
  BY ReplayIs
<1> DEFINE Bad == {i \in Nat : i <= n /\ ~Same(f[i], g[i])}
<1> HIDE DEF n, Same
<1>3. SUFFICES ASSUME Bad # {} PROVE FALSE
  <2>1. n \in Nat /\ (Bad = {} => Same(f[n], g[n]))
    BY DEF n
  <2> QED
    BY <1>1, <1>2, <2>1 DEF Same
<1>4. PICK b \in Bad : \A i \in Bad : b <= i
  <2>1. Bad \in SUBSET Nat
    OBVIOUS
  <2> HIDE DEF Bad
  <2> QED
    BY <1>3, <2>1, LeastOf
<1>5. b \in Nat /\ b <= n /\ ~Same(f[b], g[b]) /\ b \in 0..n
  BY DEF n
<1>6. /\ f[b] = IF b = 0 THEN ReplayStart ELSE ReplayStep(f[b - 1], events[b], spec)
      /\ g[b] = IF b = 0 THEN ReplayStart ELSE ReplayStep(g[b - 1], events[b], other)
  BY <1>1, <1>2, <1>5 DEF IsReplay
<1>7. Same(ReplayStart, ReplayStart)
  BY DEF Same, ReplayStart, ReplayParts
<1>8. b # 0
  BY <1>5, <1>6, <1>7
<1>9. Same(f[b - 1], g[b - 1])
  <2>1. b - 1 \in Nat /\ b - 1 <= n /\ b - 1 \notin Bad
    BY <1>4, <1>5, <1>8 DEF n
  <2> QED
    BY <2>1
<1>10. events[b].type \in EventKinds
  BY <1>5, <1>8 DEF n
<1> DEFINE at1 == f[b - 1]
           at2 == g[b - 1]
           e == events[b]
           r1 == ReplayStep(at1, e, spec)
           r2 == ReplayStep(at2, e, other)
<1>11. f[b] = r1 /\ g[b] = r2
  BY <1>6, <1>8
<1> HIDE DEF Bad, at1, at2, e, r1, r2
<1>12. /\ DOMAIN at1 = ReplayParts /\ DOMAIN at2 = ReplayParts /\ at1.ledger = at2.ledger /\ at1.journal = at2.journal
  BY <1>9 DEF Same, at1, at2
<1>13. CASE e.type = "operation_planned"
  BY <1>5, <1>11, <1>12, <1>13, PlannedReplays DEF Same, r1, r2
<1>14. CASE e.type = "operation_started"
  BY <1>5, <1>11, <1>12, <1>14, StartedReplays DEF Same, r1, r2
<1>15. CASE e.type \in OutcomeTypes
  BY <1>5, <1>11, <1>12, <1>15, OutcomeReplays DEF Same, r1, r2
<1>16. CASE e.type = "attempt_charged"
  BY <1>5, <1>11, <1>12, <1>16, ChargeReplays DEF Same, r1, r2
<1>17. CASE e.type = "replan_decided"
  BY <1>5, <1>11, <1>12, <1>17, ReplanReplays DEF Same, r1, r2
<1> QED
  BY <1>10, <1>13, <1>14, <1>15, <1>16, <1>17 DEF EventKinds, e

---------------------------------------------------------------------------
(* The ledger and the journal of the first harness *)

\* Between two attempts nothing is reserved.
LedgerLike(l) ==
    \E calls, input, output, retries, replans, elapsed, charges :
        l = [calls |-> calls, input |-> input, output |-> output, retries |-> retries, replans |-> replans,
             elapsed |-> elapsed, reservations |-> {}, charges |-> charges]

LEMMA NothingCharged ==
  LedgerLike(Budget!EmptyLedger) /\ Budget!EmptyLedger.charges = {} /\ Budget!EmptyLedger.replans = 0
BY DEF LedgerLike, Budget!EmptyLedger

\* Charging what was reserved is charging it without a reservation, which is what a replay does.
LEMMA ChargesReserved ==
  ASSUME NEW l, LedgerLike(l), NEW r, NEW c, r.op = c.op, r.attempt = c.attempt, NEW spec
  PROVE  /\ Budget!Reconcile(Budget!Reserve(l, r), c) = Budget!Reconcile(l, c)
         /\ Budget!CanReconcile(Budget!Reserve(l, r), spec, c) <=> Budget!CanReconcile(l, spec, c)
<1> DEFINE held == Budget!Reserve(l, r)
<1>1. PICK calls, input, output, retries, replans, elapsed, charges :
        l = [calls |-> calls, input |-> input, output |-> output, retries |-> retries, replans |-> replans,
             elapsed |-> elapsed, reservations |-> {}, charges |-> charges]
  BY DEF LedgerLike
<1>2. held = [calls |-> calls, input |-> input, output |-> output, retries |-> retries, replans |-> replans,
              elapsed |-> elapsed, reservations |-> {r}, charges |-> charges]
  BY <1>1 DEF Budget!Reserve
<1> HIDE DEF held
<1>3. Budget!Release(l, c.op, c.attempt) = l
  BY <1>1 DEF Budget!Release
<1>4. Budget!Release(held, c.op, c.attempt) = l
  <2>1. {x \in {r} : ~(x.op = c.op /\ x.attempt = c.attempt)} = {}
    OBVIOUS
  <2>2. Budget!Release(held, c.op, c.attempt)
          = [held EXCEPT !.reservations = {x \in {r} : ~(x.op = c.op /\ x.attempt = c.attempt)}]
    BY <1>2 DEF Budget!Release
  <2> QED
    BY <1>1, <1>2, <2>1, <2>2
<1>5. held.charges = l.charges /\ held.retries = l.retries
  BY <1>1, <1>2
<1>6. Budget!Reconcile(held, c) = Budget!Reconcile(l, c)
  BY <1>3, <1>4, <1>5 DEF Budget!Reconcile
<1>7. Budget!CanReconcile(held, spec, c) <=> Budget!CanReconcile(l, spec, c)
  BY <1>3, <1>4, <1>5 DEF Budget!CanReconcile, Budget!Charged
<1> QED
  BY <1>6, <1>7 DEF held

LEMMA ChargeAdds ==
  ASSUME NEW l, LedgerLike(l), NEW c, c \notin l.charges
  PROVE  LET new == Budget!Reconcile(l, c)
         IN  LedgerLike(new) /\ new.charges = l.charges \cup {c} /\ new.replans = l.replans
<1>1. PICK calls, input, output, retries, replans, elapsed, charges :
        l = [calls |-> calls, input |-> input, output |-> output, retries |-> retries, replans |-> replans,
             elapsed |-> elapsed, reservations |-> {}, charges |-> charges]
  BY DEF LedgerLike
<1>2. Budget!Release(l, c.op, c.attempt) = l
  BY <1>1 DEF Budget!Release
<1> DEFINE l1 == [l EXCEPT !.calls[c.kind] = @ + 1]
           l2 == [l1 EXCEPT !.input = @ + c.usage.input]
           l3 == [l2 EXCEPT !.output = @ + c.usage.output]
           l4 == [l3 EXCEPT !.retries = @ + c.attempt - 1]
           l5 == [l4 EXCEPT !.charges = @ \cup {c}]
<1>3. Budget!Reconcile(l, c) = l5
  BY <1>2 DEF Budget!Reconcile
<1>4. l1 = [calls |-> l1.calls, input |-> input, output |-> output, retries |-> retries, replans |-> replans,
            elapsed |-> elapsed, reservations |-> {}, charges |-> charges]
  BY <1>1
<1> HIDE DEF l1
<1>5. l2 = [calls |-> l1.calls, input |-> l2.input, output |-> output, retries |-> retries, replans |-> replans,
            elapsed |-> elapsed, reservations |-> {}, charges |-> charges]
  BY <1>4
<1> HIDE DEF l2
<1>6. l3 = [calls |-> l1.calls, input |-> l2.input, output |-> l3.output, retries |-> retries, replans |-> replans,
            elapsed |-> elapsed, reservations |-> {}, charges |-> charges]
  BY <1>5
<1> HIDE DEF l3
<1>7. l4 = [calls |-> l1.calls, input |-> l2.input, output |-> l3.output, retries |-> l4.retries, replans |-> replans,
            elapsed |-> elapsed, reservations |-> {}, charges |-> charges]
  BY <1>6
<1> HIDE DEF l4
<1>8. l5 = [calls |-> l1.calls, input |-> l2.input, output |-> l3.output, retries |-> l4.retries, replans |-> replans,
            elapsed |-> elapsed, reservations |-> {}, charges |-> charges \cup {c}]
  BY <1>7
<1>9. l.charges = charges /\ l.replans = replans
  BY <1>1
<1> HIDE DEF l5
<1>10. l5.charges = charges \cup {c} /\ l5.replans = replans
  BY <1>8
<1>11. LedgerLike(l5)
  BY <1>8 DEF LedgerLike
<1> QED
  BY <1>3, <1>9, <1>10, <1>11

LEMMA ReplanAdds ==
  ASSUME NEW l, LedgerLike(l)
  PROVE  LedgerLike(Budget!RecordReplan(l)) /\ Budget!RecordReplan(l).charges = l.charges
<1>1. PICK calls, input, output, retries, replans, elapsed, charges :
        l = [calls |-> calls, input |-> input, output |-> output, retries |-> retries, replans |-> replans,
             elapsed |-> elapsed, reservations |-> {}, charges |-> charges]
  BY DEF LedgerLike
<1>2. Budget!RecordReplan(l)
        = [calls |-> calls, input |-> input, output |-> output, retries |-> retries, replans |-> replans + 1,
           elapsed |-> elapsed, reservations |-> {}, charges |-> charges]
  BY <1>1 DEF Budget!RecordReplan
<1> DEFINE new == Budget!RecordReplan(l)
<1> HIDE DEF new
<1>3. new = [calls |-> calls, input |-> input, output |-> output, retries |-> retries, replans |-> replans + 1,
             elapsed |-> elapsed, reservations |-> {}, charges |-> charges]
  BY <1>2 DEF new
<1>4. LedgerLike(new)
  BY <1>3 DEF LedgerLike
<1>5. new.charges = l.charges
  BY <1>1, <1>3
<1> QED
  BY <1>4, <1>5 DEF new

---------------------------------------------------------------------------
(* The scripts, and what an answer comes to *)

FakeErrors == {"none", "transient_provider", "operation_timeout", "unknown_outcome"}
Answer == [status : {"success", "abstain", "error", "unknown"}, empty : BOOLEAN, latency : Nat, code : FakeErrors,
           usage : [input : {1}, output : {1}]]
\* An operation has two answers, or one that is not an error.
Scripted(op) ==
    \/ \E a, b \in Answer : op.answers = <<a, b>>
    \/ \E a \in Answer : op.answers = <<a>> /\ a.status # "error" /\ a.latency = 0

LEMMA AnswersAreAnswers ==
  /\ Script!Good \in Answer /\ Script!Empty \in Answer /\ Script!Abstains \in Answer /\ Script!Transient \in Answer
  /\ Script!Slow \in Answer /\ Script!Lost \in Answer
BY DEF Answer, FakeErrors, Script!Good, Script!Empty, Script!Abstains, Script!Transient, Script!Slow, Script!Lost, Script!Step

ScriptedList(ops) == Len(ops) \in 1..3 /\ DOMAIN ops = 1..Len(ops) /\ \A i \in 1..Len(ops) : Scripted(ops[i])

\* What the nine scripts have in common.
LEMMA ScriptsAreScripted ==
  ASSUME NEW scenario \in DOMAIN Script!scenario_operations
  PROVE  ScriptedList(Script!scenario_operations[scenario])
<1> DEFINE good == Script!ToolOp(<<Script!Good>>)
           answered == Script!ProviderOp(<<Script!Good>>)
           empty == Script!ToolOp(<<Script!Empty>>)
           abstains == Script!ToolOp(<<Script!Abstains>>)
           lost == Script!ToolOp(<<Script!Lost>>)
           retried == Script!ProviderOp(<<Script!Transient, Script!Good>>)
           slow == Script!ProviderOp(<<Script!Slow, Script!Slow>>)
<1>1. \A a \in {Script!Good, Script!Empty, Script!Abstains, Script!Lost} :
        a \in Answer /\ a.status # "error" /\ a.latency = 0
  <2>1. Script!Good.status # "error" /\ Script!Good.latency = 0
    BY DEF Script!Good, Script!Step
  <2>2. Script!Empty.status # "error" /\ Script!Empty.latency = 0
    BY DEF Script!Empty, Script!Step
  <2>3. Script!Abstains.status # "error" /\ Script!Abstains.latency = 0
    BY DEF Script!Abstains, Script!Step
  <2>4. Script!Lost.status # "error" /\ Script!Lost.latency = 0
    BY DEF Script!Lost, Script!Step
  <2> QED
    BY <2>1, <2>2, <2>3, <2>4, AnswersAreAnswers
<1>2. Scripted(good) /\ Scripted(answered) /\ Scripted(empty) /\ Scripted(abstains) /\ Scripted(lost)
  <2>1. \A a \in {Script!Good, Script!Empty, Script!Abstains, Script!Lost} : Scripted(Script!ToolOp(<<a>>)) /\ Scripted(Script!ProviderOp(<<a>>))
    BY <1>1 DEF Scripted, Script!ToolOp, Script!ProviderOp
  <2> QED
    BY <2>1
<1>3. Scripted(retried) /\ Scripted(slow)
  BY AnswersAreAnswers DEF Scripted, Script!ProviderOp
<1> HIDE DEF good, answered, empty, abstains, lost, retried, slow
<1> DEFINE ops == Script!scenario_operations[scenario]
<1>4. ops \in {<<good, answered>>, <<empty>>, <<retried>>, <<slow>>, <<abstains, good, answered>>, <<abstains, abstains>>, <<lost>>}
  BY DEF Script!scenario_operations, good, answered, empty, abstains, lost, retried, slow
<1> HIDE DEF ops
<1>5. \A a : Scripted(a) => ScriptedList(<<a>>)
  BY DEF ScriptedList
<1>6. \A a, b : Scripted(a) /\ Scripted(b) => ScriptedList(<<a, b>>)
  BY DEF ScriptedList
<1>7. \A a, b, c : Scripted(a) /\ Scripted(b) /\ Scripted(c) => ScriptedList(<<a, b, c>>)
  BY DEF ScriptedList
<1> QED
  BY <1>2, <1>3, <1>4, <1>5, <1>6, <1>7 DEF ops

SpecLike(spec) == spec.maxReplans \in Nat /\ spec.operationTimeout \in Nat \cup {NoLimit}
LEMMA SpecsAreLike ==
  /\ \A spec \in FakeSpecs : SpecLike(spec)
  /\ \A scenario : SpecLike(SpecFor(scenario))
<1>1. \A spec \in FakeSpecs : SpecLike(spec)
  BY FakeSpecsAssumption DEF SpecLike
<1>2. SpecLike(DefaultSpec)
  BY DEF SpecLike, DefaultSpec
<1>3. \A f : SpecLike([DefaultSpec EXCEPT !.maxCalls = f])
  BY DEF SpecLike, DefaultSpec
<1> QED
  BY <1>1, <1>2, <1>3 DEF SpecFor

\* An answer succeeds, fails or is lost; the only answer of an operation does not fail.
LEMMA OutcomeIsOne ==
  ASSUME NEW answer \in Answer, SpecLike(fakeRun.spec)
  PROVE  /\ \E code \in FakeErrors : Outcome(answer) \in {<<"succeeded", code>>, <<"failed_known", code>>, <<"outcome_unknown", code>>}
         /\ (answer.status # "error" /\ answer.latency = 0) => Outcome(answer)[1] # "failed_known"
<1>1. answer.latency \in Nat /\ answer.code \in FakeErrors /\ answer.status \in {"success", "abstain", "error", "unknown"}
  BY DEF Answer
<1>2. answer.latency = 0 => ~Late(answer)
  BY <1>1 DEF Late, SpecLike
<1>3. CASE Late(answer)
  BY <1>1, <1>2, <1>3 DEF Outcome, FakeErrors
<1>4. CASE ~Late(answer) /\ answer.status = "unknown"
  BY <1>1, <1>2, <1>4 DEF Outcome, FakeErrors
<1>5. CASE ~Late(answer) /\ answer.status = "error"
  BY <1>1, <1>2, <1>5 DEF Outcome, FakeErrors
<1>6. CASE ~Late(answer) /\ answer.status \in {"success", "abstain"}
  BY <1>1, <1>2, <1>6 DEF Outcome, FakeErrors
<1> QED
  BY <1>1, <1>3, <1>4, <1>5, <1>6

\* What follows a failure: a second attempt after the first, or the end.
LEMMA FailureEnds ==
  ASSUME NEW code, NEW clock, fakeAt.attempt \in 1..2
  PROVE  /\ FailureEnd(code, clock).terminal \in {"complete", "failed"}
         /\ FailureEnd(code, clock).terminal = "complete" => (FailureEnd(code, clock) = Ongoing /\ fakeAt.attempt = 1)
         /\ FailureEnd(code, clock) # Ongoing => FailureEnd(code, clock).terminal = "failed"
<1> DEFINE remaining == IF fakeRun.spec.runTimeout = NoLimit THEN Forever
                        ELSE IF clock >= fakeRun.spec.runTimeout THEN 0 ELSE fakeRun.spec.runTimeout - clock
           allowed == Policy!Allows(code, fakeAt.attempt, FALSE, remaining, <<>>)
<1>1. FailureEnd(code, clock) \in {End("failed", "run_deadline_exceeded"), End("failed", code)}
        \/ (allowed /\ FailureEnd(code, clock) = Ongoing)
  BY DEF FailureEnd
<1>2. allowed => fakeAt.attempt < 2
  BY DEF Policy!Allows
<1> HIDE DEF allowed
<1>3. \A e : End("failed", e).terminal = "failed" /\ Ongoing.terminal = "complete"
  BY DEF End, Ongoing
<1> QED
  BY <1>1, <1>2, <1>3

---------------------------------------------------------------------------
(* The lifecycle of the first harness *)

\* Lists with the same members are the same.
LEMMA SameLists ==
  ASSUME NEW S, NEW s \in Seq(S), NEW t \in Seq(S), Len(s) = Len(t), \A i \in 1..Len(s) : s[i] = t[i]
  PROVE  s = t
OBVIOUS

LEMMA Joined ==
  ASSUME NEW S, NEW s \in Seq(S), NEW t \in Seq(S)
  PROVE  /\ s \o t \in Seq(S) /\ Len(s \o t) = Len(s) + Len(t)
         /\ \A i \in 1..Len(s) + Len(t) : (s \o t)[i] = IF i <= Len(s) THEN s[i] ELSE t[i - Len(s)]
OBVIOUS

\* Whatever prefix of a path a checkpoint is taken of, the state is recovered from it.
IsPath(l) ==
    /\ \E S : l \in Seq(S)
    /\ Len(l) \in Nat \ {0} /\ l[1] = "brief_pending"
    /\ \A i \in 1..Len(l) - 1 : Lifecycle!CanTransition(l[i], l[i + 1])

LEMMA PathReplays ==
  ASSUME NEW l, IsPath(l), NEW a \in 1..Len(l), NEW b \in Nat, b < Len(l), a <= b + 1
  PROVE  ReplayLifecycle(l[a], SubSeq(Tail(l), a, b)) = l[b + 1]
<1> DEFINE part == SubSeq(Tail(l), a, b)
           steps == <<l[a]>> \o part
<1>1. PICK S : l \in Seq(S)
  BY DEF IsPath
<1>2. Len(l) \in Nat \ {0} /\ l # <<>>
  BY <1>1 DEF IsPath
<1>3. Tail(l) \in Seq(S) /\ Len(Tail(l)) = Len(l) - 1 /\ \A i \in 1..Len(l) - 1 : Tail(l)[i] = l[i + 1]
  BY <1>1, <1>2
<1>4. part \in Seq(S) /\ Len(part) = b - a + 1 /\ \A i \in 1..b - a + 1 : part[i] = l[a + i]
  <2>1. a \in 1..Len(Tail(l)) + 1 /\ b \in a - 1..Len(Tail(l))
    BY <1>2, <1>3
  <2> DEFINE t == Tail(l)
  <2>2. t \in Seq(S) /\ Len(t) \in Nat /\ a \in 1..Len(t) + 1 /\ b \in a - 1..Len(t)
    BY <1>3, <2>1
  <2>3. \A i \in 1..Len(t) : t[i] = l[i + 1]
    BY <1>3
  <2> HIDE DEF t
  <2>4. SubSeq(t, a, b) \in Seq(S) /\ Len(SubSeq(t, a, b)) = b - a + 1 /\ \A i \in 1..b - a + 1 : SubSeq(t, a, b)[i] = t[a + i - 1]
    BY <2>2
  <2>5. \A i \in 1..b - a + 1 : a + i - 1 \in 1..Len(t) /\ (a + i - 1) + 1 = a + i
    BY <2>2
  <2>6. part = SubSeq(t, a, b)
    BY DEF t
  <2> HIDE DEF part
  <2> QED
    BY <2>3, <2>4, <2>5, <2>6
<1> HIDE DEF part
<1>5. Len(steps) = b - a + 2 /\ steps[1] = l[a] /\ \A i \in 1..b - a + 1 : steps[i + 1] = part[i]
  <2> DEFINE first == <<l[a]>>
  <2>1. part \in Seq(S) /\ l[a] \in S /\ first \in Seq(S) /\ Len(first) = 1 /\ first[1] = l[a]
    BY <1>1, <1>4
  <2>2. steps = first \o part
    OBVIOUS
  <2> HIDE DEF first, steps
  <2>3. /\ Len(steps) = Len(first) + Len(part)
        /\ \A i \in 1..Len(first) + Len(part) : steps[i] = IF i <= Len(first) THEN first[i] ELSE part[i - Len(first)]
    BY <2>1, <2>2, Joined
  <2>4. Len(part) = b - a + 1 /\ b - a + 1 \in Nat
    BY <1>2, <1>4
  <2>5. \A i \in 1..b - a + 1 : i + 1 \in 1..1 + (b - a + 1) /\ ~(i + 1 <= 1) /\ (i + 1) - 1 = i
    BY <2>4
  <2>6. \A i \in 1..b - a + 1 : steps[i + 1] = part[i]
    BY <2>1, <2>3, <2>4, <2>5
  <2>7. 1 \in 1..1 + (b - a + 1) /\ 1 + (b - a + 1) = b - a + 2
    BY <2>4
  <2>8. steps[1] = l[a]
    BY <2>1, <2>3, <2>4, <2>7
  <2> QED
    BY <2>1, <2>3, <2>4, <2>6, <2>7, <2>8
<1>6. \A i \in 1..b - a + 2 : steps[i] = l[a + i - 1]
  <2> SUFFICES ASSUME NEW i \in 1..b - a + 2 PROVE steps[i] = l[a + i - 1]
    OBVIOUS
  <2>1. CASE i = 1
    <3>1. a + i - 1 = a
      BY <2>1
    <3> QED
      BY <1>5, <2>1, <3>1
  <2>2. CASE i # 1
    <3>1. i - 1 \in 1..b - a + 1 /\ (i - 1) + 1 = i /\ a + (i - 1) = a + i - 1
      BY <2>2
    <3> QED
      BY <1>4, <1>5, <3>1
  <2> QED
    BY <2>1, <2>2
<1> HIDE DEF steps
<1>7. \A i \in 1..Len(part) : Lifecycle!CanTransition(steps[i], steps[i + 1])
  <2> SUFFICES ASSUME NEW i \in 1..Len(part) PROVE Lifecycle!CanTransition(steps[i], steps[i + 1])
    OBVIOUS
  <2>1. i \in 1..b - a + 2 /\ i + 1 \in 1..b - a + 2 /\ a + i - 1 \in 1..Len(l) - 1 /\ a + (i + 1) - 1 = (a + i - 1) + 1
    BY <1>2, <1>4
  <2>2. steps[i] = l[a + i - 1] /\ steps[i + 1] = l[(a + i - 1) + 1]
    BY <1>6, <2>1
  <2>3. Lifecycle!CanTransition(l[a + i - 1], l[(a + i - 1) + 1])
    BY <2>1 DEF IsPath
  <2> QED
    BY <2>2, <2>3
<1>8. steps[Len(steps)] = l[b + 1]
  <2>1. Len(steps) \in 1..b - a + 2 /\ a + Len(steps) - 1 = b + 1
    BY <1>4, <1>5
  <2> QED
    BY <1>6, <2>1
<1> QED
  BY <1>7, <1>8 DEF ReplayLifecycle, part, steps

LEMMA PathRecovers ==
  ASSUME NEW l, IsPath(l), NEW n \in 0..Len(Tail(l))
  PROVE  RecoverState([applied |-> n, status |-> l[n + 1]], Tail(l)) = l[Len(l)]
<1>1. PICK S : l \in Seq(S)
  BY DEF IsPath
<1>2. Len(l) \in Nat \ {0} /\ Len(Tail(l)) = Len(l) - 1 /\ l[1] = "brief_pending"
  BY <1>1 DEF IsPath
<1>3. n \in Nat /\ n < Len(l) /\ 1 <= n + 1 /\ 1 \in 1..Len(l) /\ n + 1 \in 1..Len(l)
  BY <1>2
<1>4. ReplayLifecycle(l[1], SubSeq(Tail(l), 1, n)) = l[n + 1]
  BY <1>3, PathReplays
<1>5. ReplayLifecycle(l[n + 1], SubSeq(Tail(l), n + 1, Len(Tail(l)))) = l[Len(l)]
  <2> DEFINE b == Len(l) - 1
  <2>1. b \in Nat /\ b < Len(l) /\ n + 1 <= b + 1 /\ b + 1 = Len(l) /\ Len(Tail(l)) = b
    BY <1>2, <1>3
  <2> HIDE DEF b
  <2>2. ReplayLifecycle(l[n + 1], SubSeq(Tail(l), n + 1, b)) = l[b + 1]
    BY <1>3, <2>1, PathReplays
  <2> QED
    BY <2>1, <2>2
<1> QED
  BY <1>2, <1>4, <1>5 DEF RecoverState

\* The lifecycles a run can have are paths.
Researching == <<"brief_pending", "brief_approved", "researching">>
Completed == <<"brief_pending", "brief_approved", "researching", "validating", "complete">>
Stopped(terminal) == <<"brief_pending", "brief_approved", "researching", terminal>>

LEMMA LifecyclesArePaths ==
  /\ IsPath(<<"brief_pending">>) /\ IsPath(Researching) /\ IsPath(Completed)
  /\ \A terminal \in {"failed", "insufficient_evidence"} : IsPath(Stopped(terminal))
<1>1. \A s \in {"brief_pending", "brief_approved", "researching", "validating"}, t \in {"brief_approved", "researching", "validating", "complete", "failed", "insufficient_evidence"} :
        <<s, t>> \in {<<"brief_pending", "brief_approved">>, <<"brief_approved", "researching">>, <<"researching", "validating">>,
                      <<"researching", "failed">>, <<"researching", "insufficient_evidence">>, <<"validating", "complete">>}
          => Lifecycle!CanTransition(s, t)
  BY DEF Lifecycle!CanTransition, Lifecycle!ALLOWED, Lifecycle!TERMINAL
<1>2. /\ Lifecycle!CanTransition("brief_pending", "brief_approved") /\ Lifecycle!CanTransition("brief_approved", "researching")
      /\ Lifecycle!CanTransition("researching", "validating") /\ Lifecycle!CanTransition("validating", "complete")
      /\ \A t \in {"failed", "insufficient_evidence"} : Lifecycle!CanTransition("researching", t)
  BY <1>1
<1>3. IsPath(<<"brief_pending">>)
  <2> DEFINE l == <<"brief_pending">>
  <2>1. l \in Seq({"brief_pending"}) /\ Len(l) = 1 /\ l[1] = "brief_pending"
    OBVIOUS
  <2> HIDE DEF l
  <2>2. \A i \in 1..Len(l) - 1 : FALSE
    BY <2>1
  <2>3. IsPath(l)
    BY <2>1, <2>2 DEF IsPath
  <2> QED
    BY <2>3 DEF l
<1> DEFINE All == {"brief_pending", "brief_approved", "researching", "validating", "complete", "failed", "insufficient_evidence"}
<1>4. IsPath(Researching)
  <2>1. Researching \in Seq(All) /\ Len(Researching) = 3
    BY DEF Researching
  <2>2. Researching[1] = "brief_pending" /\ Researching[2] = "brief_approved" /\ Researching[3] = "researching"
    BY DEF Researching
  <2>3. \A i \in 1..2 : i = 1 \/ i = 2
    OBVIOUS
  <2> QED
    BY <1>2, <2>1, <2>2, <2>3 DEF IsPath
<1>5. IsPath(Completed)
  <2>1. Completed \in Seq(All) /\ Len(Completed) = 5
    BY DEF Completed
  <2>2. Completed[1] = "brief_pending" /\ Completed[2] = "brief_approved" /\ Completed[3] = "researching"
        /\ Completed[4] = "validating" /\ Completed[5] = "complete"
    BY DEF Completed
  <2>3. \A i \in 1..4 : i = 1 \/ i = 2 \/ i = 3 \/ i = 4
    OBVIOUS
  <2> QED
    BY <1>2, <2>1, <2>2, <2>3 DEF IsPath
<1>6. ASSUME NEW terminal \in {"failed", "insufficient_evidence"} PROVE IsPath(Stopped(terminal))
  <2> DEFINE l == Stopped(terminal)
  <2>1. l \in Seq(All) /\ Len(l) = 4
    BY DEF Stopped
  <2>2. l[1] = "brief_pending" /\ l[2] = "brief_approved" /\ l[3] = "researching" /\ l[4] = terminal
    BY DEF Stopped
  <2>3. \A i \in 1..3 : i = 1 \/ i = 2 \/ i = 3
    OBVIOUS
  <2> HIDE DEF l
  <2>4. IsPath(l)
    BY <1>2, <2>1, <2>2, <2>3 DEF IsPath
  <2> QED
    BY <2>4 DEF l
<1> QED
  BY <1>3, <1>4, <1>5, <1>6

---------------------------------------------------------------------------
(* What holds of a run of the first harness *)

FakeSpec == FakeInit /\ [][FakeNext]_fakeVars

FakeRunning == {"operation", "attempt", "decide", "finish", "raised", "interrupted"}
FakeOver == {"finish", "done"}
FakeRecord == [attempt : Nat, status : Journal!OperationStatus \cup {"absent"}, error : FakeErrors]

EventList(events) ==
    /\ \E S : events \in Seq(S)
    /\ \A i \in 1..Len(events) : events[i].type \in EventKinds

FakeTypes ==
    /\ fakePc \in FakeRunning \cup {"idle", "done"}
    /\ fakeRun.scenario \in DOMAIN Script!scenario_operations /\ fakeRun.kept \in BOOLEAN /\ SpecLike(fakeRun.spec)
    /\ DOMAIN fakeRun = {"scenario", "spec", "interrupt", "kept"}
    /\ fakeAt \in [index : 1..4, attempt : 1..2, completed : Nat] /\ fakeAt.index <= Len(Operations) + 1
    /\ fakeJournal \in [1..3 -> FakeRecord] /\ LedgerLike(fakeLedger)
    /\ EventList(fakeEvents)

\* The events replay into the ledger, and into the journal but for a retry that was refused.
FakeReplayed ==
    /\ fakeRun.kept => Replayed.ok
    /\ DOMAIN Replayed = ReplayParts /\ Replayed.ledger = fakeLedger
    /\ \/ Replayed.journal = fakeJournal
       \/ /\ fakePc \in FakeOver /\ fakeEnd.error = "budget_exhausted"
          /\ \A op \in 1..3 : \/ Replayed.journal[op] = fakeJournal[op]
                              \/ fakeJournal[op].status = "planned" /\ Replayed.journal[op].status = "failed_known"

\* The operations before the present one have succeeded, those after it are not begun.
FakePlace ==
    /\ \A op \in 1..3 : op < fakeAt.index => fakeJournal[op].status = "succeeded"
    /\ \A op \in 1..3 : op > fakeAt.index => fakeJournal[op].status = "absent"
    /\ fakePc \in {"idle", "operation", "interrupted"} =>
            fakeAt.attempt = 1 /\ (fakeAt.index \in 1..3 => fakeJournal[fakeAt.index].status = "absent")
    /\ fakePc \in {"attempt", "decide", "raised"} => fakeAt.index <= Len(Operations)
    /\ fakePc = "attempt" =>
            /\ fakeAt.attempt \in 1..Len(Operation.answers)
            /\ fakeJournal[fakeAt.index].attempt = 1
            /\ fakeJournal[fakeAt.index].status = IF fakeAt.attempt = 1 THEN "planned" ELSE "failed_known"
    /\ fakePc = "decide" => fakeJournal[fakeAt.index].status = "succeeded"
    /\ (fakePc # "decide" /\ fakeAt.index \in 1..3) => fakeJournal[fakeAt.index].status # "succeeded"
    /\ fakeAt.index = 1 => fakeLedger.replans = 0
    /\ fakePc \notin FakeOver => fakeEnd = Ongoing
    /\ fakePc \in FakeOver /\ fakeEnd.terminal = "complete" => fakeAt.index > Len(Operations)
    /\ fakeEnd.terminal \in {"complete", "failed", "insufficient_evidence"}

\* Every call was of an operation and attempt of its own, and is charged unless its charge raised.
FakeCallSet == {fakeCalls[i] : i \in DOMAIN fakeCalls}
FakeCalled ==
    /\ fakeCalls \in Seq(Nat \X Nat) /\ IsFiniteSet(FakeCallSet) /\ Cardinality(FakeCallSet) = Len(fakeCalls)
    /\ \A c \in FakeCallSet :
        /\ c[1] <= fakeAt.index
        /\ fakePc \in {"idle", "operation", "interrupted"} => c[1] < fakeAt.index
        /\ fakePc = "attempt" /\ c[1] = fakeAt.index => c[2] < fakeAt.attempt
    /\ IsFiniteSet(fakeLedger.charges)
    /\ Cardinality(fakeLedger.charges) = IF fakePc = "raised" THEN Len(fakeCalls) - 1 ELSE Len(fakeCalls)
    /\ \A charge \in fakeLedger.charges : <<charge.op, charge.attempt>> \in FakeCallSet

FakeStory ==
    /\ fakePc = "idle" => fakeLifecycle = <<"brief_pending">>
    /\ fakePc \in FakeRunning => fakeLifecycle = Researching
    /\ fakePc = "done" =>
            \/ fakeEnd.terminal = "complete" /\ fakeLifecycle = Completed
            \/ fakeEnd.terminal \in {"failed", "insufficient_evidence"} /\ fakeLifecycle = Stopped(fakeEnd.terminal)

FakeInv == FakeTypes /\ FakeReplayed /\ FakePlace /\ FakeCalled /\ FakeStory

LEMMA FakeOperations ==
  ASSUME FakeTypes
  PROVE  /\ ScriptedList(Operations) /\ Len(Operations) \in 1..3 /\ DOMAIN Operations = 1..Len(Operations)
         /\ fakeAt.index \in 1..4 /\ fakeAt.attempt \in 1..2 /\ DOMAIN fakeJournal = 1..3
         /\ \A op \in 1..3 : fakeJournal[op].status \in Journal!OperationStatus \cup {"absent"}
<1>1. ScriptedList(Operations)
  BY ScriptsAreScripted DEF FakeTypes, Operations
<1> QED
  BY <1>1 DEF ScriptedList, FakeTypes, FakeRecord

LEMMA FakeStarts == FakeInit => FakeInv
<1> SUFFICES ASSUME FakeInit PROVE FakeInv
  OBVIOUS
<1>1. /\ fakeRun.scenario \in DOMAIN Script!scenario_operations /\ fakeRun.kept = TRUE /\ SpecLike(fakeRun.spec)
      /\ DOMAIN fakeRun = {"scenario", "spec", "interrupt", "kept"}
  <2>1. CASE fakeRun \in [scenario : DOMAIN Script!scenario_operations, spec : FakeSpecs, interrupt : 0..2, kept : {TRUE}]
    BY <2>1, SpecsAreLike
  <2>2. ASSUME NEW scenario \in DOMAIN Script!scenario_operations, NEW interrupt \in 0..2,
               fakeRun = [scenario |-> scenario, spec |-> SpecFor(scenario), interrupt |-> interrupt, kept |-> TRUE]
        PROVE  /\ fakeRun.scenario \in DOMAIN Script!scenario_operations /\ fakeRun.kept = TRUE /\ SpecLike(fakeRun.spec)
               /\ DOMAIN fakeRun = {"scenario", "spec", "interrupt", "kept"}
    BY <2>2, SpecsAreLike
  <2>3. \/ fakeRun \in [scenario : DOMAIN Script!scenario_operations, spec : FakeSpecs, interrupt : 0..2, kept : {TRUE}]
        \/ \E scenario \in DOMAIN Script!scenario_operations, interrupt \in 0..2 :
              fakeRun = [scenario |-> scenario, spec |-> SpecFor(scenario), interrupt |-> interrupt, kept |-> TRUE]
    BY DEF FakeInit
  <2> QED
    BY <2>1, <2>2, <2>3
<1>2. /\ fakePc = "idle" /\ fakeAt = [index |-> 1, attempt |-> 1, completed |-> 0] /\ fakeLedger = Budget!EmptyLedger
      /\ fakeJournal = EmptyJournal /\ fakeEvents = <<>> /\ fakeLifecycle = <<"brief_pending">> /\ fakeCalls = <<>>
      /\ fakeEnd = Ongoing
  BY DEF FakeInit
<1>3. FakeTypes
  <2>1. ScriptedList(Operations)
    BY <1>1, ScriptsAreScripted DEF Operations
  <2>2. EmptyJournal \in [1..3 -> FakeRecord]
    BY DEF EmptyJournal, FakeRecord, Journal!Absent, FakeErrors
  <2>3. fakeEvents \in Seq({}) /\ Len(fakeEvents) = 0
    BY <1>2
  <2>4. fakeAt \in [index : 1..4, attempt : 1..2, completed : Nat] /\ fakeAt.index <= Len(Operations) + 1
    BY <1>2, <2>1 DEF ScriptedList
  <2>5. LedgerLike(fakeLedger)
    BY <1>2, NothingCharged
  <2>6. \E S : fakeEvents \in Seq(S)
    BY <2>3
  <2>7. \A i \in 1..Len(fakeEvents) : fakeEvents[i].type \in EventKinds
    BY <2>3
  <2>8. fakeRun.kept \in BOOLEAN
    BY <1>1
  <2>12. EventList(fakeEvents)
    BY <2>6, <2>7 DEF EventList
  <2>9. fakePc \in FakeRunning \cup {"idle", "done"}
    BY <1>2
  <2>10. DOMAIN fakeRun = {"scenario", "spec", "interrupt", "kept"} /\ fakeRun.scenario \in DOMAIN Script!scenario_operations
         /\ SpecLike(fakeRun.spec)
    BY <1>1
  <2>11. fakeJournal \in [1..3 -> FakeRecord]
    BY <1>2, <2>2
  <2> QED
    BY <2>4, <2>5, <2>8, <2>9, <2>10, <2>11, <2>12 DEF FakeTypes
<1>4. FakeReplayed
  <2>1. Replayed = ReplayStart
    BY <1>2, ReplayOfNone DEF Replayed
  <2> QED
    BY <1>2, <2>1 DEF FakeReplayed, ReplayStart, ReplayParts
<1>5. FakePlace
  <2>1. \A op \in 1..3 : fakeJournal[op].status = "absent"
    BY <1>2 DEF EmptyJournal, Journal!Absent
  <2>2. fakeAt.index = 1 /\ fakeAt.attempt = 1 /\ fakeEnd.terminal = "complete"
    BY <1>2 DEF Ongoing
  <2>3. fakeLedger.replans = 0
    BY <1>2, NothingCharged
  <2> QED
    BY <1>2, <2>1, <2>2, <2>3 DEF FakePlace, FakeOver
<1>6. FakeCalled
  <2>1. FakeCallSet = {} /\ Len(fakeCalls) = 0 /\ fakeCalls \in Seq(Nat \X Nat)
    BY <1>2 DEF FakeCallSet
  <2>2. IsFiniteSet({}) /\ Cardinality({}) = 0
    BY FS_EmptySet
  <2>3. fakeLedger.charges = {}
    BY <1>2, NothingCharged
  <2> QED
    BY <1>2, <2>1, <2>2, <2>3 DEF FakeCalled
<1>7. FakeStory
  BY <1>2 DEF FakeStory, FakeRunning
<1> QED
  BY <1>3, <1>4, <1>5, <1>6, <1>7 DEF FakeInv

\* What holds is what the properties of a run ask.
LEMMA FakeInvShows == FakeInv => FakeRunReplays
<1> SUFFICES ASSUME FakeInv PROVE FakeRunReplays
  OBVIOUS
<1> DEFINE statuses == Tail(fakeLifecycle)
           last == fakeLifecycle[Len(fakeLifecycle)]
<1>1. IsPath(fakeLifecycle)
  BY LifecyclesArePaths DEF FakeInv, FakeStory, FakeTypes
<1>2. \A n \in 0..Len(statuses) : RecoverState([applied |-> n, status |-> fakeLifecycle[n + 1]], statuses) = last
  BY <1>1, PathRecovers
<1>3. (fakeRun.kept => Replayed.ok) /\ Replayed.ledger = fakeLedger
  BY DEF FakeInv, FakeReplayed
<1>4. \A op \in DOMAIN fakeJournal :
        \/ Replayed.journal[op] = fakeJournal[op]
        \/ /\ fakeEnd.error = "budget_exhausted" /\ fakeJournal[op].status = "planned"
           /\ Replayed.journal[op].status = "failed_known"
  BY FakeOperations DEF FakeInv, FakeReplayed
<1>5. Cardinality({fakeCalls[i] : i \in DOMAIN fakeCalls}) = Len(fakeCalls)
  BY DEF FakeInv, FakeCalled, FakeCallSet
<1>6. Cardinality(fakeLedger.charges) = IF fakePc = "raised" THEN Len(fakeCalls) - 1 ELSE Len(fakeCalls)
  BY DEF FakeInv, FakeCalled
<1>7. (fakeEnd.error = "budget_exhausted" /\ fakeAt.index \in DOMAIN Operations)
        => fakeJournal[fakeAt.index].status # "succeeded"
  <2>1. Ongoing.error # "budget_exhausted"
    BY DEF Ongoing
  <2> QED
    BY <2>1, FakeOperations DEF FakeInv, FakePlace, FakeOver
<1>8. last = "complete" => fakePc = "done" /\ fakeEnd.terminal = "complete"
  <2>1. fakeLifecycle = <<"brief_pending">> => last = "brief_pending"
    OBVIOUS
  <2>2. fakeLifecycle = Researching => last = "researching"
    BY DEF Researching
  <2>3. \A t : fakeLifecycle = Stopped(t) => last = t
    BY DEF Stopped
  <2> QED
    BY <2>1, <2>2, <2>3 DEF FakeInv, FakeStory, FakeTypes
<1>9. last = "complete" => \A op \in DOMAIN Operations : fakeJournal[op].status = "succeeded"
  <2> SUFFICES ASSUME last = "complete", NEW op \in DOMAIN Operations
               PROVE  fakeJournal[op].status = "succeeded"
    OBVIOUS
  <2>1. fakeAt.index > Len(Operations)
    BY <1>8 DEF FakeInv, FakePlace, FakeOver
  <2>2. op \in 1..3 /\ op < fakeAt.index
    BY <2>1, FakeOperations DEF FakeInv
  <2> QED
    BY <2>2 DEF FakeInv, FakePlace
<1> QED
  BY <1>2, <1>3, <1>4, <1>5, <1>6, <1>7, <1>9 DEF FakeRunReplays

\* A list of events and its replay grow by an event.
LEMMA EventAppends ==
  ASSUME NEW events, EventList(events), NEW e, e.type \in EventKinds, NEW spec
  PROVE  /\ EventList(Append(events, e))
         /\ ReplayOf(Append(events, e), spec) = ReplayStep(ReplayOf(events, spec), e, spec)
<1>1. PICK S : events \in Seq(S)
  BY DEF EventList
<1> DEFINE more == Append(events, e)
           T == S \cup {e}
<1>2. events \in Seq(T) /\ e \in T
  <2>1. \A i \in 1..Len(events) : events[i] \in T
    BY <1>1
  <2> QED
    BY <1>1, <2>1
<1> HIDE DEF T
<1>3. more \in Seq(T)
  BY <1>2
<1>4. Len(more) = Len(events) + 1 /\ Len(events) \in Nat /\ more[Len(events) + 1] = e /\ \A i \in 1..Len(events) : more[i] = events[i]
  BY <1>2
<1>5. ReplayOf(more, spec) = ReplayStep(ReplayOf(events, spec), e, spec)
  BY <1>1, ReplayGoesOn
<1> HIDE DEF more
<1>6. \A i \in 1..Len(more) : more[i].type \in EventKinds
  BY <1>4 DEF EventList
<1>7. EventList(more)
  BY <1>3, <1>6 DEF EventList
<1> QED
  BY <1>5, <1>7 DEF more

\* Where run, events, ledger and journal stay as they are, the replay does.
LEMMA FakeReplayStays ==
  ASSUME FakeReplayed, fakeRun' = fakeRun, fakeEvents' = fakeEvents, fakeLedger' = fakeLedger, fakeJournal' = fakeJournal,
         Replayed.journal = fakeJournal \/ (fakePc' \in FakeOver /\ fakeEnd' = fakeEnd)
  PROVE  FakeReplayed'
<1>1. Replayed' = Replayed
  BY DEF Replayed
<1> QED
  BY <1>1 DEF FakeReplayed

LEMMA FakeBeginsKeeps ==
  ASSUME FakeInv, FakeBegins
  PROVE  FakeInv'
<1>1. /\ fakePc = "idle" /\ fakePc' = "operation" /\ fakeLifecycle' = Researching
      /\ UNCHANGED <<fakeRun, fakeAt, fakeLedger, fakeJournal, fakeEvents, fakeCalls, fakeEnd>>
  BY DEF FakeBegins, Researching
<1>2. FakeTypes'
  BY <1>1 DEF FakeInv, FakeTypes, FakeRunning, Operations
<1>3. FakeReplayed'
  BY <1>1, FakeReplayStays DEF FakeInv, FakeReplayed, FakeOver
<1>4. FakePlace'
  <2>1. Operations' = Operations
    BY <1>1 DEF Operations
  <2> QED
    BY <1>1, <2>1 DEF FakeInv, FakePlace, FakeOver
<1>5. FakeCalled'
  BY <1>1 DEF FakeInv, FakeCalled, FakeCallSet
<1>6. FakeStory'
  BY <1>1 DEF FakeStory, FakeRunning
<1> QED
  BY <1>2, <1>3, <1>4, <1>5, <1>6 DEF FakeInv

LEMMA FakeStutters ==
  ASSUME FakeInv, FakeCancels \/ UNCHANGED fakeVars
  PROVE  FakeInv'
<1>1. UNCHANGED <<fakePc, fakeRun, fakeAt, fakeLedger, fakeJournal, fakeEvents, fakeLifecycle, fakeCalls, fakeEnd>>
  BY DEF FakeCancels, fakeVars
<1>2. Operations' = Operations /\ Operation' = Operation /\ FakeCallSet' = FakeCallSet /\ Replayed' = Replayed
  BY <1>1 DEF Operations, Operation, FakeCallSet, Replayed
<1>3. FakeTypes'
  BY <1>1, <1>2 DEF FakeInv, FakeTypes
<1>4. FakeReplayed'
  BY <1>1, <1>2 DEF FakeInv, FakeReplayed
<1>5. FakePlace'
  BY <1>1, <1>2 DEF FakeInv, FakePlace
<1>6. FakeCalled' /\ FakeStory'
  BY <1>1, <1>2 DEF FakeInv, FakeCalled, FakeStory
<1> QED
  BY <1>3, <1>4, <1>5, <1>6 DEF FakeInv

LEMMA LifecyclesEnd ==
  /\ Researching \o <<"validating", "complete">> = Completed
  /\ \A t : Researching \o <<t>> = Stopped(t)
<1>1. ASSUME NEW t PROVE Researching \o <<t>> = Stopped(t)
  <2> DEFINE S == {"brief_pending", "brief_approved", "researching", t}
             u == <<t>>
  <2>1. Researching \in Seq(S) /\ u \in Seq(S) /\ Stopped(t) \in Seq(S)
    BY DEF Researching, Stopped
  <2>2. Len(Researching) = 3 /\ Len(u) = 1 /\ Len(Stopped(t)) = 4
    BY DEF Researching, Stopped
  <2>3. \A i \in 1..4 : IF i <= 3 THEN Stopped(t)[i] = Researching[i] ELSE Stopped(t)[i] = u[i - 3]
    BY DEF Researching, Stopped
  <2> HIDE DEF u, S
  <2> DEFINE s == Researching \o u
  <2>4. s \in Seq(S) /\ Len(s) = 4 /\ \A i \in 1..4 : s[i] = IF i <= 3 THEN Researching[i] ELSE u[i - 3]
    <3>1. /\ Researching \o u \in Seq(S) /\ Len(Researching \o u) = Len(Researching) + Len(u)
          /\ \A i \in 1..Len(Researching) + Len(u) :
                (Researching \o u)[i] = IF i <= Len(Researching) THEN Researching[i] ELSE u[i - Len(Researching)]
      BY <2>1, Joined
    <3> HIDE DEF s
    <3> QED
      BY <3>1, <2>2 DEF s
  <2> HIDE DEF s
  <2>5. s = Stopped(t)
    <3>1. \A i \in 1..4 : s[i] = Stopped(t)[i]
      BY <2>3, <2>4
    <3> QED
      BY <2>1, <2>2, <2>4, <3>1, SameLists
  <2> QED
    BY <2>5 DEF s, u
<1>2. Researching \o <<"validating", "complete">> = Completed
  <2> DEFINE S == {"brief_pending", "brief_approved", "researching", "validating", "complete"}
             t == <<"validating", "complete">>
  <2>1. Researching \in Seq(S) /\ t \in Seq(S) /\ Completed \in Seq(S)
    BY DEF Researching, Completed
  <2>2. Len(Researching) = 3 /\ Len(t) = 2 /\ Len(Completed) = 5
    BY DEF Researching, Completed
  <2>3. \A i \in 1..5 : IF i <= 3 THEN Completed[i] = Researching[i] ELSE Completed[i] = t[i - 3]
    BY DEF Researching, Completed
  <2> HIDE DEF t, S
  <2> DEFINE s == Researching \o t
  <2>4. s \in Seq(S) /\ Len(s) = 5 /\ \A i \in 1..5 : s[i] = IF i <= 3 THEN Researching[i] ELSE t[i - 3]
    <3>1. /\ Researching \o t \in Seq(S) /\ Len(Researching \o t) = Len(Researching) + Len(t)
          /\ \A i \in 1..Len(Researching) + Len(t) :
                (Researching \o t)[i] = IF i <= Len(Researching) THEN Researching[i] ELSE t[i - Len(Researching)]
      BY <2>1, Joined
    <3> HIDE DEF s
    <3> QED
      BY <3>1, <2>2 DEF s
  <2> HIDE DEF s
  <2>5. s = Completed
    <3>1. \A i \in 1..5 : s[i] = Completed[i]
      BY <2>3, <2>4
    <3> QED
      BY <2>1, <2>2, <2>4, <3>1, SameLists
  <2> QED
    BY <2>5 DEF s, t
<1> QED
  BY <1>1, <1>2

LEMMA FakeFinishesKeeps ==
  ASSUME FakeInv, FakeFinishes
  PROVE  FakeInv'
<1>1. /\ fakePc = "finish" /\ fakePc' = "done"
      /\ fakeLifecycle' = fakeLifecycle \o (IF fakeEnd.terminal = "complete" THEN <<"validating", "complete">> ELSE <<fakeEnd.terminal>>)
      /\ UNCHANGED <<fakeRun, fakeAt, fakeLedger, fakeJournal, fakeEvents, fakeCalls, fakeEnd>>
  BY DEF FakeFinishes
<1>2. Operations' = Operations /\ FakeCallSet' = FakeCallSet
  BY <1>1 DEF Operations, FakeCallSet
<1>3. FakeTypes'
  BY <1>1, <1>2 DEF FakeInv, FakeTypes
<1>4. FakeReplayed'
  BY <1>1, FakeReplayStays DEF FakeInv, FakeOver
<1>5. FakePlace'
  BY <1>1, <1>2 DEF FakeInv, FakePlace, FakeOver
<1>6. FakeCalled'
  BY <1>1, <1>2 DEF FakeInv, FakeCalled
<1>7. FakeStory'
  <2>1. fakeLifecycle = Researching /\ fakeEnd.terminal \in {"complete", "failed", "insufficient_evidence"}
    BY <1>1 DEF FakeInv, FakeStory, FakePlace, FakeRunning
  <2>2. Researching \o <<"validating", "complete">> = Completed
    BY LifecyclesEnd
  <2>3. \A t : Researching \o <<t>> = Stopped(t)
    BY LifecyclesEnd
  <2>4. CASE fakeEnd.terminal = "complete"
    BY <1>1, <2>1, <2>2, <2>4 DEF FakeStory, FakeRunning
  <2>5. CASE fakeEnd.terminal # "complete"
    BY <1>1, <2>1, <2>3, <2>5 DEF FakeStory, FakeRunning
  <2> QED
    BY <2>4, <2>5
<1> QED
  BY <1>3, <1>4, <1>5, <1>6, <1>7 DEF FakeInv

\* A resumption runs under the budget of the scenario; only whether the replay raises depends on it.
LEMMA FakeResumesKeeps ==
  ASSUME FakeInv, FakeResumes
  PROVE  FakeInv'
<1> DEFINE other == SpecFor(fakeRun.scenario)
<1>1. /\ fakePc = "interrupted" /\ fakePc' = "operation"
      /\ fakeRun' = [fakeRun EXCEPT !.spec = other, !.interrupt = 0, !.kept = @ /\ fakeRun.spec = other]
      /\ fakeAt' = [index |-> fakeAt.index, attempt |-> 1, completed |-> 0]
      /\ UNCHANGED <<fakeLedger, fakeJournal, fakeEvents, fakeLifecycle, fakeCalls, fakeEnd>>
  BY DEF FakeResumes, ResumeIndex
<1>2. SpecLike(other)
  BY SpecsAreLike
<1> HIDE DEF other
<1>3. /\ fakeRun'.scenario = fakeRun.scenario /\ fakeRun'.spec = other /\ DOMAIN fakeRun' = DOMAIN fakeRun
      /\ fakeRun'.kept \in BOOLEAN
  BY <1>1 DEF FakeInv, FakeTypes
<1>4. fakeRun'.kept => (fakeRun.kept /\ fakeRun.spec = other)
  BY <1>1 DEF FakeInv, FakeTypes
<1>5. fakeAt'.index = fakeAt.index /\ fakeAt'.attempt = 1 /\ fakeAt' \in [index : 1..4, attempt : 1..2, completed : Nat]
      /\ fakeAt.attempt = 1
  BY <1>1 DEF FakeInv, FakeTypes, FakePlace
<1>6. Operations' = Operations /\ FakeCallSet' = FakeCallSet
  BY <1>1, <1>3 DEF Operations, FakeCallSet
<1>7. FakeTypes'
  BY <1>1, <1>2, <1>3, <1>5, <1>6 DEF FakeInv, FakeTypes, FakeRunning
<1>8. FakeReplayed'
  <2>1. Replayed' = ReplayOf(fakeEvents, other)
    BY <1>1, <1>3 DEF Replayed
  <2>2. Len(fakeEvents) \in Nat /\ \A i \in 1..Len(fakeEvents) : fakeEvents[i].type \in EventKinds
    BY DEF FakeInv, FakeTypes, EventList
  <2>3. /\ DOMAIN Replayed' = ReplayParts /\ Replayed'.ledger = Replayed.ledger /\ Replayed'.journal = Replayed.journal
    BY <2>1, <2>2, LimitsOnlyRaise DEF Replayed
  <2>4. fakeRun'.kept => Replayed' = Replayed
    BY <1>4, <2>1 DEF Replayed
  <2>5. fakeRun'.kept => Replayed'.ok
    BY <1>4, <2>4 DEF FakeInv, FakeReplayed
  <2>6. Replayed.journal = fakeJournal /\ Replayed.ledger = fakeLedger
    BY <1>1 DEF FakeInv, FakeReplayed, FakeOver
  <2> QED
    BY <1>1, <2>3, <2>5, <2>6 DEF FakeReplayed
<1>9. FakePlace'
  BY <1>1, <1>5, <1>6 DEF FakeInv, FakePlace, FakeOver
<1>10. FakeCalled'
  BY <1>1, <1>5, <1>6 DEF FakeInv, FakeCalled
<1>11. FakeStory'
  BY <1>1 DEF FakeInv, FakeStory, FakeRunning
<1> QED
  BY <1>7, <1>8, <1>9, <1>10, <1>11 DEF FakeInv

LEMMA PolicyEventIs ==
  ASSUME NEW type, NEW outcome, NEW code
  PROVE  LET e == PolicyEvent(type, outcome, code)
         IN  /\ e.type = type /\ e.op = fakeAt.index /\ e.attempt = fakeAt.attempt /\ e.outcome = outcome /\ e.code = code
             /\ e.kind = Operation.kind /\ e.usage = Operation.answers[fakeAt.attempt].usage
BY DEF PolicyEvent

\* A journal after a change of one record.
LEMMA RecordsChange ==
  ASSUME fakeJournal \in [1..3 -> FakeRecord], NEW op \in 1..3, NEW r \in FakeRecord, NEW j, j = [fakeJournal EXCEPT ![op] = r]
  PROVE  j \in [1..3 -> FakeRecord] /\ j[op] = r /\ \A o \in 1..3 : o # op => j[o] = fakeJournal[o]
OBVIOUS

LEMMA IndexBound == \A i \in 1..4, n \in 1..3 : i <= n => i \in 1..3
OBVIOUS

LEMMA FakePlansKeeps ==
  ASSUME FakeInv, FakePlans
  PROVE  FakeInv'
<1> DEFINE e == PolicyEvent("operation_planned", "planned", "none")
           index == fakeAt.index
<1>1. fakePc = "operation" /\ UNCHANGED <<fakeRun, fakeAt, fakeClock, fakeLedger, fakeLifecycle, fakeCalls>>
  BY DEF FakePlans
<1>2. /\ Len(Operations) \in 1..3 /\ index \in 1..4 /\ fakeAt.attempt = 1 /\ fakeEnd = Ongoing
      /\ index \in 1..3 => fakeJournal[index].status = "absent"
      /\ Replayed.journal = fakeJournal
  BY <1>1, FakeOperations DEF FakeInv, FakePlace, FakeReplayed, FakeOver
<1>3. \/ /\ fakeAt.index > Len(Operations) /\ fakePc' = "finish" /\ UNCHANGED <<fakeJournal, fakeEvents, fakeEnd>>
      \/ /\ fakePc' = "finish" /\ UNCHANGED <<fakeJournal, fakeEvents>>
         /\ \E error : fakeEnd' = End("failed", error)
      \/ /\ fakeAt.index <= Len(Operations) /\ fakePc' = "attempt" /\ UNCHANGED fakeEnd
         /\ ~Journal!Present(fakeJournal, index) =>
                /\ fakeJournal' = Journal!Add(fakeJournal, index, 1)
                /\ fakeEvents' = Append(fakeEvents, e)
  <2>1. \/ fakeAt.index > Len(Operations)
        \/ fakeAt.index <= Len(Operations) /\ (fakeCancelled \/ (fakeRun.scenario = "cancel_before_next_call" /\ fakeAt.index = 2) \/ Overdue)
        \/ fakeAt.index <= Len(Operations) /\ ~(fakeCancelled \/ (fakeRun.scenario = "cancel_before_next_call" /\ fakeAt.index = 2)) /\ ~Overdue
    BY <1>2
  <2>2. CASE fakeAt.index > Len(Operations)
    BY <1>2, <2>2 DEF FakePlans
  <2>3. CASE fakeAt.index <= Len(Operations) /\ (fakeCancelled \/ (fakeRun.scenario = "cancel_before_next_call" /\ fakeAt.index = 2) \/ Overdue)
    BY <1>2, <2>3 DEF FakePlans
  <2>4. CASE fakeAt.index <= Len(Operations) /\ ~(fakeCancelled \/ (fakeRun.scenario = "cancel_before_next_call" /\ fakeAt.index = 2)) /\ ~Overdue
    BY <1>2, <2>4 DEF FakePlans
  <2> QED
    BY <2>1, <2>2, <2>3, <2>4
<1>10. index <= Len(Operations) => index \in 1..3
  BY <1>2, IndexBound
<1>4. Operations' = Operations /\ FakeCallSet' = FakeCallSet
  BY <1>1 DEF Operations, FakeCallSet
<1>5. FakeCalled'
  BY <1>1, <1>2, <1>3, <1>4 DEF FakeInv, FakeCalled
<1>6. FakeStory'
  BY <1>1, <1>3 DEF FakeInv, FakeStory, FakeRunning
<1>7. CASE fakePc' = "finish" /\ UNCHANGED <<fakeJournal, fakeEvents>>
           /\ ((fakeAt.index > Len(Operations) /\ fakeEnd' = fakeEnd) \/ \E error : fakeEnd' = End("failed", error))
  <2>1. FakeTypes'
    BY <1>1, <1>4, <1>7 DEF FakeInv, FakeTypes, FakeRunning
  <2>2. FakeReplayed'
    BY <1>1, <1>2, <1>7, FakeReplayStays DEF FakeInv
  <2>3. fakeEnd'.terminal \in {"complete", "failed"} /\ (fakeEnd'.terminal = "complete" => fakeAt.index > Len(Operations))
    BY <1>2, <1>7 DEF Ongoing, End
  <2>4. FakePlace'
    BY <1>1, <1>2, <1>4, <1>7, <2>3 DEF FakeInv, FakePlace, FakeOver
  <2> QED
    BY <1>5, <1>6, <2>1, <2>2, <2>4 DEF FakeInv
<1>8. CASE /\ index <= Len(Operations) /\ fakePc' = "attempt" /\ UNCHANGED fakeEnd
           /\ fakeJournal' = Journal!Add(fakeJournal, index, 1)
           /\ fakeEvents' = Append(fakeEvents, e)
  <2> DEFINE r == [attempt |-> 1, status |-> "planned", error |-> "none"]
  <2>1. r \in FakeRecord /\ r.attempt = 1 /\ r.status = "planned"
    BY DEF FakeRecord, Journal!OperationStatus, FakeErrors
  <2>2. fakeJournal' = [fakeJournal EXCEPT ![index] = r]
    BY <1>8 DEF Journal!Add
  <2>3. index \in 1..3
    BY <1>10, <1>8
  <2> HIDE DEF r
  <2>4. fakeJournal' \in [1..3 -> FakeRecord] /\ fakeJournal'[index] = r /\ \A o \in 1..3 : o # index => fakeJournal'[o] = fakeJournal[o]
    BY <2>1, <2>2, <2>3, RecordsChange DEF FakeInv, FakeTypes
  <2>5. e.type = "operation_planned" /\ e.op = index /\ e.attempt = 1
    BY <1>2, PolicyEventIs
  <2> HIDE DEF e
  <2>6. EventList(fakeEvents') /\ Replayed' = ReplayStep(Replayed, e, fakeRun.spec)
    <3>1. e.type \in EventKinds
      BY <2>5 DEF EventKinds
    <3> QED
      BY <1>1, <1>8, <3>1, EventAppends DEF FakeInv, FakeTypes, Replayed
  <2>7. FakeTypes'
    BY <1>1, <1>4, <1>8, <2>4, <2>6 DEF FakeInv, FakeTypes, FakeRunning
  <2>8. FakeReplayed'
    <3> DEFINE step == ReplayStep(Replayed, e, fakeRun.spec)
    <3>1. /\ DOMAIN step = ReplayParts /\ step.ledger = Replayed.ledger
          /\ step.ok <=> Replayed.ok
          /\ step.journal = Journal!Add(Replayed.journal, index, 1)
      BY <2>5, PlannedReplays DEF FakeInv, FakeReplayed
    <3> HIDE DEF step
    <3>2. step.journal = fakeJournal'
      BY <1>2, <1>8, <3>1
    <3>3. Replayed' = step
      BY <2>6 DEF step
    <3> QED
      BY <1>1, <3>1, <3>2, <3>3 DEF FakeInv, FakeReplayed
  <2>9. fakeAt'.attempt \in 1..Len(Operation'.answers)
    <3>1. Operation' = Operations[index] /\ fakeAt'.attempt = 1
      BY <1>1, <1>2, <1>4 DEF Operation
    <3>2. Scripted(Operations[index])
      BY <1>2, <1>8, FakeOperations DEF FakeInv, ScriptedList
    <3>3. Len(Operations[index].answers) = 1 \/ Len(Operations[index].answers) = 2
      BY <3>2 DEF Scripted
    <3>4. \A n : n = 1 \/ n = 2 => 1 \in 1..n
      OBVIOUS
    <3>5. 1 \in 1..Len(Operations[index].answers)
      BY <3>3, <3>4, Zenon
    <3> QED
      BY <3>1, <3>5
  <2>10. FakePlace'
    BY <1>1, <1>2, <1>4, <1>8, <2>1, <2>3, <2>4, <2>9 DEF FakeInv, FakePlace, FakeOver
  <2> QED
    BY <1>5, <1>6, <2>7, <2>8, <2>10 DEF FakeInv
<1>9. index <= Len(Operations) => ~Journal!Present(fakeJournal, index)
  BY <1>2, <1>10 DEF Journal!Present
<1> HIDE DEF e
<1> QED
  BY <1>3, <1>7, <1>8, <1>9

LEMMA FakeRefusedKeeps ==
  ASSUME FakeInv, FakeRefused
  PROVE  FakeInv'
<1> DEFINE index == fakeAt.index
<1>1. /\ fakePc = "attempt" /\ fakePc' = "finish" /\ fakeEnd' = End("failed", "budget_exhausted") /\ fakeJournal' = Attempted
      /\ UNCHANGED <<fakeRun, fakeAt, fakeLedger, fakeEvents, fakeLifecycle, fakeCalls>>
  BY DEF FakeRefused
<1>2. /\ index <= Len(Operations) /\ Len(Operations) \in 1..3 /\ index \in 1..3 /\ fakeAt.attempt \in 1..2
      /\ fakeJournal[index].status = IF fakeAt.attempt = 1 THEN "planned" ELSE "failed_known"
      /\ Replayed.journal = fakeJournal
  BY <1>1, FakeOperations DEF FakeInv, FakePlace, FakeReplayed, FakeOver
<1> DEFINE r == [attempt |-> fakeAt.attempt, status |-> "planned", error |-> fakeJournal[index].error]
<1>3. /\ r \in FakeRecord /\ r.status = "planned"
      /\ fakeJournal \in [1..3 -> FakeRecord]
  BY <1>2 DEF FakeInv, FakeTypes, FakeRecord, Journal!OperationStatus
<1>4. /\ fakeJournal' \in [1..3 -> FakeRecord] /\ fakeJournal'[index].status = "planned"
      /\ \A o \in 1..3 : o # index => fakeJournal'[o] = fakeJournal[o]
  <2>1. CASE fakeAt.attempt = 1
    BY <1>1, <1>2, <1>3, <2>1 DEF Attempted
  <2>2. CASE fakeAt.attempt # 1
    <3>1. fakeJournal' = [fakeJournal EXCEPT ![index] = r]
      BY <1>1, <2>2 DEF Attempted, Journal!NewAttempt
    <3> HIDE DEF r
    <3> QED
      BY <1>2, <1>3, <3>1, RecordsChange
  <2> QED
    BY <2>1, <2>2
<1>5. fakeEnd'.terminal = "failed" /\ fakeEnd'.error = "budget_exhausted"
  BY <1>1 DEF End
<1>6. Operations' = Operations /\ FakeCallSet' = FakeCallSet /\ Replayed' = Replayed
  BY <1>1 DEF Operations, FakeCallSet, Replayed
<1>7. FakeTypes'
  BY <1>1, <1>4, <1>6 DEF FakeInv, FakeTypes, FakeRunning
<1>8. FakeReplayed'
  <2>1. CASE fakeAt.attempt = 1
    BY <1>1, <1>2, <1>6, <2>1 DEF FakeInv, FakeReplayed, Attempted
  <2>2. CASE fakeAt.attempt # 1
    BY <1>1, <1>2, <1>4, <1>5, <1>6, <2>2 DEF FakeInv, FakeReplayed, FakeOver
  <2> QED
    BY <2>1, <2>2
<1>9. FakePlace'
  BY <1>1, <1>2, <1>4, <1>5, <1>6 DEF FakeInv, FakePlace, FakeOver
<1>10. FakeCalled'
  BY <1>1, <1>6 DEF FakeInv, FakeCalled
<1>11. FakeStory'
  BY <1>1 DEF FakeInv, FakeStory, FakeRunning
<1> QED
  BY <1>7, <1>8, <1>9, <1>10, <1>11 DEF FakeInv

LEMMA FakeDecidesKeeps ==
  ASSUME FakeInv, FakeDecides
  PROVE  FakeInv'
<1> DEFINE index == fakeAt.index
           admitted == Replans /\ fakeRun.spec.maxReplans >= 1
           e == PolicyEvent("replan_decided", "admitted", "none")
<1>1. /\ fakePc = "decide" /\ UNCHANGED <<fakeRun, fakeJournal, fakeLifecycle, fakeCalls>>
      /\ fakeAt' = [fakeAt EXCEPT !.index = @ + 1, !.attempt = 1]
  BY DEF FakeDecides
<1>2. /\ admitted => fakeLedger' = Budget!RecordReplan(fakeLedger) /\ fakeEvents' = Append(fakeEvents, e)
      /\ ~admitted => fakeLedger' = fakeLedger /\ fakeEvents' = fakeEvents
  BY DEF FakeDecides
<1>3. /\ fakePc' \in {"finish", "interrupted", "operation"} /\ (fakePc' # "finish" => fakeEnd' = Ongoing)
      /\ fakePc' = "finish" => fakeEnd'.terminal = "insufficient_evidence"
      /\ fakeEnd'.terminal \in {"complete", "insufficient_evidence"}
  <2>1. fakeEnd' \in {Ongoing, End("insufficient_evidence", "budget_exhausted"), End("insufficient_evidence", "grounding_rejected")}
    BY DEF FakeDecides
  <2>2. /\ fakePc' \in {"finish", "interrupted", "operation"}
        /\ fakeEnd' # Ongoing <=> fakePc' = "finish"
    BY DEF FakeDecides
  <2>3. Ongoing.terminal = "complete" /\ \A error : End("insufficient_evidence", error).terminal = "insufficient_evidence"
    BY DEF Ongoing, End
  <2> QED
    BY <2>1, <2>2, <2>3
<1>4. /\ index <= Len(Operations) /\ Len(Operations) \in 1..3 /\ index \in 1..3 /\ fakeJournal[index].status = "succeeded"
      /\ Replayed.journal = fakeJournal /\ Replayed.ledger = fakeLedger /\ DOMAIN Replayed = ReplayParts
      /\ LedgerLike(fakeLedger) /\ EventList(fakeEvents)
  <2>1. index <= Len(Operations) /\ fakeJournal[index].status = "succeeded"
    BY <1>1 DEF FakeInv, FakePlace
  <2>2. Len(Operations) \in 1..3 /\ index \in 1..4
    BY FakeOperations DEF FakeInv
  <2>3. index \in 1..3
    BY <2>1, <2>2, IndexBound
  <2>4. Replayed.journal = fakeJournal /\ Replayed.ledger = fakeLedger /\ DOMAIN Replayed = ReplayParts
    BY <1>1 DEF FakeInv, FakeReplayed, FakeOver
  <2>5. LedgerLike(fakeLedger) /\ EventList(fakeEvents)
    BY DEF FakeInv, FakeTypes
  <2> QED
    BY <2>1, <2>2, <2>3, <2>4, <2>5
<1>5. /\ fakeAt' \in [index : 1..4, attempt : 1..2, completed : Nat]
      /\ fakeAt'.index = index + 1 /\ fakeAt'.attempt = 1
  <2>1. fakeAt \in [index : 1..4, attempt : 1..2, completed : Nat]
    BY DEF FakeInv, FakeTypes
  <2>2. PICK i \in 1..4, n \in 1..2, k \in Nat : fakeAt = [index |-> i, attempt |-> n, completed |-> k]
    BY <2>1
  <2>3. index = i
    BY <2>2
  <2>4. i \in 1..3 /\ i + 1 \in 1..4
    BY <1>4, <2>3
  <2>5. fakeAt' = [index |-> i + 1, attempt |-> 1, completed |-> k]
    BY <1>1, <2>2
  <2> QED
    BY <2>3, <2>4, <2>5
<1>6. Operations' = Operations /\ FakeCallSet' = FakeCallSet
  BY <1>1 DEF Operations, FakeCallSet
<1>7. /\ LedgerLike(fakeLedger') /\ fakeLedger'.charges = fakeLedger.charges
      /\ EventList(fakeEvents')
      /\ fakeRun.kept => Replayed'.ok
      /\ DOMAIN Replayed' = ReplayParts /\ Replayed'.ledger = fakeLedger' /\ Replayed'.journal = fakeJournal
  <2>1. CASE admitted
    <3>1. fakeLedger' = Budget!RecordReplan(fakeLedger) /\ fakeEvents' = Append(fakeEvents, e)
      BY <1>2, <2>1
    <3>2. LedgerLike(fakeLedger') /\ fakeLedger'.charges = fakeLedger.charges
      BY <1>4, <3>1, ReplanAdds
    <3>3. e.type = "replan_decided"
      BY PolicyEventIs
    <3>4. Budget!CanRecordReplan(fakeLedger, fakeRun.spec)
      <4>1. fakeLedger.replans = 0
        BY <2>1 DEF Replans, FakeInv, FakePlace
      <4> QED
        BY <2>1, <4>1 DEF Budget!CanRecordReplan, FakeInv, FakeTypes, SpecLike
    <3> HIDE DEF e, admitted
    <3> DEFINE step == ReplayStep(Replayed, e, fakeRun.spec)
    <3>5. EventList(fakeEvents') /\ Replayed' = step
      <4>1. e.type \in EventKinds
        BY <3>3 DEF EventKinds
      <4> QED
        BY <1>1, <1>4, <3>1, <4>1, EventAppends DEF Replayed
    <3>6. /\ DOMAIN step = ReplayParts /\ step.journal = Replayed.journal
          /\ step.ok <=> (Replayed.ok /\ Budget!CanRecordReplan(fakeLedger, fakeRun.spec))
          /\ step.ledger = Budget!RecordReplan(fakeLedger)
      BY <1>4, <3>3, ReplanReplays
    <3> HIDE DEF step
    <3>7. fakeRun.kept => step.ok
      BY <3>4, <3>6 DEF FakeInv, FakeReplayed
    <3> QED
      BY <1>4, <3>1, <3>2, <3>5, <3>6, <3>7
  <2>2. CASE ~admitted
    <3>1. fakeLedger' = fakeLedger /\ fakeEvents' = fakeEvents
      BY <1>2, <2>2
    <3>2. Replayed' = Replayed
      BY <1>1, <3>1 DEF Replayed
    <3> QED
      BY <1>4, <3>1, <3>2 DEF FakeInv, FakeReplayed
  <2> QED
    BY <2>1, <2>2
<1>8. FakeTypes'
  BY <1>1, <1>3, <1>4, <1>5, <1>6, <1>7 DEF FakeInv, FakeTypes, FakeRunning
<1>9. FakeReplayed'
  BY <1>1, <1>7 DEF FakeReplayed
<1>10. FakePlace'
  BY <1>1, <1>3, <1>4, <1>5, <1>6 DEF FakeInv, FakePlace, FakeOver
<1>11. FakeCalled'
  <2>1. \A c \in FakeCallSet : c \in Nat \X Nat /\ c[1] \in Nat /\ c[1] <= index
    BY DEF FakeInv, FakeCalled, FakeCallSet
  <2>2. \A c \in FakeCallSet : c[1] < fakeAt'.index
    BY <1>4, <1>5, <2>1
  <2>3. \A c \in FakeCallSet' :
          /\ c[1] <= fakeAt'.index
          /\ fakePc' \in {"idle", "operation", "interrupted"} => c[1] < fakeAt'.index
          /\ fakePc' = "attempt" /\ c[1] = fakeAt'.index => c[2] < fakeAt'.attempt
    BY <1>3, <1>5, <1>4, <1>6, <2>1, <2>2
  <2> QED
    BY <1>1, <1>3, <1>6, <1>7, <2>3 DEF FakeInv, FakeCalled
<1>12. FakeStory'
  BY <1>1, <1>3 DEF FakeInv, FakeStory, FakeRunning
<1> QED
  BY <1>8, <1>9, <1>10, <1>11, <1>12 DEF FakeInv

LEMMA ThreeAppends ==
  ASSUME NEW S, NEW s \in Seq(S), NEW a, NEW b, NEW c
  PROVE  s \o <<a, b, c>> = Append(Append(Append(s, a), b), c)
<1> DEFINE T == S \cup {a, b, c}
           t == <<a, b, c>>
           u == Append(s, a)
           v == Append(u, b)
           w == Append(v, c)
<1>1. a \in T /\ b \in T /\ c \in T /\ s \in Seq(T)
  <2>1. \A i \in 1..Len(s) : s[i] \in T
    OBVIOUS
  <2> QED
    BY <2>1
<1>2. t \in Seq(T) /\ Len(t) = 3 /\ t[1] = a /\ t[2] = b /\ t[3] = c
  BY <1>1
<1> HIDE DEF T, t
<1>3. Len(s) \in Nat
  OBVIOUS
<1>4. u \in Seq(T) /\ Len(u) = Len(s) + 1 /\ u[Len(s) + 1] = a /\ \A i \in 1..Len(s) : u[i] = s[i]
  BY <1>1
<1> HIDE DEF u
<1>5. v \in Seq(T) /\ Len(v) = Len(s) + 2 /\ v[Len(s) + 2] = b /\ \A i \in 1..Len(s) + 1 : v[i] = u[i]
  BY <1>1, <1>3, <1>4
<1> HIDE DEF v
<1>6. w \in Seq(T) /\ Len(w) = Len(s) + 3 /\ w[Len(s) + 3] = c /\ \A i \in 1..Len(s) + 2 : w[i] = v[i]
  BY <1>1, <1>3, <1>5
<1> HIDE DEF w
<1>7. /\ s \o t \in Seq(T) /\ Len(s \o t) = Len(s) + Len(t)
      /\ \A i \in 1..Len(s) + Len(t) : (s \o t)[i] = IF i <= Len(s) THEN s[i] ELSE t[i - Len(s)]
  BY <1>1, <1>2, Joined
<1>8. \A i \in 1..Len(w) : w[i] = (s \o t)[i]
  <2> SUFFICES ASSUME NEW i \in 1..Len(w) PROVE w[i] = (s \o t)[i]
    OBVIOUS
  <2>1. i \in 1..Len(s) \/ i = Len(s) + 1 \/ i = Len(s) + 2 \/ i = Len(s) + 3
    BY <1>3, <1>6
  <2>2. (s \o t)[i] = IF i <= Len(s) THEN s[i] ELSE t[i - Len(s)]
    BY <1>2, <1>3, <1>6, <1>7
  <2>3. w[i] = IF i <= Len(s) THEN s[i] ELSE IF i = Len(s) + 1 THEN a ELSE IF i = Len(s) + 2 THEN b ELSE c
    BY <1>3, <1>4, <1>5, <1>6, <2>1
  <2> QED
    BY <1>2, <1>3, <2>1, <2>2, <2>3
<1>9. w = s \o t
  <2>1. w \in Seq(T) /\ s \o t \in Seq(T) /\ Len(w) = Len(s \o t)
    BY <1>2, <1>3, <1>6, <1>7
  <2> QED
    BY <1>8, <2>1, SameLists
<1> QED
  BY <1>9 DEF w, v, u, t

\* What the journal says of the present operation once its attempt is planned, and started.
LEMMA FakeAttemptIs ==
  ASSUME FakeInv, fakePc = "attempt"
  PROVE  /\ fakeAt.index <= Len(Operations) /\ fakeAt.index \in 1..3 /\ fakeAt.attempt \in 1..2
         /\ Operation.answers[fakeAt.attempt] \in Answer
         /\ Outcome(Operation.answers[fakeAt.attempt])[1] = "failed_known" /\ fakeAt.attempt = 1 => Len(Operation.answers) = 2
         /\ Attempted \in [1..3 -> FakeRecord]
         /\ Attempted[fakeAt.index].attempt = fakeAt.attempt /\ Attempted[fakeAt.index].status = "planned"
         /\ \A o \in 1..3 : o # fakeAt.index => Attempted[o] = fakeJournal[o]
         /\ Attempted = IF fakeJournal[fakeAt.index].attempt = fakeAt.attempt THEN fakeJournal
                        ELSE Journal!NewAttempt(fakeJournal, fakeAt.index, fakeAt.attempt, "planned", fakeJournal[fakeAt.index].error)
<1> DEFINE index == fakeAt.index
           n == fakeAt.attempt
<1>1. /\ index <= Len(Operations) /\ n \in 1..Len(Operation.answers) /\ fakeJournal[index].attempt = 1
      /\ fakeJournal[index].status = IF n = 1 THEN "planned" ELSE "failed_known"
  BY DEF FakeInv, FakePlace
<1>2. /\ Len(Operations) \in 1..3 /\ index \in 1..4 /\ n \in 1..2 /\ ScriptedList(Operations)
  BY FakeOperations DEF FakeInv
<1>3. index \in 1..3 /\ index \in 1..Len(Operations)
  <2>1. index \in 1..3
    BY <1>1, <1>2, IndexBound
  <2> QED
    BY <1>1, <1>2, <2>1
<1>4. Scripted(Operation)
  BY <1>2, <1>3 DEF ScriptedList, Operation
<1>5. /\ Operation.answers[n] \in Answer
      /\ \/ Len(Operation.answers) = 2
         \/ Operation.answers[n].status # "error" /\ Operation.answers[n].latency = 0
  <2>1. CASE \E a, b \in Answer : Operation.answers = <<a, b>>
    BY <1>2, <2>1
  <2>2. CASE \E a \in Answer : Operation.answers = <<a>> /\ a.status # "error" /\ a.latency = 0
    BY <1>1, <1>2, <2>2
  <2> QED
    BY <1>4, <2>1, <2>2 DEF Scripted
<1>6. SpecLike(fakeRun.spec)
  BY DEF FakeInv, FakeTypes
<1>7. Outcome(Operation.answers[n])[1] = "failed_known" => Len(Operation.answers) = 2
  BY <1>5, <1>6, OutcomeIsOne
<1> DEFINE r == [attempt |-> n, status |-> "planned", error |-> fakeJournal[index].error]
<1>8. r \in FakeRecord /\ r.attempt = n /\ r.status = "planned" /\ fakeJournal \in [1..3 -> FakeRecord]
  BY <1>2, <1>3 DEF FakeInv, FakeTypes, FakeRecord, Journal!OperationStatus
<1>9. Journal!NewAttempt(fakeJournal, index, n, "planned", fakeJournal[index].error) = [fakeJournal EXCEPT ![index] = r]
  BY DEF Journal!NewAttempt
<1> HIDE DEF r
<1>10. /\ Attempted \in [1..3 -> FakeRecord] /\ Attempted[index].attempt = n /\ Attempted[index].status = "planned"
       /\ \A o \in 1..3 : o # index => Attempted[o] = fakeJournal[o]
       /\ Attempted = IF fakeJournal[index].attempt = n THEN fakeJournal
                      ELSE Journal!NewAttempt(fakeJournal, index, n, "planned", fakeJournal[index].error)
  <2>1. CASE n = 1
    BY <1>1, <1>8, <2>1 DEF Attempted
  <2>2. CASE n # 1
    <3>1. Attempted = Journal!NewAttempt(fakeJournal, index, n, "planned", fakeJournal[index].error)
      BY <2>2 DEF Attempted
    <3>2. Attempted = [fakeJournal EXCEPT ![index] = r]
      BY <3>1, <1>9
    <3>3. /\ Attempted \in [1..3 -> FakeRecord] /\ Attempted[index] = r
          /\ \A o \in 1..3 : o # index => Attempted[o] = fakeJournal[o]
      BY <1>3, <1>8, <3>2, RecordsChange
    <3> QED
      BY <1>1, <1>8, <2>2, <3>1, <3>3
  <2> QED
    BY <2>1, <2>2
<1> QED
  BY <1>1, <1>2, <1>3, <1>5, <1>7, <1>10

\* A status, and an outcome, of the present record.
LEMMA StatusChanges ==
  ASSUME NEW j \in [1..3 -> FakeRecord], NEW op \in 1..3, NEW status \in Journal!OperationStatus, NEW error \in FakeErrors, NEW n
  PROVE  /\ LET k == Journal!StartOp(j, op, n)
            IN  /\ k \in [1..3 -> FakeRecord] /\ k[op].status = "started" /\ k[op].attempt = j[op].attempt
                /\ \A o \in 1..3 : o # op => k[o] = j[o]
         /\ LET k == Journal!SetStatus(j, op, status, error)
            IN  /\ k \in [1..3 -> FakeRecord] /\ k[op].status = status /\ k[op].attempt = j[op].attempt
                /\ \A o \in 1..3 : o # op => k[o] = j[o]
<1>1. PICK m \in Nat, s \in Journal!OperationStatus \cup {"absent"}, e \in FakeErrors :
        j[op] = [attempt |-> m, status |-> s, error |-> e]
  BY DEF FakeRecord
<1> DEFINE a == [attempt |-> m, status |-> "started", error |-> e]
           b == [attempt |-> m, status |-> status, error |-> error]
<1>2. a \in FakeRecord /\ b \in FakeRecord
  BY DEF FakeRecord, Journal!OperationStatus
<1>3. [j[op] EXCEPT !.status = "started"] = a /\ [j[op] EXCEPT !.status = status, !.error = error] = b
  <2> DEFINE t == [j[op] EXCEPT !.status = status]
  <2>1. t = [attempt |-> m, status |-> status, error |-> e]
    BY <1>1
  <2>2. [j[op] EXCEPT !.status = status, !.error = error] = [t EXCEPT !.error = error]
    BY <1>1
  <2> HIDE DEF t
  <2>3. [t EXCEPT !.error = error] = b
    BY <2>1
  <2> QED
    BY <1>1, <2>2, <2>3
<1>4. a.status = "started" /\ a.attempt = m /\ b.status = status /\ b.attempt = m /\ j[op].attempt = m
  BY <1>1
<1>5. Journal!StartOp(j, op, n) = [j EXCEPT ![op] = a]
  BY <1>3 DEF Journal!StartOp
<1>6. Journal!SetStatus(j, op, status, error) = [j EXCEPT ![op] = b]
  BY <1>3 DEF Journal!SetStatus
<1> HIDE DEF a, b
<1>7. /\ [j EXCEPT ![op] = a] \in [1..3 -> FakeRecord] /\ [j EXCEPT ![op] = a][op] = a
      /\ \A o \in 1..3 : o # op => [j EXCEPT ![op] = a][o] = j[o]
  BY <1>2
<1>8. /\ [j EXCEPT ![op] = b] \in [1..3 -> FakeRecord] /\ [j EXCEPT ![op] = b][op] = b
      /\ \A o \in 1..3 : o # op => [j EXCEPT ![op] = b][o] = j[o]
  BY <1>2
<1> QED
  BY <1>4, <1>5, <1>6, <1>7, <1>8

\* What the replay makes of the start of an attempt.
LEMMA FakeStartReplays ==
  ASSUME FakeInv, fakePc = "attempt"
  PROVE  LET events == Append(fakeEvents, PolicyEvent("operation_started", "started", "none"))
             r == ReplayOf(events, fakeRun.spec)
         IN  /\ EventList(events) /\ DOMAIN r = ReplayParts /\ r.ledger = fakeLedger
             /\ fakeRun.kept => r.ok
             /\ r.journal = Journal!StartOp(Attempted, fakeAt.index, fakeAt.attempt)
<1> DEFINE e == PolicyEvent("operation_started", "started", "none")
           events == Append(fakeEvents, e)
           r == ReplayOf(events, fakeRun.spec)
           step == ReplayStep(Replayed, e, fakeRun.spec)
<1>1. e.type = "operation_started" /\ e.op = fakeAt.index /\ e.attempt = fakeAt.attempt
  BY PolicyEventIs
<1> HIDE DEF e
<1>2. Replayed.journal = fakeJournal /\ Replayed.ledger = fakeLedger /\ DOMAIN Replayed = ReplayParts
  BY DEF FakeInv, FakeReplayed, FakeOver
<1>3. MovedTo(Replayed.journal, e) = Attempted
  BY <1>1, <1>2, FakeAttemptIs DEF MovedTo
<1>4. Journal!CanStart(Attempted, fakeAt.index, fakeAt.attempt)
  BY FakeAttemptIs DEF Journal!CanStart, Journal!IsCurrent, Journal!Present
<1>5. /\ DOMAIN step = ReplayParts /\ step.ledger = fakeLedger
      /\ step.ok <=> (Replayed.ok /\ Journal!CanStart(Attempted, fakeAt.index, fakeAt.attempt))
      /\ step.journal = Journal!StartOp(Attempted, fakeAt.index, fakeAt.attempt)
  BY <1>1, <1>2, <1>3, StartedReplays
<1>6. EventList(events) /\ r = step
  <2>1. e.type \in EventKinds
    BY <1>1 DEF EventKinds
  <2>2. EventList(fakeEvents)
    BY DEF FakeInv, FakeTypes
  <2> QED
    BY <2>1, <2>2, EventAppends DEF Replayed
<1> HIDE DEF step, r
<1>7. fakeRun.kept => r.ok
  BY <1>4, <1>5, <1>6 DEF FakeInv, FakeReplayed
<1> QED
  BY <1>5, <1>6, <1>7 DEF e, r

\* A call that was not made before is one more call.
LEMMA CallAdds ==
  ASSUME FakeInv, fakePc = "attempt", fakeCalls' = Append(fakeCalls, <<fakeAt.index, fakeAt.attempt>>)
  PROVE  LET c == <<fakeAt.index, fakeAt.attempt>>
         IN  /\ c \notin FakeCallSet /\ FakeCallSet' = FakeCallSet \cup {c}
             /\ fakeCalls' \in Seq(Nat \X Nat) /\ Len(fakeCalls') = Len(fakeCalls) + 1 /\ Len(fakeCalls) \in Nat
             /\ IsFiniteSet(FakeCallSet') /\ Cardinality(FakeCallSet') = Len(fakeCalls')
             /\ \A d \in FakeCallSet' : d[1] \in Nat /\ d[1] <= fakeAt.index /\ (d[1] = fakeAt.index => d[2] <= fakeAt.attempt)
<1> DEFINE c == <<fakeAt.index, fakeAt.attempt>>
<1>1. fakeAt.index \in 1..3 /\ fakeAt.attempt \in 1..2
  BY FakeAttemptIs
<1>2. c \in Nat \X Nat /\ c[1] = fakeAt.index /\ c[2] = fakeAt.attempt
  BY <1>1
<1> HIDE DEF c
<1>3. fakeCalls \in Seq(Nat \X Nat) /\ IsFiniteSet(FakeCallSet) /\ Cardinality(FakeCallSet) = Len(fakeCalls)
  BY DEF FakeInv, FakeCalled
<1>4. fakeCalls' = Append(fakeCalls, c)
  BY DEF c
<1>5. /\ fakeCalls' \in Seq(Nat \X Nat) /\ Len(fakeCalls') = Len(fakeCalls) + 1 /\ Len(fakeCalls) \in Nat
      /\ fakeCalls'[Len(fakeCalls) + 1] = c /\ \A i \in 1..Len(fakeCalls) : fakeCalls'[i] = fakeCalls[i]
      /\ DOMAIN fakeCalls = 1..Len(fakeCalls) /\ DOMAIN fakeCalls' = 1..Len(fakeCalls')
  BY <1>2, <1>3, <1>4
<1>6. FakeCallSet' = FakeCallSet \cup {c}
  <2>1. \A i \in 1..Len(fakeCalls) + 1 : i \in 1..Len(fakeCalls) \/ i = Len(fakeCalls) + 1
    BY <1>5
  <2>2. FakeCallSet' = {fakeCalls'[i] : i \in 1..Len(fakeCalls) + 1} /\ FakeCallSet = {fakeCalls[i] : i \in 1..Len(fakeCalls)}
    BY <1>5 DEF FakeCallSet
  <2>3. \A x : x \in {fakeCalls'[i] : i \in 1..Len(fakeCalls) + 1} <=> x \in {fakeCalls[i] : i \in 1..Len(fakeCalls)} \/ x = c
    BY <1>5, <2>1
  <2> QED
    BY <2>2, <2>3
<1>7. \A d \in FakeCallSet : d \in Nat \X Nat /\ d[1] <= fakeAt.index /\ (d[1] = fakeAt.index => d[2] < fakeAt.attempt)
  <2>1. \A d \in FakeCallSet : d \in Nat \X Nat
    BY <1>3 DEF FakeCallSet
  <2> QED
    BY <2>1 DEF FakeInv, FakeCalled
<1>8. c \notin FakeCallSet
  BY <1>1, <1>2, <1>7
<1>9. IsFiniteSet(FakeCallSet') /\ Cardinality(FakeCallSet') = Len(fakeCalls')
  <2>1. IsFiniteSet(FakeCallSet \cup {c}) /\ Cardinality(FakeCallSet \cup {c}) = Cardinality(FakeCallSet) + 1
    BY <1>3, <1>8, FS_AddElement
  <2> QED
    BY <1>3, <1>5, <1>6, <2>1
<1>10. \A d \in FakeCallSet' : d[1] \in Nat /\ d[1] <= fakeAt.index /\ (d[1] = fakeAt.index => d[2] <= fakeAt.attempt)
  BY <1>1, <1>2, <1>6, <1>7
<1> QED
  BY <1>5, <1>6, <1>8, <1>9, <1>10 DEF c

\* A call whose charge raises leaves its start.
LEMMA FakeRaises ==
  ASSUME FakeInv, fakePc = "attempt", fakePc' = "raised",
         fakeJournal' = Journal!StartOp(Attempted, fakeAt.index, fakeAt.attempt),
         fakeEvents' = Append(fakeEvents, PolicyEvent("operation_started", "started", "none")),
         fakeCalls' = Append(fakeCalls, <<fakeAt.index, fakeAt.attempt>>),
         UNCHANGED <<fakeRun, fakeAt, fakeLedger, fakeEnd, fakeLifecycle>>
  PROVE  FakeInv'
<1> DEFINE index == fakeAt.index
           e == PolicyEvent("operation_started", "started", "none")
<1>1. index <= Len(Operations) /\ index \in 1..3 /\ Attempted \in [1..3 -> FakeRecord]
      /\ \A o \in 1..3 : o # index => Attempted[o] = fakeJournal[o]
  BY FakeAttemptIs
<1>2. /\ fakeJournal' \in [1..3 -> FakeRecord] /\ fakeJournal'[index].status = "started"
      /\ \A o \in 1..3 : o # index => fakeJournal'[o] = fakeJournal[o]
  <2>1. "started" \in Journal!OperationStatus /\ "none" \in FakeErrors
    BY DEF Journal!OperationStatus, FakeErrors
  <2> QED
    BY <1>1, <2>1, StatusChanges
<1>3. /\ EventList(fakeEvents') /\ DOMAIN Replayed' = ReplayParts /\ Replayed'.ledger = fakeLedger
      /\ fakeRun.kept => Replayed'.ok
      /\ Replayed'.journal = fakeJournal'
  BY FakeStartReplays DEF Replayed
<1>4. Operations' = Operations
  BY DEF Operations
<1>5. FakeTypes'
  BY <1>2, <1>3, <1>4 DEF FakeInv, FakeTypes, FakeRunning
<1>6. FakeReplayed'
  BY <1>3 DEF FakeReplayed
<1>7. FakePlace'
  BY <1>1, <1>2, <1>4 DEF FakeInv, FakePlace, FakeOver
<1>8. FakeCalled'
  <2>1. Len(fakeCalls') - 1 = Len(fakeCalls)
    BY CallAdds
  <2> QED
    BY <2>1, CallAdds DEF FakeInv, FakeCalled
<1>9. FakeStory'
  BY DEF FakeInv, FakeStory, FakeRunning
<1> QED
  BY <1>5, <1>6, <1>7, <1>8, <1>9 DEF FakeInv

OutcomeType(kind) ==
    CASE kind = "succeeded" -> "operation_succeeded" [] kind = "outcome_unknown" -> "operation_unknown"
      [] kind = "failed_known" -> "operation_failed"

\* What the replay makes of an attempt that was charged.
LEMMA FakeChargeReplays ==
  ASSUME FakeInv, fakePc = "attempt",
         NEW kind \in {"succeeded", "failed_known", "outcome_unknown"}, NEW code \in FakeErrors, NEW charge,
         charge = [op |-> fakeAt.index, attempt |-> fakeAt.attempt, kind |-> Operation.kind,
                   usage |-> Operation.answers[fakeAt.attempt].usage, outcome |-> kind],
         Budget!CanReconcile(fakeLedger, fakeRun.spec, charge)
  PROVE  LET events == fakeEvents \o <<PolicyEvent("operation_started", "started", "none"),
                                       PolicyEvent("attempt_charged", kind, code), PolicyEvent(OutcomeType(kind), kind, code)>>
             r == ReplayOf(events, fakeRun.spec)
         IN  /\ EventList(events) /\ DOMAIN r = ReplayParts /\ r.ledger = Budget!Reconcile(fakeLedger, charge)
             /\ fakeRun.kept => r.ok
             /\ r.journal = Journal!SetStatus(Journal!StartOp(Attempted, fakeAt.index, fakeAt.attempt), fakeAt.index, kind, code)
<1> DEFINE a == PolicyEvent("operation_started", "started", "none")
           b == PolicyEvent("attempt_charged", kind, code)
           c == PolicyEvent(OutcomeType(kind), kind, code)
           started == Journal!StartOp(Attempted, fakeAt.index, fakeAt.attempt)
           one == Append(fakeEvents, a)
           two == Append(one, b)
           three == Append(two, c)
           r1 == ReplayOf(one, fakeRun.spec)
           r2 == ReplayOf(two, fakeRun.spec)
           r3 == ReplayOf(three, fakeRun.spec)
<1>1. EventList(fakeEvents)
  BY DEF FakeInv, FakeTypes
<1>2. fakeEvents \o <<a, b, c>> = three
  BY <1>1, ThreeAppends DEF EventList
<1>3. /\ EventList(one) /\ DOMAIN r1 = ReplayParts /\ r1.ledger = fakeLedger
      /\ fakeRun.kept => r1.ok
      /\ r1.journal = started
  BY FakeStartReplays
<1>4. b.type = "attempt_charged" /\ ChargeOf(b) = charge
  BY PolicyEventIs DEF ChargeOf
<1>5. OutcomeType(kind) \in OutcomeTypes
  BY DEF OutcomeType, OutcomeTypes
<1>6. /\ c.type \in OutcomeTypes /\ c.op = fakeAt.index /\ c.attempt = fakeAt.attempt /\ c.outcome = kind /\ c.code = code
  BY <1>5, PolicyEventIs
<1>7. b.type \in EventKinds /\ c.type \in EventKinds
  BY <1>4, <1>6 DEF EventKinds
<1> HIDE DEF a, b, c, started
<1>8. EventList(two) /\ r2 = ReplayStep(r1, b, fakeRun.spec)
  BY <1>3, <1>7, EventAppends
<1>9. EventList(three) /\ r3 = ReplayStep(r2, c, fakeRun.spec)
  BY <1>7, <1>8, EventAppends
<1> HIDE DEF one, two, three, r1, r2, r3
<1>10. /\ DOMAIN r2 = ReplayParts /\ r2.journal = started
       /\ r2.ok <=> (r1.ok /\ Budget!CanReconcile(fakeLedger, fakeRun.spec, charge))
       /\ r2.ledger = Budget!Reconcile(fakeLedger, charge)
  BY <1>3, <1>4, <1>8, ChargeReplays
<1>11. /\ DOMAIN r3 = ReplayParts /\ r3.ledger = r2.ledger
       /\ r3.ok <=> (r2.ok /\ Journal!CanMark(started, fakeAt.index, fakeAt.attempt))
       /\ r3.journal = Journal!SetStatus(started, fakeAt.index, kind, code)
  BY <1>6, <1>9, <1>10, OutcomeReplays
<1>12. Journal!CanMark(started, fakeAt.index, fakeAt.attempt)
  <2>1. "started" \in Journal!OperationStatus /\ "none" \in FakeErrors
    BY DEF Journal!OperationStatus, FakeErrors
  <2>2. started[fakeAt.index].status = "started" /\ started[fakeAt.index].attempt = fakeAt.attempt
    BY <2>1, FakeAttemptIs, StatusChanges DEF started
  <2> QED
    BY <2>2 DEF Journal!CanMark, Journal!IsCurrent, Journal!Present
<1>13. fakeRun.kept => r3.ok
  BY <1>3, <1>10, <1>11, <1>12
<1>14. /\ EventList(three) /\ DOMAIN r3 = ReplayParts /\ r3.ledger = Budget!Reconcile(fakeLedger, charge)
       /\ r3.journal = Journal!SetStatus(started, fakeAt.index, kind, code)
  BY <1>9, <1>10, <1>11
<1> QED
  BY <1>2, <1>13, <1>14 DEF a, b, c, started, r3

\* What a call that was charged does to calls and charges.
LEMMA FakeCharges ==
  ASSUME FakeInv, fakePc = "attempt", fakeCalls' = Append(fakeCalls, <<fakeAt.index, fakeAt.attempt>>),
         NEW charge, charge.op = fakeAt.index, charge.attempt = fakeAt.attempt
  PROVE  /\ LedgerLike(Budget!Reconcile(fakeLedger, charge))
         /\ Budget!Reconcile(fakeLedger, charge).replans = fakeLedger.replans
         /\ LET charges == Budget!Reconcile(fakeLedger, charge).charges
            IN  /\ IsFiniteSet(charges) /\ Cardinality(charges) = Len(fakeCalls')
                /\ \A c \in charges : <<c.op, c.attempt>> \in FakeCallSet'
<1> DEFINE old == fakeLedger.charges
           new == Budget!Reconcile(fakeLedger, charge)
<1>1. /\ LedgerLike(fakeLedger) /\ IsFiniteSet(old) /\ Cardinality(old) = Len(fakeCalls)
      /\ \A c \in old : <<c.op, c.attempt>> \in FakeCallSet
  BY DEF FakeInv, FakeTypes, FakeCalled
<1>2. /\ <<fakeAt.index, fakeAt.attempt>> \notin FakeCallSet /\ Len(fakeCalls') = Len(fakeCalls) + 1
      /\ FakeCallSet' = FakeCallSet \cup {<<fakeAt.index, fakeAt.attempt>>}
  BY CallAdds
<1>3. charge \notin old
  BY <1>1, <1>2
<1>4. LedgerLike(new) /\ new.charges = old \cup {charge} /\ new.replans = fakeLedger.replans
  BY <1>1, <1>3, ChargeAdds
<1> HIDE DEF old, new
<1>5. IsFiniteSet(old \cup {charge}) /\ Cardinality(old \cup {charge}) = Cardinality(old) + 1
  BY <1>1, <1>3, FS_AddElement
<1>6. \A c \in old \cup {charge} : <<c.op, c.attempt>> \in FakeCallSet'
  BY <1>1, <1>2
<1> QED
  BY <1>1, <1>2, <1>4, <1>5, <1>6 DEF new

LEMMA FakeAttemptsKeeps ==
  ASSUME FakeInv, FakeAttempts
  PROVE  FakeInv'
<1> DEFINE index == fakeAt.index
           n == fakeAt.attempt
           answer == Operation.answers[n]
           outcome == Outcome(answer)
           charge == [op |-> index, attempt |-> n, kind |-> Operation.kind, usage |-> answer.usage, outcome |-> outcome[1]]
           reserved == Budget!Reserve(fakeLedger, Reservation)
           started == Journal!StartOp(Attempted, index, n)
           can == Budget!CanReconcile(reserved, fakeRun.spec, charge)
<1>1. fakePc = "attempt" /\ fakeCalls' = Append(fakeCalls, <<index, n>>) /\ UNCHANGED <<fakeRun, fakeLifecycle>>
  BY DEF FakeAttempts
<1>2. answer \in Answer /\ index <= Len(Operations) /\ index \in 1..3 /\ n \in 1..2 /\ SpecLike(fakeRun.spec)
      /\ (outcome[1] = "failed_known" /\ n = 1 => Len(Operation.answers) = 2)
  BY <1>1, FakeAttemptIs DEF FakeInv, FakeTypes
<1>3. PICK code \in FakeErrors, kind \in {"succeeded", "failed_known", "outcome_unknown"} : outcome = <<kind, code>>
  BY <1>2, OutcomeIsOne
<1>4. outcome[1] = kind /\ outcome[2] = code
  BY <1>3
<1>5. CASE ~can
  <2>1. /\ fakePc' = "raised" /\ fakeJournal' = started
        /\ fakeEvents' = Append(fakeEvents, PolicyEvent("operation_started", "started", "none"))
        /\ UNCHANGED <<fakeAt, fakeLedger, fakeEnd>>
    BY <1>5 DEF FakeAttempts
  <2> QED
    BY <1>1, <2>1, FakeRaises
<1>6. CASE can
  <2> DEFINE after == CASE outcome[1] = "succeeded" -> Ongoing
                        [] outcome[1] = "outcome_unknown" -> End("failed", "unknown_outcome")
                        [] outcome[1] = "failed_known" -> FailureEnd(outcome[2], fakeClock + answer.latency)
             kinds == [succeeded |-> "operation_succeeded", outcome_unknown |-> "operation_unknown", failed_known |-> "operation_failed"]
             events == fakeEvents \o <<PolicyEvent("operation_started", "started", "none"),
                         PolicyEvent("attempt_charged", kind, code), PolicyEvent(OutcomeType(kind), kind, code)>>
             journal == Journal!SetStatus(started, index, kind, code)
  <2>1. /\ fakeLedger' = Budget!Reconcile(reserved, charge)
        /\ fakeJournal' = journal
        /\ fakeEvents' = fakeEvents \o <<PolicyEvent("operation_started", "started", "none"),
                PolicyEvent("attempt_charged", outcome[1], outcome[2]), PolicyEvent(kinds[outcome[1]], outcome[1], outcome[2])>>
        /\ fakeEnd' = after
        /\ fakePc' = IF after # Ongoing THEN "finish" ELSE IF outcome[1] = "succeeded" THEN "decide" ELSE "attempt"
        /\ fakeAt' = IF outcome[1] = "succeeded" THEN [fakeAt EXCEPT !.completed = @ + 1]
                     ELSE IF after = Ongoing THEN [fakeAt EXCEPT !.attempt = @ + 1] ELSE fakeAt
    BY <1>4, <1>6 DEF FakeAttempts
  <2>2. kinds[kind] = OutcomeType(kind)
    BY DEF OutcomeType
  <2>3. fakeEvents' = events
    BY <1>4, <2>1, <2>2
  <2>4. LedgerLike(fakeLedger) /\ Reservation.op = charge.op /\ Reservation.attempt = charge.attempt
    BY DEF FakeInv, FakeTypes, Reservation
  <2>5. /\ fakeLedger' = Budget!Reconcile(fakeLedger, charge)
        /\ Budget!CanReconcile(fakeLedger, fakeRun.spec, charge)
    BY <1>6, <2>1, <2>4, ChargesReserved
  <2>6. charge = [op |-> index, attempt |-> n, kind |-> Operation.kind, usage |-> Operation.answers[n].usage, outcome |-> kind]
    BY <1>4
  <2>7. charge.op = index /\ charge.attempt = n
    OBVIOUS
  <2>8. \/ kind = "succeeded" /\ fakeEnd' = Ongoing /\ fakePc' = "decide" /\ fakeAt' = [fakeAt EXCEPT !.completed = @ + 1]
        \/ /\ kind \in {"failed_known", "outcome_unknown"} /\ fakePc' = "finish" /\ fakeAt' = fakeAt
           /\ fakeEnd'.terminal = "failed"
        \/ /\ kind = "failed_known" /\ n = 1 /\ fakeEnd' = Ongoing /\ fakePc' = "attempt"
           /\ fakeAt' = [fakeAt EXCEPT !.attempt = @ + 1]
    <3>1. CASE kind = "succeeded"
      BY <1>4, <2>1, <3>1
    <3>2. CASE kind = "outcome_unknown"
      <4>1. after = End("failed", "unknown_outcome")
        BY <1>4, <3>2
      <4>3. Ongoing.terminal = "complete" /\ End("failed", "unknown_outcome").terminal = "failed"
        BY DEF End, Ongoing
      <4> HIDE DEF after, outcome
      <4>2. after.terminal = "failed" /\ after # Ongoing
        BY <4>1, <4>3
      <4> QED
        BY <1>4, <2>1, <3>2, <4>2
    <3>3. CASE kind = "failed_known"
      <4>1. after = FailureEnd(code, fakeClock + answer.latency)
        BY <1>4, <3>3
      <4>2. after # Ongoing => after.terminal = "failed"
        BY <1>2, <4>1, FailureEnds
      <4>3. after = Ongoing => n = 1
        <5>1. Ongoing.terminal = "complete"
          BY DEF Ongoing
        <5> QED
          BY <1>2, <4>1, <5>1, FailureEnds
      <4> HIDE DEF after, outcome
      <4> QED
        BY <1>4, <2>1, <3>3, <4>2, <4>3
    <3> QED
      BY <3>1, <3>2, <3>3
  <2> HIDE DEF charge, after, events, reserved, can, answer, outcome
  <2>9. /\ EventList(fakeEvents') /\ DOMAIN Replayed' = ReplayParts /\ Replayed'.ledger = fakeLedger'
        /\ fakeRun.kept => Replayed'.ok
        /\ Replayed'.journal = fakeJournal'
    <3>1. /\ EventList(events) /\ DOMAIN ReplayOf(events, fakeRun.spec) = ReplayParts
          /\ ReplayOf(events, fakeRun.spec).ledger = Budget!Reconcile(fakeLedger, charge)
          /\ fakeRun.kept => ReplayOf(events, fakeRun.spec).ok
          /\ ReplayOf(events, fakeRun.spec).journal = journal
      BY <1>1, <2>5, <2>6, FakeChargeReplays DEF events
    <3>2. Replayed' = ReplayOf(events, fakeRun.spec)
      BY <1>1, <2>3 DEF Replayed
    <3>3. fakeJournal' = journal /\ fakeLedger' = Budget!Reconcile(fakeLedger, charge)
      BY <2>1, <2>5
    <3> HIDE DEF journal
    <3> QED
      BY <2>3, <3>1, <3>2, <3>3
  <2>10. /\ fakeJournal' \in [1..3 -> FakeRecord] /\ fakeJournal'[index].status = kind /\ fakeJournal'[index].attempt = n
         /\ \A o \in 1..3 : o # index => fakeJournal'[o] = fakeJournal[o]
    <3>1. /\ Attempted \in [1..3 -> FakeRecord] /\ Attempted[index].attempt = n
          /\ \A o \in 1..3 : o # index => Attempted[o] = fakeJournal[o]
      BY <1>1, FakeAttemptIs
    <3>2. kind \in Journal!OperationStatus
      BY DEF Journal!OperationStatus
    <3>3. /\ started \in [1..3 -> FakeRecord] /\ started[index].attempt = n
          /\ \A o \in 1..3 : o # index => started[o] = fakeJournal[o]
      BY <1>2, <1>3, <3>1, <3>2, StatusChanges
    <3>4. fakeJournal' = journal /\ index \in 1..3
      BY <1>2, <2>1
    <3> HIDE DEF started, index
    <3>5. /\ journal \in [1..3 -> FakeRecord] /\ journal[index].status = kind /\ journal[index].attempt = started[index].attempt
          /\ \A o \in 1..3 : o # index => journal[o] = started[o]
      BY <3>2, <3>3, <3>4, StatusChanges
    <3> HIDE DEF journal
    <3> QED
      BY <3>3, <3>4, <3>5
  <2>11. /\ fakeAt' \in [index : 1..4, attempt : 1..2, completed : Nat] /\ fakeAt'.index = index
         /\ kind = "failed_known" /\ fakePc' = "attempt" => fakeAt'.attempt = 2
    <3>1. PICK i \in 1..4, m \in 1..2, k \in Nat : fakeAt = [index |-> i, attempt |-> m, completed |-> k]
      BY DEF FakeInv, FakeTypes
    <3>2. index = i /\ n = m
      BY <3>1
    <3>3. CASE fakeAt' = [fakeAt EXCEPT !.completed = @ + 1] /\ fakePc' = "decide"
      BY <3>1, <3>2, <3>3
    <3>4. CASE fakeAt' = fakeAt /\ fakePc' = "finish"
      BY <3>1, <3>2, <3>4
    <3>5. CASE fakeAt' = [fakeAt EXCEPT !.attempt = @ + 1] /\ n = 1
      BY <3>1, <3>2, <3>5
    <3> QED
      BY <2>8, <3>3, <3>4, <3>5
  <2>12. Operations' = Operations
    BY <1>1 DEF Operations
  <2>13. FakeTypes'
    <3>1. LedgerLike(fakeLedger')
      BY <1>1, <2>5, <2>7, FakeCharges
    <3>2. fakePc' \in FakeRunning
      BY <2>8 DEF FakeRunning
    <3>3. fakeAt'.index <= Len(Operations') + 1
      BY <2>11, <2>12 DEF FakeInv, FakeTypes
    <3> QED
      BY <1>1, <2>9, <2>10, <2>11, <3>1, <3>2, <3>3 DEF FakeInv, FakeTypes
  <2>14. FakeReplayed'
    BY <1>1, <2>9 DEF FakeReplayed
  <2>15. FakePlace'
    <3>1. fakeLedger'.replans = fakeLedger.replans
      BY <1>1, <2>5, <2>7, FakeCharges
    <3>2. Operation' = Operation
      BY <2>11, <2>12 DEF Operation
    <3>3. fakePc' = "attempt" =>
             /\ fakeAt'.attempt = 2 /\ fakeJournal'[index].attempt = 1 /\ fakeJournal'[index].status = "failed_known"
             /\ 2 \in 1..Len(Operation.answers)
      BY <1>2, <1>4, <2>8, <2>10, <2>11
    <3>4. fakeEnd'.terminal \in {"complete", "failed", "insufficient_evidence"} /\ (fakePc' = "finish" => fakeEnd'.terminal = "failed")
      BY <2>8 DEF Ongoing
    <3>5. /\ fakePc' \in {"decide", "finish", "attempt"}
          /\ fakePc' # "finish" => fakeEnd' = Ongoing
          /\ fakePc' = "decide" <=> kind = "succeeded"
      BY <2>8
    <3> QED
      BY <1>2, <2>10, <2>11, <2>12, <3>1, <3>2, <3>3, <3>4, <3>5 DEF FakeInv, FakePlace, FakeOver
  <2>16. FakeCalled'
    <3>1. /\ IsFiniteSet(fakeLedger'.charges) /\ Cardinality(fakeLedger'.charges) = Len(fakeCalls')
          /\ \A c \in fakeLedger'.charges : <<c.op, c.attempt>> \in FakeCallSet'
      BY <1>1, <2>5, <2>7, FakeCharges
    <3>2. fakePc' \in {"decide", "finish", "attempt"} /\ (fakePc' = "attempt" => fakeAt'.attempt = 2 /\ n = 1) /\ fakeAt'.index = index
      BY <2>8, <2>11
    <3>3. /\ fakeCalls' \in Seq(Nat \X Nat) /\ IsFiniteSet(FakeCallSet') /\ Cardinality(FakeCallSet') = Len(fakeCalls')
          /\ \A d \in FakeCallSet' : d[1] <= index /\ (d[1] = index => d[2] <= n)
      BY <1>1, CallAdds
    <3>4. \A d \in FakeCallSet' : d[2] \in Nat
      BY <3>3 DEF FakeCallSet
    <3>5. \A d \in FakeCallSet' :
            /\ d[1] <= fakeAt'.index
            /\ fakePc' \in {"idle", "operation", "interrupted"} => d[1] < fakeAt'.index
            /\ fakePc' = "attempt" /\ d[1] = fakeAt'.index => d[2] < fakeAt'.attempt
      BY <3>2, <3>3, <3>4
    <3> QED
      BY <3>1, <3>2, <3>3, <3>5 DEF FakeCalled
  <2>17. FakeStory'
    BY <1>1, <2>8 DEF FakeInv, FakeStory, FakeRunning
  <2> QED
    BY <2>13, <2>14, <2>15, <2>16, <2>17 DEF FakeInv
<1> HIDE DEF can
<1> QED
  BY <1>5, <1>6

\* The events of the first harness always replay into what it holds: FakeInv, from which the
\* property follows, holds of every reachable state for every budget a caller may give.
THEOREM FakeInvHolds == FakeSpec => []FakeInv
<1>1. FakeInv /\ [FakeNext]_fakeVars => FakeInv'
  <2> SUFFICES ASSUME FakeInv, [FakeNext]_fakeVars
               PROVE  FakeInv'
    OBVIOUS
  <2> QED
    BY FakeBeginsKeeps, FakeStutters, FakePlansKeeps, FakeRefusedKeeps, FakeAttemptsKeeps, FakeDecidesKeeps,
       FakeResumesKeeps, FakeFinishesKeeps DEF FakeNext
<1> QED
  BY <1>1, FakeStarts, PTL DEF FakeSpec

\* What FakeExecutionHarness hands out, interrupted and resumed or not, is what happened: events,
\* ledger, journal, lifecycle and calls agree, and complete means every operation succeeded.
THEOREM FakeRunsReplay == FakeSpec => []FakeRunReplays
BY FakeInvHolds, FakeInvShows, PTL
=============================================================================
