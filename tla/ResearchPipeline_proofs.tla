----------------------- MODULE ResearchPipeline_proofs ----------------------
(***************************************************************************)
(* What holds of the pipeline for every plan, every set of candidates and  *)
(* every limit on replans. First the scripts: a handler of the code is a   *)
(* straight line of appends, file writes and reductions between two calls. *)
(* At every moment the process is at a known place of a known script       *)
(* (Shape), and what is left to write is a suffix of it (Rest); from this  *)
(* follows, for each kind of write, where it may occur (Due), where the    *)
(* process is after it (Stepped), and what the reducer makes of it         *)
(* (Effects). Then what the stream has recorded at each place (Core,       *)
(* inductive): a run which is over, or was refused a reservation, is not   *)
(* written to again, no operation is called or settled twice and no replan *)
(* is decided twice, and a caller who is told of a failed stage or of a    *)
(* refusal finds it in the stream.                                         *)
(***************************************************************************)
EXTENDS ResearchPipeline, FiniteSetTheorems, SequenceTheorems, TLAPS

---------------------------------------------------------------------------
(* Lists and scripts *)

\* Lists, and what is left of one after some of its items are gone.
IsList(t) == \E S : t \in Seq(S)
Left == Len(proc.todo)

Rest(t, s) ==
    /\ Len(t) <= Len(s)
    /\ \A i \in 1..Len(t) : t[i] = s[Len(s) - Len(t) + i]

\* What is left of a script after one write is its tail, one shorter.
LEMMA RestTail ==
    ASSUME NEW t, IsList(t), t # <<>>, NEW s, IsList(s), Rest(t, s)
    PROVE  /\ IsList(Tail(t)) /\ Rest(Tail(t), s) /\ Len(Tail(t)) = Len(t) - 1
           /\ Len(t) \in 1..Len(s) /\ Head(t) = s[Len(s) - Len(t) + 1]
           /\ Len(t) = 2 => Tail(t)[1] = s[Len(s)]
<1>1. PICK S : t \in Seq(S)
  BY DEF IsList
<1>2. PICK R : s \in Seq(R)
  BY DEF IsList
<1>3. Len(t) \in Nat \ {0} /\ Len(s) \in Nat /\ Tail(t) \in Seq(S) /\ Len(Tail(t)) = Len(t) - 1
       /\ Head(t) = t[1] /\ \A i \in 1..Len(t) - 1 : Tail(t)[i] = t[i + 1]
  BY <1>1, <1>2
<1>4. /\ Rest(Tail(t), s) /\ Len(t) \in 1..Len(s) /\ t[1] = s[Len(s) - Len(t) + 1]
  BY <1>3 DEF Rest
<1>5. Len(t) = 2 => Tail(t)[1] = s[Len(s)]
  <2>1. SUFFICES ASSUME Len(t) = 2 PROVE t[2] = s[Len(s)]
    BY <1>3
  <2>2. t[2] = s[Len(s) - 2 + 2]
    BY <2>1 DEF Rest
  <2> QED
    BY <1>3, <2>2
<1> QED
  BY <1>3, <1>4, <1>5 DEF IsList

\* A script not yet begun is all of itself.
LEMMA RestAll == ASSUME NEW s, IsList(s) PROVE Rest(s, s)
BY DEF Rest, IsList

\* The empty list is what is left of any script that has been written.
LEMMA RestNone == ASSUME NEW s, IsList(s) PROVE Rest(<<>>, s)
BY DEF Rest, IsList

\* The short tuples the scripts are made of are lists.
LEMMA Lists ==
  /\ IsList(<<>>)
  /\ \A a : IsList(<<a>>)
  /\ \A a, b : IsList(<<a, b>>)
  /\ \A a, b, c : IsList(<<a, b, c>>)
  /\ \A a, b, c, d : IsList(<<a, b, c, d>>)
  /\ \A a, b, c, d, e : IsList(<<a, b, c, d, e>>)
  /\ \A a, b, c, d, e, f : IsList(<<a, b, c, d, e, f>>)
<1>1. IsList(<<>>)
  BY DEF IsList
<1>2. \A a : <<a>> \in Seq({a})
  OBVIOUS
<1>3. \A a, b : <<a, b>> \in Seq({a, b})
  OBVIOUS
<1>4. \A a, b, c : <<a, b, c>> \in Seq({a, b, c})
  OBVIOUS
<1>5. \A a, b, c, d : <<a, b, c, d>> \in Seq({a, b, c, d})
  OBVIOUS
<1>6. \A a, b, c, d, e : <<a, b, c, d, e>> \in Seq({a, b, c, d, e})
  OBVIOUS
<1>7. \A a, b, c, d, e, f : <<a, b, c, d, e, f>> \in Seq({a, b, c, d, e, f})
  OBVIOUS
<1> QED
  BY <1>1, <1>2, <1>3, <1>4, <1>5, <1>6, <1>7 DEF IsList

\* A list that has the items of s and then those of t is s \o t.
LEMMA Joined ==
    ASSUME NEW s, NEW t, NEW u, IsList(s), IsList(t), IsList(u),
           Len(u) = Len(s) + Len(t),
           \A i \in 1..Len(u) : u[i] = IF i <= Len(s) THEN s[i] ELSE t[i - Len(s)]
    PROVE  s \o t = u
<1>1. PICK A, B, C : s \in Seq(A) /\ t \in Seq(B) /\ u \in Seq(C)
  BY DEF IsList
<1> DEFINE S == A \cup B \cup C
           w == s \o t
<1>2. s \in Seq(S) /\ t \in Seq(S) /\ u \in Seq(S)
  BY <1>1, SeqMonotonic
<1> HIDE DEF S
<1>3. w \in Seq(S) /\ Len(w) = Len(u)
  BY <1>2
<1>4. \A i \in 1..Len(u) : w[i] = u[i]
  BY <1>2
<1> HIDE DEF w
<1>5. w = u
  BY <1>2, <1>3, <1>4, SeqEqual
<1> QED
  BY <1>5 DEF w

\* The concatenation of one item and one, item by item.
LEMMA Join11 == \A a, b : <<a>> \o <<b>> = <<a, b>>
<1> TAKE a, b
<1> DEFINE s == <<a>>
           t == <<b>>
           u == <<a, b>>
<1>1. IsList(s) /\ IsList(t) /\ IsList(u)
  BY Lists
<1>2. /\ Len(s) = 1 /\ Len(t) = 1 /\ Len(u) = 2
      /\ s[1] = a
      /\ t[1] = b
      /\ u[1] = a /\ u[2] = b
  OBVIOUS
<1> HIDE DEF s, t, u
<1>3. \A i \in 1..Len(u) : u[i] = IF i <= Len(s) THEN s[i] ELSE t[i - Len(s)]
  BY <1>2
<1>4. Len(u) = Len(s) + Len(t)
  BY <1>2
<1>5. s \o t = u
  BY <1>1, <1>3, <1>4, Joined
<1> QED
  BY <1>5 DEF s, t, u

\* The concatenation of one item and two, item by item.
LEMMA Join12 == \A a, b, c : <<a>> \o <<b, c>> = <<a, b, c>>
<1> TAKE a, b, c
<1> DEFINE s == <<a>>
           t == <<b, c>>
           u == <<a, b, c>>
<1>1. IsList(s) /\ IsList(t) /\ IsList(u)
  BY Lists
<1>2. /\ Len(s) = 1 /\ Len(t) = 2 /\ Len(u) = 3
      /\ s[1] = a
      /\ t[1] = b /\ t[2] = c
      /\ u[1] = a /\ u[2] = b /\ u[3] = c
  OBVIOUS
<1> HIDE DEF s, t, u
<1>3. \A i \in 1..Len(u) : u[i] = IF i <= Len(s) THEN s[i] ELSE t[i - Len(s)]
  BY <1>2
<1>4. Len(u) = Len(s) + Len(t)
  BY <1>2
<1>5. s \o t = u
  BY <1>1, <1>3, <1>4, Joined
<1> QED
  BY <1>5 DEF s, t, u

\* The concatenation of one item and three, item by item.
LEMMA Join13 == \A a, b, c, d : <<a>> \o <<b, c, d>> = <<a, b, c, d>>
<1> TAKE a, b, c, d
<1> DEFINE s == <<a>>
           t == <<b, c, d>>
           u == <<a, b, c, d>>
<1>1. IsList(s) /\ IsList(t) /\ IsList(u)
  BY Lists
<1>2. /\ Len(s) = 1 /\ Len(t) = 3 /\ Len(u) = 4
      /\ s[1] = a
      /\ t[1] = b /\ t[2] = c /\ t[3] = d
      /\ u[1] = a /\ u[2] = b /\ u[3] = c /\ u[4] = d
  OBVIOUS
<1> HIDE DEF s, t, u
<1>3. \A i \in 1..Len(u) : u[i] = IF i <= Len(s) THEN s[i] ELSE t[i - Len(s)]
  BY <1>2
<1>4. Len(u) = Len(s) + Len(t)
  BY <1>2
<1>5. s \o t = u
  BY <1>1, <1>3, <1>4, Joined
<1> QED
  BY <1>5 DEF s, t, u

\* The concatenation of one item and four, item by item.
LEMMA Join14 == \A a, b, c, d, e : <<a>> \o <<b, c, d, e>> = <<a, b, c, d, e>>
<1> TAKE a, b, c, d, e
<1> DEFINE s == <<a>>
           t == <<b, c, d, e>>
           u == <<a, b, c, d, e>>
<1>1. IsList(s) /\ IsList(t) /\ IsList(u)
  BY Lists
<1>2. /\ Len(s) = 1 /\ Len(t) = 4 /\ Len(u) = 5
      /\ s[1] = a
      /\ t[1] = b /\ t[2] = c /\ t[3] = d /\ t[4] = e
      /\ u[1] = a /\ u[2] = b /\ u[3] = c /\ u[4] = d /\ u[5] = e
  OBVIOUS
<1> HIDE DEF s, t, u
<1>3. \A i \in 1..Len(u) : u[i] = IF i <= Len(s) THEN s[i] ELSE t[i - Len(s)]
  BY <1>2
<1>4. Len(u) = Len(s) + Len(t)
  BY <1>2
<1>5. s \o t = u
  BY <1>1, <1>3, <1>4, Joined
<1> QED
  BY <1>5 DEF s, t, u

\* The concatenation of two items and three, item by item.
LEMMA Join23 == \A a, b, c, d, e : <<a, b>> \o <<c, d, e>> = <<a, b, c, d, e>>
<1> TAKE a, b, c, d, e
<1> DEFINE s == <<a, b>>
           t == <<c, d, e>>
           u == <<a, b, c, d, e>>
<1>1. IsList(s) /\ IsList(t) /\ IsList(u)
  BY Lists
<1>2. /\ Len(s) = 2 /\ Len(t) = 3 /\ Len(u) = 5
      /\ s[1] = a /\ s[2] = b
      /\ t[1] = c /\ t[2] = d /\ t[3] = e
      /\ u[1] = a /\ u[2] = b /\ u[3] = c /\ u[4] = d /\ u[5] = e
  OBVIOUS
<1> HIDE DEF s, t, u
<1>3. \A i \in 1..Len(u) : u[i] = IF i <= Len(s) THEN s[i] ELSE t[i - Len(s)]
  BY <1>2
<1>4. Len(u) = Len(s) + Len(t)
  BY <1>2
<1>5. s \o t = u
  BY <1>1, <1>3, <1>4, Joined
<1> QED
  BY <1>5 DEF s, t, u

\* The concatenation of three items and one, item by item.
LEMMA Join31 == \A a, b, c, d : <<a, b, c>> \o <<d>> = <<a, b, c, d>>
<1> TAKE a, b, c, d
<1> DEFINE s == <<a, b, c>>
           t == <<d>>
           u == <<a, b, c, d>>
<1>1. IsList(s) /\ IsList(t) /\ IsList(u)
  BY Lists
<1>2. /\ Len(s) = 3 /\ Len(t) = 1 /\ Len(u) = 4
      /\ s[1] = a /\ s[2] = b /\ s[3] = c
      /\ t[1] = d
      /\ u[1] = a /\ u[2] = b /\ u[3] = c /\ u[4] = d
  OBVIOUS
<1> HIDE DEF s, t, u
<1>3. \A i \in 1..Len(u) : u[i] = IF i <= Len(s) THEN s[i] ELSE t[i - Len(s)]
  BY <1>2
<1>4. Len(u) = Len(s) + Len(t)
  BY <1>2
<1>5. s \o t = u
  BY <1>1, <1>3, <1>4, Joined
<1> QED
  BY <1>5 DEF s, t, u

\* The concatenation of three items and three, item by item.
LEMMA Join33 == \A a, b, c, d, e, f : <<a, b, c>> \o <<d, e, f>> = <<a, b, c, d, e, f>>
<1> TAKE a, b, c, d, e, f
<1> DEFINE s == <<a, b, c>>
           t == <<d, e, f>>
           u == <<a, b, c, d, e, f>>
<1>1. IsList(s) /\ IsList(t) /\ IsList(u)
  BY Lists
<1>2. /\ Len(s) = 3 /\ Len(t) = 3 /\ Len(u) = 6
      /\ s[1] = a /\ s[2] = b /\ s[3] = c
      /\ t[1] = d /\ t[2] = e /\ t[3] = f
      /\ u[1] = a /\ u[2] = b /\ u[3] = c /\ u[4] = d /\ u[5] = e /\ u[6] = f
  OBVIOUS
<1> HIDE DEF s, t, u
<1>3. \A i \in 1..Len(u) : u[i] = IF i <= Len(s) THEN s[i] ELSE t[i - Len(s)]
  BY <1>2
<1>4. Len(u) = Len(s) + Len(t)
  BY <1>2
<1>5. s \o t = u
  BY <1>1, <1>3, <1>4, Joined
<1> QED
  BY <1>5 DEF s, t, u

\* The concatenation with the empty list.
LEMMA JoinNone ==
    ASSUME NEW s, IsList(s)
    PROVE  <<>> \o s = s /\ s \o <<>> = s
<1>1. PICK S : s \in Seq(S)
  BY DEF IsList
<1> QED
  BY <1>1, ConcatEmptySeq

---------------------------------------------------------------------------
(* Where a process may be *)

ToolOps == PipelineOps \ {Planner, Writer}
CandidateType == [passage : Passages, exact : BOOLEAN]
IsRunner == config.entry = "runner"
IsPlan(plan) == IsList(plan) /\ Len(plan) <= MaxSubtasks

\* Places of the executor, and those at which an operation is called.
Executing == {"subtask", "search", "read", "reading", "anchor", "graph"}
Calling == {"planning", "search", "reading", "writing"}
Asked ==
    IF proc.next = "planning" THEN Planner
    ELSE IF proc.next = "search" THEN Search(proc.subtask)
    ELSE IF proc.next = "reading" THEN Reading ELSE Writer

\* Scripts of the handlers.
Approve == Lifecycle("brief_pending", "brief_approved")
Begin == Lifecycle("brief_approved", "researching")
Asking(op, code) == <<Reserve1(op), Reduce(code), OperationDispatched(op, 1)>>
Opening(op, code) ==
    <<RunStarted, Approve, Begin, Reserve1(op), Reduce(code), OperationDispatched(op, 1)>>
PlanFile == File("plan", proc.plan)
PlanDone(usage) == OperationSucceeded(Planner, 1, usage, proc.plan)
Found(op) == OperationSucceeded(op, 1, NoUsage, "success")
GraphFile == File("graph", proc.graph)
Assessment == Gaps(proc.graph, config.minSources)
References == ArtifactsRecorded([graph |-> proc.graph, assessment |-> Assessment])

Failure(x, ops) ==
    \E op \in ops : \/ x = OperationUnknown(op, 1)
                    \/ \E usage, code : x = OperationFailed(op, 1, usage, code)
StageWrite(x) ==
    \/ Failure(x, ToolOps)
    \/ \E op \in ToolOps : x = Found(op)
    \/ \E plan : x = File("plan", plan)

ExecutorWrite(x) == Failure(x, ToolOps) \/ \E op \in ToolOps : x = Found(op)

Writes(s) == Rest(proc.todo, s)

\* The scripts. Each formula names a place of the code and what is left to write there.
\* Planner: the opening of the run, its call, and the filing of its outcome.
Idling == proc = Idle
Planning == IsRunner /\ proc.next = "planning" /\ Writes(Opening(Planner, "rejected"))
Planned ==
    /\ IsRunner /\ proc.next = "execute" /\ IsPlan(proc.plan)
    /\ \E usage : \/ Writes(<<PlanFile, PlanDone(usage), Elapsed, Checkpoint>>)
                  \/ Writes(<<PlanFile, File("routing", proc.plan), PlanDone(usage), Elapsed,
                              Checkpoint>>)
\* The executor's loop: between two subtasks, while a tool is used, after it, at its end.
BetweenSubtasks ==
    /\ proc.next = "subtask" /\ proc.subtask \in 1..Len(proc.plan) + 1
    /\ \/ proc.todo = <<>>
       \/ config.entry = "executor" /\ Writes(<<RunStarted, Approve, Begin>>)
UsingTool ==
    /\ proc.next \in {"search", "reading"} /\ proc.subtask \in 1..Len(proc.plan)
    /\ proc.next = "reading" => proc.reads # <<>>
    /\ \E code \in {"rejected", "budget_exhausted"} : Writes(Asking(Asked, code))
ToolUsed ==
    /\ proc.next \in {"read", "anchor"} /\ proc.subtask \in 1..Len(proc.plan)
    /\ proc.next = "read" => proc.reads # <<>>
    /\ \/ Writes(<<Found(Search(proc.subtask))>>)
       \/ proc.last # Nothing /\ Writes(<<Found(Read(proc.subtask, proc.last.passage))>>)
Executed ==
    /\ proc.next = "graph" /\ proc.subtask = Len(proc.plan) + 1
    /\ Writes(<<Checkpoint>>)
Execution ==
    /\ config.entry # "writer" /\ IsPlan(proc.plan)
    /\ BetweenSubtasks \/ UsingTool \/ ToolUsed \/ Executed
\* Writer: the assessment before it, its call, its report or the loss of its answer.
Assessing ==
    /\ config.entry # "executor" /\ proc.next = "writer"
    /\ \/ proc.todo = <<>>
       \/ IsRunner /\ Writes(<<GraphFile, File("assessment", Assessment), References>>)
Writing ==
    /\ config.entry # "executor" /\ proc.next = "writing"
    /\ Writes(Opening(Writer, "budget_exhausted"))
Written ==
    /\ config.entry # "executor" /\ proc.next = "return"
    /\ \E usage : Writes(WriterSettled(usage, proc.result))
    /\ Len(proc.todo) <= 4 => SucceededIn(Writer) # {}
WriterLost ==
    /\ config.entry # "executor" /\ proc.next = "return" /\ proc.result = "manual_review_required"
    /\ Writes(<<OperationUnknown(Writer, 1), Elapsed, Failed, Checkpoint>>)
\* Errors on their way to the caller.
ProviderFailed ==
    /\ config.entry # "executor"
    /\ \E x : Failure(x, {Planner, Writer}) /\ Writes(<<x, Elapsed, Failed, Checkpoint>>)
StageFailed ==
    /\ IsRunner
    /\ \E x : StageWrite(x) /\ Writes(<<x, Checkpoint, Elapsed, Failed, Checkpoint>>)
FailedBefore ==
    IsRunner /\ view.status = "failed" /\ Writes(<<Checkpoint, Checkpoint>>)
ExecutorFailed ==
    /\ config.entry = "executor"
    /\ \/ proc.todo = <<>>
       \/ \E x : ExecutorWrite(x) /\ Writes(<<x>>)
Unexpected ==
    /\ proc.result \in {"unbound_local", "writer_not_admissible"}
    /\ proc.todo = <<>>
Raising ==
    /\ proc.next = "raise"
    /\ ProviderFailed \/ StageFailed \/ FailedBefore \/ ExecutorFailed \/ Unexpected

\* A process is in one of the scripts.
Shape ==
    Idling \/ Planning \/ Planned \/ Execution \/ Assessing \/ Writing \/ Written \/ WriterLost
        \/ Raising

\* The local variables of a process.
ProcTypes ==
    /\ proc = [todo |-> proc.todo, next |-> proc.next, subtask |-> proc.subtask,
               plan |-> proc.plan, graph |-> proc.graph, reads |-> proc.reads,
               last |-> proc.last, result |-> proc.result]
    /\ IsList(proc.todo)
    /\ proc.subtask \in Nat
    /\ proc.reads \in Seq(CandidateType)
    /\ proc.last \in CandidateType \cup {Nothing}

\* A function from 1..n is a list of length n: how a plan becomes proc.plan.
LEMMA PlanIsList ==
    ASSUME NEW R, NEW n \in Nat, NEW p \in [1..n -> R]
    PROVE  p \in Seq(R) /\ Len(p) = n
OBVIOUS

\* The planner, the writer, the searches and the reads are operations of the ledger.
LEMMA OpsKnown ==
    /\ Planner \in Ops /\ Writer \in Ops /\ Planner # Writer
    /\ \A s \in 1..MaxSubtasks : /\ Search(s) \in Ops /\ Search(s) \in ToolOps
                                 /\ \A p \in Passages : Read(s, p) \in Ops /\ Read(s, p) \in ToolOps
<1>1. Planner # Writer
  BY DEF Planner, Writer
<1>2. \A s : Search(s) # Planner /\ Search(s) # Writer
  BY DEF Planner, Writer, Search
<1>3. \A s, p : Read(s, p) # Planner /\ Read(s, p) # Writer
  BY DEF Planner, Writer, Read
<1> QED
  BY <1>1, <1>2, <1>3, OpsAssumption DEF PipelineOps, ToolOps

Ended == view.status \in TERMINAL
\* Nothing is left to append or to file.
NoEvent == \A i \in 1..Len(proc.todo) : proc.todo[i].type = "reduce"
Conclusions == {"complete", "insufficient_evidence"}

\* What the status of the run says of the rest: an ended run has no event left to write.
Statuses ==
    /\ Ended => view.ok /\ NoEvent /\ config.entry # "executor"
    /\ Ended => \/ proc.next \in {"idle", "raise", "return"}
                \/ proc.next = "writer" /\ proc.todo = <<>>
    /\ Answered("graph") # {} => config.entry = "executor"
    /\ view.status \in Conclusions => SucceededIn(Writer) # {}
    /\ proc.next = "raise" /\ IsRunner /\ proc.result \in StageCodes =>
          /\ Left <= 1 => (view.ok => view.status = "failed")
          /\ Left = 0 => view.ok

\* The forms of the files, the ledger, the journal and the reduced view.
DiskNames == {"plan", "routing", "graph", "assessment"}
LedgerForm(l) ==
    l = [calls |-> l.calls, input |-> l.input, output |-> l.output, retries |-> l.retries,
         replans |-> l.replans, elapsed |-> l.elapsed, reservations |-> l.reservations,
         charges |-> l.charges]
RecordForm(r) ==
    /\ r = [attempt |-> r.attempt, status |-> r.status, error |-> r.error]
    /\ r.status \in OperationStatus \cup {"absent"}
    /\ r.status # "absent" => r.attempt = 1
JournalForm(j) == j = [op \in Ops |-> j[op]] /\ \A op \in Ops : RecordForm(j[op])
ViewForm(v) ==
    /\ v \in [ok : BOOLEAN, status : RunStatus, ledger : {v.ledger}, journal : {v.journal}]
    /\ LedgerForm(v.ledger)
    /\ JournalForm(v.journal)

\* The state that outlives a process.
Durable ==
    /\ config \in Configs
    /\ IsList(stream)
    /\ ViewForm(view)
    /\ stream = <<>> => view = InitialView
    /\ calls \in [Ops -> Nat]
    /\ disk = [name \in DiskNames |-> disk[name]]

\* The inductive invariant.
Core == Durable /\ ProcTypes /\ Shape /\ Statuses

---------------------------------------------------------------------------
(* What the events do to a view *)

\* From v to w, an operation moves from a status in S to status t, or the
\* event is rejected.
Moves(v, w, op, S, t) ==
    /\ ViewForm(w)
    /\ w.status = v.status
    /\ w.ledger.replans = v.ledger.replans
    /\ w.ok => v.ok /\ v.journal[op].status \in S /\ w.journal[op].status = t
    /\ ~w.ok => w.journal = v.journal /\ w.ledger = v.ledger
    /\ \A p \in Ops : p # op => w.journal[p] = v.journal[p]
    /\ \A r \in w.ledger.reservations :
          \/ r \in v.ledger.reservations
          \/ w.ok /\ t = "reserved" /\ r.op = op /\ r.attempt = 1
    /\ w.ok /\ t \in {"succeeded", "failed_known"} =>
          \A r \in w.ledger.reservations : ~(r.op = op /\ r.attempt = 1)

\* A rejected event leaves the rest of the view.
LEMMA RejectedView ==
    ASSUME NEW v, ViewForm(v)
    PROVE  /\ ViewForm(Rejected(v)) /\ ~Rejected(v).ok
           /\ Rejected(v).status = v.status /\ Rejected(v).ledger = v.ledger
           /\ Rejected(v).journal = v.journal
<1>1. /\ Rejected(v) \in [ok : BOOLEAN, status : RunStatus, ledger : {v.ledger}, journal : {v.journal}]
      /\ ~Rejected(v).ok
      /\ Rejected(v).status = v.status /\ Rejected(v).ledger = v.ledger
      /\ Rejected(v).journal = v.journal
  BY DEF ViewForm, Rejected
<1> QED
  BY <1>1 DEF ViewForm

\* Either way, the operation moves.
LEMMA EitherWay ==
    ASSUME NEW v, ViewForm(v), NEW w, NEW op \in Ops, NEW S, NEW t,
           \/ w = v /\ ~v.ok
           \/ w = Rejected(v)
           \/ \E l, r, j : /\ LedgerForm(l) /\ RecordForm(r) /\ v.ok /\ v.journal[op].status \in S
                           /\ r.status = t /\ j = [v.journal EXCEPT ![op] = r]
                           /\ w = [v EXCEPT !.ledger = l, !.journal = j]
                           /\ l.replans = v.ledger.replans
                           /\ \A c \in l.reservations :
                                \/ c \in v.ledger.reservations
                                \/ t = "reserved" /\ c.op = op /\ c.attempt = 1
                           /\ t \in {"succeeded", "failed_known"} =>
                                \A c \in l.reservations : ~(c.op = op /\ c.attempt = 1)
    PROVE  Moves(v, w, op, S, t)
<1>1. CASE w = v /\ ~v.ok
  BY <1>1 DEF Moves
<1>2. CASE w = Rejected(v)
  BY <1>2, RejectedView DEF Moves
<1>3. ASSUME NEW l, NEW r, NEW j,
             /\ LedgerForm(l) /\ RecordForm(r) /\ v.ok /\ v.journal[op].status \in S
             /\ r.status = t /\ j = [v.journal EXCEPT ![op] = r]
             /\ w = [v EXCEPT !.ledger = l, !.journal = j]
             /\ l.replans = v.ledger.replans
             /\ \A c \in l.reservations :
                  \/ c \in v.ledger.reservations
                  \/ t = "reserved" /\ c.op = op /\ c.attempt = 1
             /\ t \in {"succeeded", "failed_known"} =>
                  \A c \in l.reservations : ~(c.op = op /\ c.attempt = 1)
      PROVE  Moves(v, w, op, S, t)
  <2>0. /\ LedgerForm(l) /\ RecordForm(r) /\ j = [v.journal EXCEPT ![op] = r]
        /\ w = [v EXCEPT !.ledger = l, !.journal = j]
    BY <1>3
  <2>1. JournalForm(j) /\ j[op] = r /\ \A p \in Ops : p # op => j[p] = v.journal[p]
    BY <2>0 DEF ViewForm, JournalForm
  <2>2. /\ w \in [ok : BOOLEAN, status : RunStatus, ledger : {l}, journal : {j}]
        /\ w.ok = v.ok /\ w.status = v.status /\ w.ledger = l /\ w.journal = j
    BY <2>0 DEF ViewForm
  <2>3. ViewForm(w)
    BY <2>0, <2>1, <2>2 DEF ViewForm
  <2> QED
    BY <1>3, <2>1, <2>2, <2>3 DEF Moves
<1> QED
  BY <1>1, <1>2, <1>3

\* The updates of a ledger keep its form.
LEMMA LedgerForms ==
    ASSUME NEW l, LedgerForm(l)
    PROVE  /\ \A r : /\ LedgerForm(Reserve(l, r)) /\ Reserve(l, r).replans = l.replans
                     /\ Reserve(l, r).reservations = l.reservations \cup {r}
           /\ \A op, n : /\ LedgerForm(Release(l, op, n)) /\ Release(l, op, n).replans = l.replans
                         /\ Release(l, op, n).reservations
                              = {r \in l.reservations : ~(r.op = op /\ r.attempt = n)}
           /\ \A x : /\ LedgerForm(RecordElapsed(l, x))
                     /\ RecordElapsed(l, x).replans = l.replans
                     /\ RecordElapsed(l, x).reservations = l.reservations
           /\ LedgerForm(RecordReplan(l)) /\ RecordReplan(l).replans = l.replans + 1
           /\ RecordReplan(l).reservations = l.reservations
BY DEF LedgerForm, Reserve, Release, RecordElapsed, RecordReplan

\* A charge takes one reservation away and leaves the ledger a ledger.
LEMMA ReconciledForm ==
    ASSUME NEW l, LedgerForm(l), NEW c
    PROVE  /\ LedgerForm(Reconcile(l, c)) /\ Reconcile(l, c).replans = l.replans
           /\ \A r \in Reconcile(l, c).reservations :
                r \in l.reservations /\ ~(r.op = c.op /\ r.attempt = c.attempt)
<1> DEFINE m == Release(l, c.op, c.attempt)
<1>1. LedgerForm(m) /\ m.replans = l.replans
      /\ m.reservations = {r \in l.reservations : ~(r.op = c.op /\ r.attempt = c.attempt)}
  BY LedgerForms
<1>2. Reconcile(l, c) = IF c \in l.charges THEN m
        ELSE [m EXCEPT !.calls[c.kind] = @ + 1, !.input = @ + c.usage.input,
                       !.output = @ + c.usage.output, !.retries = @ + c.attempt - 1,
                       !.charges = @ \cup {c}]
  BY DEF Reconcile
<1> HIDE DEF m
<1> QED
  BY <1>1, <1>2 DEF LedgerForm

\* A reservation is made of an operation that is absent, planned or reserved.
LEMMA ReservedMoves ==
    ASSUME NEW v, ViewForm(v), NEW op \in Ops, NEW kind, NEW usage, NEW spec
    PROVE  Moves(v, ReduceEvent(v, OperationReserved(op, 1, kind, usage), spec), op,
                 {"absent", "planned", "reserved"}, "reserved")
<1> DEFINE e == OperationReserved(op, 1, kind, usage)
           w == ReduceEvent(v, e, spec)
           r == [op |-> op, attempt |-> 1, kind |-> kind, usage |-> usage]
           j == WithAttempt(v.journal, op, 1)
           l == Reserve(v.ledger, r)
           record == [j[op] EXCEPT !.status = "reserved"]
           x == ReserveOp(j, op, 1)
<1>0. JournalForm(v.journal) /\ LedgerForm(v.ledger) /\ RecordForm(v.journal[op])
  BY DEF ViewForm, JournalForm
<1>1. w = IF ~v.ok THEN v
          ELSE IF CanReserve(v.ledger, spec, r) /\ CanReserveOp(j, op, 1)
               THEN [v EXCEPT !.ledger = l, !.journal = x] ELSE Rejected(v)
  BY DEF ReduceEvent, ReduceReserved, OperationReserved
<1>2. \/ v.journal[op].status = "absent" /\ j = [v.journal EXCEPT ![op] =
                                            [attempt |-> 1, status |-> "planned", error |-> "none"]]
      \/ v.journal[op].status # "absent" /\ j = v.journal
  BY <1>0 DEF WithAttempt, Present, Add, RecordForm
<1>3. /\ RecordForm(j[op])
      /\ j[op].status \in {"absent", "planned", "reserved"} =>
            v.journal[op].status \in {"absent", "planned", "reserved"}
      /\ j[op].status # "absent"
      /\ [j EXCEPT ![op] = record] = [v.journal EXCEPT ![op] = record]
  <2> HIDE DEF record
  <2>1. CASE j = v.journal /\ v.journal[op].status # "absent"
    BY <1>0, <2>1
  <2> DEFINE fresh == [attempt |-> 1, status |-> "planned", error |-> "none"]
  <2>2. CASE j = [v.journal EXCEPT ![op] = fresh] /\ v.journal[op].status = "absent"
    <3>1. j[op] = fresh /\ [j EXCEPT ![op] = record] = [v.journal EXCEPT ![op] = record]
      BY <1>0, <2>2 DEF JournalForm
    <3>2. RecordForm(fresh)
      BY DEF RecordForm, OperationStatus
    <3> QED
      BY <2>2, <3>1, <3>2
  <2> QED
    BY <1>2, <2>1, <2>2
<1>6. /\ x = [v.journal EXCEPT ![op] = record]
      /\ CanReserveOp(j, op, 1) => v.journal[op].status \in {"absent", "planned", "reserved"}
  <2>1. x = [j EXCEPT ![op] = record]
    BY DEF ReserveOp
  <2>2. CanReserveOp(j, op, 1) => j[op].status \in {"planned", "reserved"}
    BY DEF CanReserveOp
  <2>3. CanReserveOp(j, op, 1) => v.journal[op].status \in {"absent", "planned", "reserved"}
    BY <1>3, <2>2
  <2> HIDE DEF x, j, record
  <2>4. x = [v.journal EXCEPT ![op] = record]
    BY <1>3, <2>1
  <2> QED
    BY <2>3, <2>4
<1>7. RecordForm(record) /\ record.status = "reserved"
  <2> DEFINE y == j[op]
  <2>1. RecordForm(y) /\ y.status # "absent"
    BY <1>3
  <2>2. record = [y EXCEPT !.status = "reserved"]
    OBVIOUS
  <2> HIDE DEF y, record
  <2> QED
    BY <2>1, <2>2 DEF RecordForm, OperationStatus
<1>4. /\ LedgerForm(l) /\ l.replans = v.ledger.replans
      /\ l.reservations = v.ledger.reservations \cup {r} /\ r.op = op /\ r.attempt = 1
  BY <1>0, LedgerForms
<1> HIDE DEF w, j, l, record, x, r
<1>5. \/ w = v /\ ~v.ok
      \/ w = Rejected(v)
      \/ \E l1, r1, j1 :
            /\ LedgerForm(l1) /\ RecordForm(r1) /\ v.ok
            /\ v.journal[op].status \in {"absent", "planned", "reserved"}
            /\ r1.status = "reserved" /\ j1 = [v.journal EXCEPT ![op] = r1]
            /\ w = [v EXCEPT !.ledger = l1, !.journal = j1]
            /\ l1.replans = v.ledger.replans
            /\ \A c \in l1.reservations : \/ c \in v.ledger.reservations
                                          \/ "reserved" = "reserved" /\ c.op = op /\ c.attempt = 1
            /\ "reserved" \in {"succeeded", "failed_known"} =>
                  \A c \in l1.reservations : ~(c.op = op /\ c.attempt = 1)
  BY <1>1, <1>4, <1>6, <1>7
<1> QED
  BY <1>5, EitherWay DEF w

\* A dispatch is of an operation that is planned or reserved.
LEMMA DispatchedMoves ==
    ASSUME NEW v, ViewForm(v), NEW op \in Ops, NEW spec
    PROVE  Moves(v, ReduceEvent(v, OperationDispatched(op, 1), spec), op,
                 {"planned", "reserved"}, "started")
<1> DEFINE e == OperationDispatched(op, 1)
           w == ReduceEvent(v, e, spec)
           y == v.journal[op]
           record == [y EXCEPT !.status = "started"]
           x == [v.journal EXCEPT ![op] = record]
<1>0. JournalForm(v.journal) /\ LedgerForm(v.ledger) /\ RecordForm(y)
  BY DEF ViewForm, JournalForm
<1>1. StartOp(v.journal, op, 1) = x
  BY DEF StartOp
<1>2. v.ledger = v.ledger /\ [v EXCEPT !.journal = x] = [v EXCEPT !.ledger = v.ledger, !.journal = x]
  <2> HIDE DEF x
  <2> QED
    BY DEF ViewForm
<1>3. /\ ~v.ok => w = v
      /\ v.ok /\ ~CanStart(v.journal, op, 1) => w = Rejected(v)
      /\ v.ok /\ CanStart(v.journal, op, 1) => w = [v EXCEPT !.journal = StartOp(v.journal, op, 1)]
  BY DEF ReduceEvent, ReduceDispatched, OperationDispatched
<1>4. y.status # "absent" => RecordForm(record) /\ record.status = "started"
  <2>1. record = [y EXCEPT !.status = "started"]
    OBVIOUS
  <2>2. y.status # "absent" => y.attempt = 1
    BY <1>0 DEF RecordForm
  <2> HIDE DEF y, record
  <2> QED
    BY <1>0, <2>1, <2>2 DEF RecordForm, OperationStatus
<1>5. CanStart(v.journal, op, 1) =>
        y.status \in {"planned", "reserved"} /\ y.status # "absent"
  BY DEF CanStart
<1>6. v.ok /\ CanStart(v.journal, op, 1) => w = [v EXCEPT !.ledger = v.ledger, !.journal = x]
  BY <1>1, <1>2, <1>3
<1> HIDE DEF w, record, x
<1>7. \/ w = v /\ ~v.ok
      \/ w = Rejected(v)
      \/ \E l1, r1, j1 :
            /\ LedgerForm(l1) /\ RecordForm(r1) /\ v.ok
            /\ v.journal[op].status \in {"planned", "reserved"}
            /\ r1.status = "started" /\ j1 = [v.journal EXCEPT ![op] = r1]
            /\ w = [v EXCEPT !.ledger = l1, !.journal = j1]
            /\ l1.replans = v.ledger.replans
            /\ \A c \in l1.reservations : \/ c \in v.ledger.reservations
                                          \/ "started" = "reserved" /\ c.op = op /\ c.attempt = 1
            /\ "started" \in {"succeeded", "failed_known"} =>
                  \A c \in l1.reservations : ~(c.op = op /\ c.attempt = 1)
  <2>1. x = [v.journal EXCEPT ![op] = record]
    BY DEF x
  <2> QED
    BY <1>0, <1>3, <1>4, <1>5, <1>6, <2>1
<1> QED
  BY <1>7, EitherWay DEF w

\* The record of an operation when its outcome is marked.
LEMMA MarkedRecord ==
    ASSUME NEW j, JournalForm(j), NEW op \in Ops, NEW t \in OperationStatus, NEW error
    PROVE  \E r : /\ RecordForm(r) \/ ~IsCurrent(j, op, 1)
                  /\ r.status = t /\ SetStatus(j, op, t, error) = [j EXCEPT ![op] = r]
<1> DEFINE y == j[op]
           r == [y EXCEPT !.status = t, !.error = error]
<1>0. RecordForm(y)
  BY DEF JournalForm
<1>1. SetStatus(j, op, t, error) = [j EXCEPT ![op] = r]
  BY DEF SetStatus
<1>2. IsCurrent(j, op, 1) => y.attempt = 1
  BY DEF IsCurrent
<1>3. r.status = t /\ (y.attempt = 1 => RecordForm(r))
  <2>1. r = [y EXCEPT !.status = t, !.error = error]
    OBVIOUS
  <2> HIDE DEF y, r
  <2> QED
    BY <1>0, <2>1 DEF RecordForm
<1> HIDE DEF r, y
<1> QED
  BY <1>1, <1>2, <1>3

\* An outcome nobody knows may follow any status of a known operation.
LEMMA UnknownMoves ==
    ASSUME NEW v, ViewForm(v), NEW op \in Ops, NEW spec
    PROVE  Moves(v, ReduceEvent(v, OperationUnknown(op, 1), spec), op,
                 OperationStatus, "outcome_unknown")
<1> DEFINE e == OperationUnknown(op, 1)
           w == ReduceEvent(v, e, spec)
           x == SetStatus(v.journal, op, "outcome_unknown", "unknown_outcome")
<1>0. JournalForm(v.journal) /\ LedgerForm(v.ledger) /\ RecordForm(v.journal[op])
  BY DEF ViewForm, JournalForm
<1>1. "outcome_unknown" \in OperationStatus
  BY DEF OperationStatus
<1>2. PICK r : /\ RecordForm(r) \/ ~IsCurrent(v.journal, op, 1)
               /\ r.status = "outcome_unknown" /\ x = [v.journal EXCEPT ![op] = r]
  BY <1>0, <1>1, MarkedRecord, SMTT(30)
<1>3. /\ ~v.ok => w = v
      /\ v.ok => \/ w = Rejected(v)
                 \/ CanMark(v.journal, op, 1) /\ w = [v EXCEPT !.journal = MarkUnknown(v.journal, op)]
  BY DEF ReduceEvent, ReduceUnknown, OperationUnknown
<1>4. MarkUnknown(v.journal, op) = x
  BY DEF MarkUnknown
<1>5. CanMark(v.journal, op, 1) => IsCurrent(v.journal, op, 1) /\ v.journal[op].status \in OperationStatus
  BY <1>0 DEF CanMark, IsCurrent, Present, RecordForm
<1>6. [v EXCEPT !.journal = x] = [v EXCEPT !.ledger = v.ledger, !.journal = x]
  <2> HIDE DEF x
  <2> QED
    BY DEF ViewForm
<1>7. v.ok => \/ w = Rejected(v)
              \/ CanMark(v.journal, op, 1) /\ w = [v EXCEPT !.ledger = v.ledger, !.journal = x]
  BY <1>3, <1>4, <1>6
<1> HIDE DEF w, x
<1>8. \/ w = v /\ ~v.ok
      \/ w = Rejected(v)
      \/ \E l1, r1, j1 :
            /\ LedgerForm(l1) /\ RecordForm(r1) /\ v.ok
            /\ v.journal[op].status \in OperationStatus
            /\ r1.status = "outcome_unknown" /\ j1 = [v.journal EXCEPT ![op] = r1]
            /\ w = [v EXCEPT !.ledger = l1, !.journal = j1]
            /\ l1.replans = v.ledger.replans
            /\ \A c \in l1.reservations :
                  \/ c \in v.ledger.reservations
                  \/ "outcome_unknown" = "reserved" /\ c.op = op /\ c.attempt = 1
            /\ "outcome_unknown" \in {"succeeded", "failed_known"} =>
                  \A c \in l1.reservations : ~(c.op = op /\ c.attempt = 1)
  BY <1>0, <1>2, <1>3, <1>5, <1>7
<1> QED
  BY <1>8, EitherWay DEF w

\* A settled outcome may follow any status of a known operation, and gives
\* back its reservation.
LEMMA SettledMoves ==
    ASSUME NEW v, ViewForm(v), NEW op \in Ops, NEW t \in {"succeeded", "failed_known"},
           NEW error, NEW c, c.op = op /\ c.attempt = 1, NEW w,
           \/ w = v /\ ~v.ok
           \/ w = Rejected(v)
           \/ /\ v.ok /\ CanMark(v.journal, op, 1)
              /\ w = [v EXCEPT !.ledger = Reconcile(v.ledger, c),
                               !.journal = SetStatus(v.journal, op, t, error)]
    PROVE  Moves(v, w, op, OperationStatus, t)
<1> DEFINE x == SetStatus(v.journal, op, t, error)
           l == Reconcile(v.ledger, c)
<1>0. JournalForm(v.journal) /\ LedgerForm(v.ledger) /\ RecordForm(v.journal[op])
  BY DEF ViewForm, JournalForm
<1>1. t \in OperationStatus
  BY DEF OperationStatus
<1>2. PICK r : /\ RecordForm(r) \/ ~IsCurrent(v.journal, op, 1)
               /\ r.status = t /\ x = [v.journal EXCEPT ![op] = r]
  BY <1>0, <1>1, MarkedRecord, SMTT(30)
<1>3. /\ LedgerForm(l) /\ l.replans = v.ledger.replans
      /\ \A y \in l.reservations : y \in v.ledger.reservations /\ ~(y.op = op /\ y.attempt = 1)
  <2> DEFINE m == v.ledger
             n == Reconcile(m, c)
  <2>1. LedgerForm(m)
    BY <1>0
  <2> HIDE DEF m
  <2>2. /\ LedgerForm(n) /\ n.replans = m.replans
        /\ \A y \in n.reservations :
              y \in m.reservations /\ ~(y.op = c.op /\ y.attempt = c.attempt)
    BY <2>1, ReconciledForm
  <2> HIDE DEF n
  <2>3. \A y \in n.reservations : y \in m.reservations /\ ~(y.op = op /\ y.attempt = 1)
    BY <2>2
  <2> QED
    BY <2>2, <2>3 DEF m, n
<1>4. CanMark(v.journal, op, 1) => IsCurrent(v.journal, op, 1) /\ v.journal[op].status \in OperationStatus
  BY <1>0 DEF CanMark, IsCurrent, Present, RecordForm
<1>5. \/ w = v /\ ~v.ok
      \/ w = Rejected(v)
      \/ v.ok /\ CanMark(v.journal, op, 1) /\ w = [v EXCEPT !.ledger = l, !.journal = x]
  OBVIOUS
<1>6. t # "reserved"
  OBVIOUS
<1> HIDE DEF x, l
<1>7. \/ w = v /\ ~v.ok
      \/ w = Rejected(v)
      \/ \E l1, r1, j1 :
            /\ LedgerForm(l1) /\ RecordForm(r1) /\ v.ok
            /\ v.journal[op].status \in OperationStatus
            /\ r1.status = t /\ j1 = [v.journal EXCEPT ![op] = r1]
            /\ w = [v EXCEPT !.ledger = l1, !.journal = j1]
            /\ l1.replans = v.ledger.replans
            /\ \A y \in l1.reservations :
                  \/ y \in v.ledger.reservations
                  \/ t = "reserved" /\ y.op = op /\ y.attempt = 1
            /\ t \in {"succeeded", "failed_known"} =>
                  \A y \in l1.reservations : ~(y.op = op /\ y.attempt = 1)
  BY <1>2, <1>3, <1>4, <1>5
<1> QED
  BY <1>7, EitherWay

\* operation_succeeded: the journal entry becomes succeeded, the reservation goes.
LEMMA SucceededMoves ==
    ASSUME NEW v, ViewForm(v), NEW op \in Ops, NEW usage, NEW answer, NEW spec
    PROVE  Moves(v, ReduceEvent(v, OperationSucceeded(op, 1, usage, answer), spec), op,
                 OperationStatus, "succeeded")
<1> DEFINE e == OperationSucceeded(op, 1, usage, answer)
           w == ReduceEvent(v, e, spec)
           c == ChargeFor(v.ledger, e, "succeeded")
<1>1. c.op = op /\ c.attempt = 1
  BY DEF ChargeFor, OperationSucceeded
<1>2. /\ e.type = "operation_succeeded" /\ e.op = op /\ e.attempt = 1
  BY DEF OperationSucceeded
<1>3. CanSettle(v, e, "succeeded", spec) => CanMark(v.journal, op, 1)
  BY <1>2 DEF CanSettle
<1> HIDE DEF e, c
<1>4. \/ w = v /\ ~v.ok
      \/ w = Rejected(v)
      \/ /\ v.ok /\ CanMark(v.journal, op, 1)
         /\ w = [v EXCEPT !.ledger = Reconcile(v.ledger, c),
                          !.journal = SetStatus(v.journal, op, "succeeded", "none")]
  BY <1>2, <1>3 DEF ReduceEvent, ReduceSucceeded, MarkSucceeded, c
<1>5. Moves(v, w, op, OperationStatus, "succeeded")
  <2> HIDE DEF w
  <2>1. "succeeded" \in {"succeeded", "failed_known"}
    OBVIOUS
  <2> QED
    BY <1>1, <1>4, <2>1, SettledMoves
<1> QED
  BY <1>5 DEF e

\* operation_failed: the journal entry becomes failed_known, the reservation goes.
LEMMA FailedMoves ==
    ASSUME NEW v, ViewForm(v), NEW op \in Ops, NEW usage, NEW code, NEW spec
    PROVE  Moves(v, ReduceEvent(v, OperationFailed(op, 1, usage, code), spec), op,
                 OperationStatus, "failed_known")
<1> DEFINE e == OperationFailed(op, 1, usage, code)
           w == ReduceEvent(v, e, spec)
           c == ChargeFor(v.ledger, e, "failed_known")
<1>1. c.op = op /\ c.attempt = 1
  BY DEF ChargeFor, OperationFailed
<1>2. /\ e.type = "operation_failed" /\ e.op = op /\ e.attempt = 1 /\ e.code = code
  BY DEF OperationFailed
<1>3. CanSettle(v, e, "failed_known", spec) => CanMark(v.journal, op, 1)
  BY <1>2 DEF CanSettle
<1> HIDE DEF e, c
<1>4. \/ w = v /\ ~v.ok
      \/ w = Rejected(v)
      \/ /\ v.ok /\ CanMark(v.journal, op, 1)
         /\ w = [v EXCEPT !.ledger = Reconcile(v.ledger, c),
                          !.journal = SetStatus(v.journal, op, "failed_known", code)]
  BY <1>2, <1>3 DEF ReduceEvent, ReduceFailed, MarkFailed, c
<1>5. Moves(v, w, op, OperationStatus, "failed_known")
  <2> HIDE DEF w
  <2>1. "failed_known" \in {"succeeded", "failed_known"}
    OBVIOUS
  <2> QED
    BY <1>1, <1>4, <2>1, SettledMoves
<1> QED
  BY <1>5 DEF e

\* The other events leave the journal and the reservations alone.
Stays(v, w) ==
    /\ ViewForm(w)
    /\ w.ok => v.ok
    /\ w.journal = v.journal
    /\ w.ledger.reservations = v.ledger.reservations

\* run_started changes nothing the reducer keeps.
LEMMA RunStartedStays ==
    ASSUME NEW v, ViewForm(v), NEW spec
    PROVE  ReduceEvent(v, RunStarted, spec) = v
BY DEF ReduceEvent, RunStarted

\* A lifecycle event changes the status, and only along the state machine.
LEMMA LifecycleStays ==
    ASSUME NEW v, ViewForm(v), NEW from, NEW to \in RunStatus, NEW spec, NEW w,
           w = ReduceEvent(v, Lifecycle(from, to), spec)
    PROVE  /\ Stays(v, w) /\ w.ledger = v.ledger
           /\ w.ok => v.status = from /\ CanTransition(from, to) /\ w.status = to
           /\ ~w.ok => w.status = v.status
<1>0. \/ w = v /\ ~v.ok
      \/ w = Rejected(v)
      \/ v.ok /\ v.status = from /\ CanTransition(from, to) /\ w = [v EXCEPT !.status = to]
  BY DEF ReduceEvent, ReduceLifecycle, Lifecycle
<1>1. CASE w = v /\ ~v.ok
  BY <1>1 DEF Stays
<1>2. CASE w = Rejected(v)
  BY <1>2, RejectedView DEF Stays
<1>3. CASE v.ok /\ v.status = from /\ CanTransition(from, to) /\ w = [v EXCEPT !.status = to]
  <2>1. /\ w \in [ok : BOOLEAN, status : RunStatus, ledger : {v.ledger}, journal : {v.journal}]
        /\ w.ok = v.ok /\ w.status = to /\ w.ledger = v.ledger /\ w.journal = v.journal
    BY <1>3 DEF ViewForm
  <2>2. ViewForm(w)
    BY <2>1 DEF ViewForm
  <2> QED
    BY <1>3, <2>1, <2>2 DEF Stays
<1> QED
  BY <1>0, <1>1, <1>2, <1>3

\* elapsed_recorded changes the ledger's clock and nothing else.
LEMMA ElapsedStays ==
    ASSUME NEW v, ViewForm(v), NEW e, e.type = "elapsed_recorded", NEW spec, NEW w,
           w = ReduceEvent(v, e, spec)
    PROVE  /\ Stays(v, w) /\ w.ok = v.ok /\ w.status = v.status
           /\ w.ledger.replans = v.ledger.replans
<1> DEFINE l == RecordElapsed(v.ledger, e.elapsed)
<1>0. \/ w = v /\ ~v.ok
      \/ v.ok /\ w = [v EXCEPT !.ledger = l]
  BY DEF ReduceEvent
<1>1. LedgerForm(l) /\ l.reservations = v.ledger.reservations /\ l.replans = v.ledger.replans
  BY LedgerForms DEF ViewForm
<1> HIDE DEF l
<1>2. CASE w = v /\ ~v.ok
  BY <1>2 DEF Stays
<1>3. CASE v.ok /\ w = [v EXCEPT !.ledger = l]
  <2>1. /\ w \in [ok : BOOLEAN, status : RunStatus, ledger : {l}, journal : {v.journal}]
        /\ w.ok = v.ok /\ w.status = v.status /\ w.ledger = l /\ w.journal = v.journal
    BY <1>3 DEF ViewForm
  <2>2. ViewForm(w)
    BY <1>1, <2>1 DEF ViewForm
  <2> QED
    BY <1>1, <1>3, <2>1, <2>2 DEF Stays
<1> QED
  BY <1>0, <1>2, <1>3

\* replan_decided adds one to the ledger's replans.
LEMMA ReplanStays ==
    ASSUME NEW v, ViewForm(v), v.ok, NEW w, w = [v EXCEPT !.ledger = RecordReplan(v.ledger)]
    PROVE  /\ Stays(v, w) /\ w.ok /\ w.status = v.status
           /\ w.ledger.replans = v.ledger.replans + 1
<1> DEFINE l == RecordReplan(v.ledger)
<1>0. w = [v EXCEPT !.ledger = l]
  OBVIOUS
<1>1. LedgerForm(l) /\ l.reservations = v.ledger.reservations
      /\ l.replans = v.ledger.replans + 1
  BY LedgerForms DEF ViewForm
<1> HIDE DEF l
<1>2. /\ w \in [ok : BOOLEAN, status : RunStatus, ledger : {l}, journal : {v.journal}]
      /\ w.ok = v.ok /\ w.status = v.status /\ w.ledger = l /\ w.journal = v.journal
  BY <1>0 DEF ViewForm
<1> QED
  BY <1>1, <1>2 DEF ViewForm, Stays

\* What is left of a script of one write: which one comes next.
LEMMA Pop1 ==
    ASSUME NEW t, IsList(t), t # <<>>, NEW a, Rest(t, <<a>>)
    PROVE  /\ Len(t) \in 1..1 /\ IsList(Tail(t)) /\ Len(Tail(t)) = Len(t) - 1
           /\ Rest(Tail(t), <<a>>)
           /\ Len(t) = 1 => Head(t) = a
<1> DEFINE s == <<a>>
<1>1. IsList(s)
  BY Lists
<1>2. Len(s) = 1 /\ s[1] = a
  OBVIOUS
<1>3. Rest(t, s)
  OBVIOUS
<1> HIDE DEF s
<1>4. /\ IsList(Tail(t)) /\ Rest(Tail(t), s) /\ Len(Tail(t)) = Len(t) - 1
      /\ Len(t) \in 1..Len(s) /\ Head(t) = s[Len(s) - Len(t) + 1]
      /\ Len(t) = 2 => Tail(t)[1] = s[Len(s)]
  BY <1>1, <1>3, RestTail
<1>5. Rest(Tail(t), <<a>>)
  BY <1>4 DEF s
<1>6. Len(t) \in 1..1
  BY <1>2, <1>4
<1> DEFINE k == Len(t)
           h == Head(t)
<1>7. k \in 1..1 /\ h = s[1 - k + 1]
  BY <1>2, <1>4, <1>6
<1> HIDE DEF k, h
<1>8. /\ k = 1 => h = a
  BY <1>2, <1>7
<1> QED
  BY <1>4, <1>5, <1>6, <1>8 DEF k, h

\* What is left of a script of two writes: which one comes next.
LEMMA Pop2 ==
    ASSUME NEW t, IsList(t), t # <<>>, NEW a, NEW b, Rest(t, <<a, b>>)
    PROVE  /\ Len(t) \in 1..2 /\ IsList(Tail(t)) /\ Len(Tail(t)) = Len(t) - 1
           /\ Rest(Tail(t), <<a, b>>)
           /\ Len(t) = 2 => Head(t) = a
           /\ Len(t) = 1 => Head(t) = b
           /\ Len(t) = 2 => Tail(t)[1] = b
<1> DEFINE s == <<a, b>>
<1>1. IsList(s)
  BY Lists
<1>2. Len(s) = 2 /\ s[1] = a /\ s[2] = b
  OBVIOUS
<1>3. Rest(t, s)
  OBVIOUS
<1> HIDE DEF s
<1>4. /\ IsList(Tail(t)) /\ Rest(Tail(t), s) /\ Len(Tail(t)) = Len(t) - 1
      /\ Len(t) \in 1..Len(s) /\ Head(t) = s[Len(s) - Len(t) + 1]
      /\ Len(t) = 2 => Tail(t)[1] = s[Len(s)]
  BY <1>1, <1>3, RestTail
<1>5. Rest(Tail(t), <<a, b>>)
  BY <1>4 DEF s
<1>6. Len(t) \in 1..2
  BY <1>2, <1>4
<1>9. Len(t) = 2 => Tail(t)[1] = b
  BY <1>2, <1>4
<1> DEFINE k == Len(t)
           h == Head(t)
<1>7. k \in 1..2 /\ h = s[2 - k + 1]
  BY <1>2, <1>4, <1>6
<1> HIDE DEF k, h
<1>8. /\ k = 2 => h = a
      /\ k = 1 => h = b
  BY <1>2, <1>7
<1> QED
  BY <1>4, <1>5, <1>6, <1>8, <1>9 DEF k, h

\* What is left of a script of three writes: which one comes next.
LEMMA Pop3 ==
    ASSUME NEW t, IsList(t), t # <<>>, NEW a, NEW b, NEW c, Rest(t, <<a, b, c>>)
    PROVE  /\ Len(t) \in 1..3 /\ IsList(Tail(t)) /\ Len(Tail(t)) = Len(t) - 1
           /\ Rest(Tail(t), <<a, b, c>>)
           /\ Len(t) = 3 => Head(t) = a
           /\ Len(t) = 2 => Head(t) = b
           /\ Len(t) = 1 => Head(t) = c
           /\ Len(t) = 2 => Tail(t)[1] = c
<1> DEFINE s == <<a, b, c>>
<1>1. IsList(s)
  BY Lists
<1>2. Len(s) = 3 /\ s[1] = a /\ s[2] = b /\ s[3] = c
  OBVIOUS
<1>3. Rest(t, s)
  OBVIOUS
<1> HIDE DEF s
<1>4. /\ IsList(Tail(t)) /\ Rest(Tail(t), s) /\ Len(Tail(t)) = Len(t) - 1
      /\ Len(t) \in 1..Len(s) /\ Head(t) = s[Len(s) - Len(t) + 1]
      /\ Len(t) = 2 => Tail(t)[1] = s[Len(s)]
  BY <1>1, <1>3, RestTail
<1>5. Rest(Tail(t), <<a, b, c>>)
  BY <1>4 DEF s
<1>6. Len(t) \in 1..3
  BY <1>2, <1>4
<1>9. Len(t) = 2 => Tail(t)[1] = c
  BY <1>2, <1>4
<1> DEFINE k == Len(t)
           h == Head(t)
<1>7. k \in 1..3 /\ h = s[3 - k + 1]
  BY <1>2, <1>4, <1>6
<1> HIDE DEF k, h
<1>8. /\ k = 3 => h = a
      /\ k = 2 => h = b
      /\ k = 1 => h = c
  BY <1>2, <1>7
<1> QED
  BY <1>4, <1>5, <1>6, <1>8, <1>9 DEF k, h

\* What is left of a script of four writes: which one comes next.
LEMMA Pop4 ==
    ASSUME NEW t, IsList(t), t # <<>>, NEW a, NEW b, NEW c, NEW d, Rest(t, <<a, b, c, d>>)
    PROVE  /\ Len(t) \in 1..4 /\ IsList(Tail(t)) /\ Len(Tail(t)) = Len(t) - 1
           /\ Rest(Tail(t), <<a, b, c, d>>)
           /\ Len(t) = 4 => Head(t) = a
           /\ Len(t) = 3 => Head(t) = b
           /\ Len(t) = 2 => Head(t) = c
           /\ Len(t) = 1 => Head(t) = d
           /\ Len(t) = 2 => Tail(t)[1] = d
<1> DEFINE s == <<a, b, c, d>>
<1>1. IsList(s)
  BY Lists
<1>2. Len(s) = 4 /\ s[1] = a /\ s[2] = b /\ s[3] = c /\ s[4] = d
  OBVIOUS
<1>3. Rest(t, s)
  OBVIOUS
<1> HIDE DEF s
<1>4. /\ IsList(Tail(t)) /\ Rest(Tail(t), s) /\ Len(Tail(t)) = Len(t) - 1
      /\ Len(t) \in 1..Len(s) /\ Head(t) = s[Len(s) - Len(t) + 1]
      /\ Len(t) = 2 => Tail(t)[1] = s[Len(s)]
  BY <1>1, <1>3, RestTail
<1>5. Rest(Tail(t), <<a, b, c, d>>)
  BY <1>4 DEF s
<1>6. Len(t) \in 1..4
  BY <1>2, <1>4
<1>9. Len(t) = 2 => Tail(t)[1] = d
  BY <1>2, <1>4
<1> DEFINE k == Len(t)
           h == Head(t)
<1>7. k \in 1..4 /\ h = s[4 - k + 1]
  BY <1>2, <1>4, <1>6
<1> HIDE DEF k, h
<1>8. /\ k = 4 => h = a
      /\ k = 3 => h = b
      /\ k = 2 => h = c
      /\ k = 1 => h = d
  BY <1>2, <1>7
<1> QED
  BY <1>4, <1>5, <1>6, <1>8, <1>9 DEF k, h

\* What is left of a script of five writes: which one comes next.
LEMMA Pop5 ==
    ASSUME NEW t, IsList(t), t # <<>>, NEW a, NEW b, NEW c, NEW d, NEW e, Rest(t, <<a, b, c, d, e>>)
    PROVE  /\ Len(t) \in 1..5 /\ IsList(Tail(t)) /\ Len(Tail(t)) = Len(t) - 1
           /\ Rest(Tail(t), <<a, b, c, d, e>>)
           /\ Len(t) = 5 => Head(t) = a
           /\ Len(t) = 4 => Head(t) = b
           /\ Len(t) = 3 => Head(t) = c
           /\ Len(t) = 2 => Head(t) = d
           /\ Len(t) = 1 => Head(t) = e
           /\ Len(t) = 2 => Tail(t)[1] = e
<1> DEFINE s == <<a, b, c, d, e>>
<1>1. IsList(s)
  BY Lists
<1>2. Len(s) = 5 /\ s[1] = a /\ s[2] = b /\ s[3] = c /\ s[4] = d /\ s[5] = e
  OBVIOUS
<1>3. Rest(t, s)
  OBVIOUS
<1> HIDE DEF s
<1>4. /\ IsList(Tail(t)) /\ Rest(Tail(t), s) /\ Len(Tail(t)) = Len(t) - 1
      /\ Len(t) \in 1..Len(s) /\ Head(t) = s[Len(s) - Len(t) + 1]
      /\ Len(t) = 2 => Tail(t)[1] = s[Len(s)]
  BY <1>1, <1>3, RestTail
<1>5. Rest(Tail(t), <<a, b, c, d, e>>)
  BY <1>4 DEF s
<1>6. Len(t) \in 1..5
  BY <1>2, <1>4
<1>9. Len(t) = 2 => Tail(t)[1] = e
  BY <1>2, <1>4
<1> DEFINE k == Len(t)
           h == Head(t)
<1>7. k \in 1..5 /\ h = s[5 - k + 1]
  BY <1>2, <1>4, <1>6
<1> HIDE DEF k, h
<1>8. /\ k = 5 => h = a
      /\ k = 4 => h = b
      /\ k = 3 => h = c
      /\ k = 2 => h = d
      /\ k = 1 => h = e
  BY <1>2, <1>7
<1> QED
  BY <1>4, <1>5, <1>6, <1>8, <1>9 DEF k, h

\* What is left of a script of six writes: which one comes next.
LEMMA Pop6 ==
    ASSUME NEW t, IsList(t), t # <<>>, NEW a, NEW b, NEW c, NEW d, NEW e, NEW f, Rest(t, <<a, b, c, d, e, f>>)
    PROVE  /\ Len(t) \in 1..6 /\ IsList(Tail(t)) /\ Len(Tail(t)) = Len(t) - 1
           /\ Rest(Tail(t), <<a, b, c, d, e, f>>)
           /\ Len(t) = 6 => Head(t) = a
           /\ Len(t) = 5 => Head(t) = b
           /\ Len(t) = 4 => Head(t) = c
           /\ Len(t) = 3 => Head(t) = d
           /\ Len(t) = 2 => Head(t) = e
           /\ Len(t) = 1 => Head(t) = f
           /\ Len(t) = 2 => Tail(t)[1] = f
<1> DEFINE s == <<a, b, c, d, e, f>>
<1>1. IsList(s)
  BY Lists
<1>2. Len(s) = 6 /\ s[1] = a /\ s[2] = b /\ s[3] = c /\ s[4] = d /\ s[5] = e /\ s[6] = f
  OBVIOUS
<1>3. Rest(t, s)
  OBVIOUS
<1> HIDE DEF s
<1>4. /\ IsList(Tail(t)) /\ Rest(Tail(t), s) /\ Len(Tail(t)) = Len(t) - 1
      /\ Len(t) \in 1..Len(s) /\ Head(t) = s[Len(s) - Len(t) + 1]
      /\ Len(t) = 2 => Tail(t)[1] = s[Len(s)]
  BY <1>1, <1>3, RestTail
<1>5. Rest(Tail(t), <<a, b, c, d, e, f>>)
  BY <1>4 DEF s
<1>6. Len(t) \in 1..6
  BY <1>2, <1>4
<1>9. Len(t) = 2 => Tail(t)[1] = f
  BY <1>2, <1>4
<1> DEFINE k == Len(t)
           h == Head(t)
<1>7. k \in 1..6 /\ h = s[6 - k + 1]
  BY <1>2, <1>4, <1>6
<1> HIDE DEF k, h
<1>8. /\ k = 6 => h = a
      /\ k = 5 => h = b
      /\ k = 4 => h = c
      /\ k = 3 => h = d
      /\ k = 2 => h = e
      /\ k = 1 => h = f
  BY <1>2, <1>7
<1> QED
  BY <1>4, <1>5, <1>6, <1>8, <1>9 DEF k, h

---------------------------------------------------------------------------
(* Doing a write *)

SameProc ==
    /\ config' = config
    /\ proc'.next = proc.next /\ proc'.subtask = proc.subtask /\ proc'.plan = proc.plan
    /\ proc'.graph = proc.graph /\ proc'.reads = proc.reads /\ proc'.last = proc.last
    /\ proc'.result = proc.result

\* A write is taken off the script, and the process stays where it is.
LEMMA DoneKeeps ==
    ASSUME ProcTypes, Done, proc.todo # <<>>, config' = config
    PROVE  SameProc /\ proc'.todo = Tail(proc.todo) /\ ProcTypes'
<1>1. SameProc /\ proc'.todo = Tail(proc.todo)
      /\ proc' = [todo |-> proc'.todo, next |-> proc'.next, subtask |-> proc'.subtask,
                  plan |-> proc'.plan, graph |-> proc'.graph, reads |-> proc'.reads,
                  last |-> proc'.last, result |-> proc'.result]
  BY DEF ProcTypes, Done, SameProc
<1>2. IsList(Tail(proc.todo))
  BY DEF ProcTypes, IsList
<1> QED
  BY <1>1, <1>2 DEF ProcTypes, SameProc

Popping ==
    /\ ProcTypes /\ SameProc /\ proc.todo # <<>>
    /\ proc'.todo = Tail(proc.todo)

\* The script of the planner's call.
LEMMA PlanningPops ==
    ASSUME Popping, Planning,
           Writes(<<RunStarted, Approve, Begin, Reserve1(Planner), Reduce("rejected"), OperationDispatched(Planner, 1)>>)
    PROVE  /\ Planning' /\ Len(proc'.todo) = Left - 1
           /\ \/ Left = 6 /\ Work = RunStarted
              \/ Left = 5 /\ Work = Approve
              \/ Left = 4 /\ Work = Begin
              \/ Left = 3 /\ Work = Reserve1(Planner)
              \/ Left = 2 /\ Work = Reduce("rejected")
              \/ Left = 1 /\ Work = OperationDispatched(Planner, 1)
           /\ Left = 2 => proc'.todo[1] = OperationDispatched(Planner, 1)
<1> DEFINE a == RunStarted
           b == Approve
           c == Begin
           d == Reserve1(Planner)
           e == Reduce("rejected")
           f == OperationDispatched(Planner, 1)
           t == proc.todo
<1>1. Rest(t, <<a, b, c, d, e, f>>) /\ IsList(t) /\ t # <<>>
  BY DEF Popping, Writes, ProcTypes
<1> HIDE DEF a, b, c, d, e, f, t
<1>2. /\ Len(t) \in 1..6 /\ IsList(Tail(t)) /\ Len(Tail(t)) = Len(t) - 1
      /\ Rest(Tail(t), <<a, b, c, d, e, f>>)
      /\ Len(t) = 6 => Head(t) = a
      /\ Len(t) = 5 => Head(t) = b
      /\ Len(t) = 4 => Head(t) = c
      /\ Len(t) = 3 => Head(t) = d
      /\ Len(t) = 2 => Head(t) = e
      /\ Len(t) = 1 => Head(t) = f
      /\ Len(t) = 2 => Tail(t)[1] = f
  BY <1>1, Pop6, SMTT(30)
<1>3. Planning'
  BY <1>2 DEF a, b, c, d, e, f, t, Popping, SameProc, Planning, IsRunner, Writes, Opening, Approve, Begin, Reserve1
<1>4. proc'.todo = Tail(t) /\ Left = Len(t) /\ Work = Head(t)
  BY DEF t, Popping, Left, Work
<1>5. /\ Len(proc'.todo) = Left - 1
      /\ \/ Left = 6 /\ Work = a
         \/ Left = 5 /\ Work = b
         \/ Left = 4 /\ Work = c
         \/ Left = 3 /\ Work = d
         \/ Left = 2 /\ Work = e
         \/ Left = 1 /\ Work = f
      /\ Left = 2 => proc'.todo[1] = f
  <2>1. /\ Len(Tail(t)) = Len(t) - 1
        /\ \/ Len(t) = 6 /\ Head(t) = a
           \/ Len(t) = 5 /\ Head(t) = b
           \/ Len(t) = 4 /\ Head(t) = c
           \/ Len(t) = 3 /\ Head(t) = d
           \/ Len(t) = 2 /\ Head(t) = e
           \/ Len(t) = 1 /\ Head(t) = f
        /\ Len(t) = 2 => Tail(t)[1] = f
    BY <1>2
  <2> QED
    BY <1>4, <2>1
<1> QED
  BY <1>3, <1>5 DEF a, b, c, d, e, f

\* The script of the writer's call.
LEMMA WritingPops ==
    ASSUME Popping, Writing,
           Writes(<<RunStarted, Approve, Begin, Reserve1(Writer), Reduce("budget_exhausted"), OperationDispatched(Writer, 1)>>)
    PROVE  /\ Writing' /\ Len(proc'.todo) = Left - 1
           /\ \/ Left = 6 /\ Work = RunStarted
              \/ Left = 5 /\ Work = Approve
              \/ Left = 4 /\ Work = Begin
              \/ Left = 3 /\ Work = Reserve1(Writer)
              \/ Left = 2 /\ Work = Reduce("budget_exhausted")
              \/ Left = 1 /\ Work = OperationDispatched(Writer, 1)
           /\ Left = 2 => proc'.todo[1] = OperationDispatched(Writer, 1)
<1> DEFINE a == RunStarted
           b == Approve
           c == Begin
           d == Reserve1(Writer)
           e == Reduce("budget_exhausted")
           f == OperationDispatched(Writer, 1)
           t == proc.todo
<1>1. Rest(t, <<a, b, c, d, e, f>>) /\ IsList(t) /\ t # <<>>
  BY DEF Popping, Writes, ProcTypes
<1> HIDE DEF a, b, c, d, e, f, t
<1>2. /\ Len(t) \in 1..6 /\ IsList(Tail(t)) /\ Len(Tail(t)) = Len(t) - 1
      /\ Rest(Tail(t), <<a, b, c, d, e, f>>)
      /\ Len(t) = 6 => Head(t) = a
      /\ Len(t) = 5 => Head(t) = b
      /\ Len(t) = 4 => Head(t) = c
      /\ Len(t) = 3 => Head(t) = d
      /\ Len(t) = 2 => Head(t) = e
      /\ Len(t) = 1 => Head(t) = f
      /\ Len(t) = 2 => Tail(t)[1] = f
  BY <1>1, Pop6, SMTT(30)
<1>3. Writing'
  BY <1>2 DEF a, b, c, d, e, f, t, Popping, SameProc, Writing, Writes, Opening, Approve, Begin, Reserve1
<1>4. proc'.todo = Tail(t) /\ Left = Len(t) /\ Work = Head(t)
  BY DEF t, Popping, Left, Work
<1>5. /\ Len(proc'.todo) = Left - 1
      /\ \/ Left = 6 /\ Work = a
         \/ Left = 5 /\ Work = b
         \/ Left = 4 /\ Work = c
         \/ Left = 3 /\ Work = d
         \/ Left = 2 /\ Work = e
         \/ Left = 1 /\ Work = f
      /\ Left = 2 => proc'.todo[1] = f
  <2>1. /\ Len(Tail(t)) = Len(t) - 1
        /\ \/ Len(t) = 6 /\ Head(t) = a
           \/ Len(t) = 5 /\ Head(t) = b
           \/ Len(t) = 4 /\ Head(t) = c
           \/ Len(t) = 3 /\ Head(t) = d
           \/ Len(t) = 2 /\ Head(t) = e
           \/ Len(t) = 1 /\ Head(t) = f
        /\ Len(t) = 2 => Tail(t)[1] = f
    BY <1>2
  <2> QED
    BY <1>4, <2>1
<1> QED
  BY <1>3, <1>5 DEF a, b, c, d, e, f

\* The planner's result without a routing file.
LEMMA PlannedPops ==
    ASSUME NEW usage, Popping, IsRunner, proc.next = "execute", IsPlan(proc.plan),
           Writes(<<PlanFile, PlanDone(usage), Elapsed, Checkpoint>>)
    PROVE  /\ Planned' /\ Len(proc'.todo) = Left - 1
           /\ \/ Left = 4 /\ Work = PlanFile
              \/ Left = 3 /\ Work = PlanDone(usage)
              \/ Left = 2 /\ Work = Elapsed
              \/ Left = 1 /\ Work = Checkpoint
           /\ Left = 2 => proc'.todo[1] = Checkpoint
<1> DEFINE a == PlanFile
           b == PlanDone(usage)
           c == Elapsed
           d == Checkpoint
           t == proc.todo
<1>1. Rest(t, <<a, b, c, d>>) /\ IsList(t) /\ t # <<>>
  BY DEF Popping, Writes, ProcTypes
<1> HIDE DEF a, b, c, d, t
<1>2. /\ Len(t) \in 1..4 /\ IsList(Tail(t)) /\ Len(Tail(t)) = Len(t) - 1
      /\ Rest(Tail(t), <<a, b, c, d>>)
      /\ Len(t) = 4 => Head(t) = a
      /\ Len(t) = 3 => Head(t) = b
      /\ Len(t) = 2 => Head(t) = c
      /\ Len(t) = 1 => Head(t) = d
      /\ Len(t) = 2 => Tail(t)[1] = d
  BY <1>1, Pop4
<1>3. Planned'
  BY <1>2 DEF a, b, c, d, t, Popping, SameProc, Planned, IsRunner, Writes, IsPlan, PlanFile, PlanDone
<1>4. proc'.todo = Tail(t) /\ Left = Len(t) /\ Work = Head(t)
  BY DEF t, Popping, Left, Work
<1>5. /\ Len(proc'.todo) = Left - 1
      /\ \/ Left = 4 /\ Work = a
         \/ Left = 3 /\ Work = b
         \/ Left = 2 /\ Work = c
         \/ Left = 1 /\ Work = d
      /\ Left = 2 => proc'.todo[1] = d
  <2>1. /\ Len(Tail(t)) = Len(t) - 1
        /\ \/ Len(t) = 4 /\ Head(t) = a
           \/ Len(t) = 3 /\ Head(t) = b
           \/ Len(t) = 2 /\ Head(t) = c
           \/ Len(t) = 1 /\ Head(t) = d
        /\ Len(t) = 2 => Tail(t)[1] = d
    BY <1>2
  <2> QED
    BY <1>4, <2>1
<1> QED
  BY <1>3, <1>5 DEF a, b, c, d

\* The planner's result with a routing file.
LEMMA RoutedPops ==
    ASSUME NEW usage, Popping, IsRunner, proc.next = "execute", IsPlan(proc.plan),
           Writes(<<PlanFile, File("routing", proc.plan), PlanDone(usage), Elapsed, Checkpoint>>)
    PROVE  /\ Planned' /\ Len(proc'.todo) = Left - 1
           /\ \/ Left = 5 /\ Work = PlanFile
              \/ Left = 4 /\ Work = File("routing", proc.plan)
              \/ Left = 3 /\ Work = PlanDone(usage)
              \/ Left = 2 /\ Work = Elapsed
              \/ Left = 1 /\ Work = Checkpoint
           /\ Left = 2 => proc'.todo[1] = Checkpoint
<1> DEFINE a == PlanFile
           b == File("routing", proc.plan)
           c == PlanDone(usage)
           d == Elapsed
           e == Checkpoint
           t == proc.todo
<1>1. Rest(t, <<a, b, c, d, e>>) /\ IsList(t) /\ t # <<>>
  BY DEF Popping, Writes, ProcTypes
<1> HIDE DEF a, b, c, d, e, t
<1>2. /\ Len(t) \in 1..5 /\ IsList(Tail(t)) /\ Len(Tail(t)) = Len(t) - 1
      /\ Rest(Tail(t), <<a, b, c, d, e>>)
      /\ Len(t) = 5 => Head(t) = a
      /\ Len(t) = 4 => Head(t) = b
      /\ Len(t) = 3 => Head(t) = c
      /\ Len(t) = 2 => Head(t) = d
      /\ Len(t) = 1 => Head(t) = e
      /\ Len(t) = 2 => Tail(t)[1] = e
  BY <1>1, Pop5, SMTT(30)
<1>3. Planned'
  BY <1>2 DEF a, b, c, d, e, t, Popping, SameProc, Planned, IsRunner, Writes, IsPlan, PlanFile, PlanDone
<1>4. proc'.todo = Tail(t) /\ Left = Len(t) /\ Work = Head(t)
  BY DEF t, Popping, Left, Work
<1>5. /\ Len(proc'.todo) = Left - 1
      /\ \/ Left = 5 /\ Work = a
         \/ Left = 4 /\ Work = b
         \/ Left = 3 /\ Work = c
         \/ Left = 2 /\ Work = d
         \/ Left = 1 /\ Work = e
      /\ Left = 2 => proc'.todo[1] = e
  <2>1. /\ Len(Tail(t)) = Len(t) - 1
        /\ \/ Len(t) = 5 /\ Head(t) = a
           \/ Len(t) = 4 /\ Head(t) = b
           \/ Len(t) = 3 /\ Head(t) = c
           \/ Len(t) = 2 /\ Head(t) = d
           \/ Len(t) = 1 /\ Head(t) = e
        /\ Len(t) = 2 => Tail(t)[1] = e
    BY <1>2
  <2> QED
    BY <1>4, <2>1
<1> QED
  BY <1>3, <1>5 DEF a, b, c, d, e

\* The executor starts the run of its own stream.
LEMMA StartPops ==
    ASSUME Popping, config.entry # "writer", IsPlan(proc.plan), config.entry = "executor", proc.next = "subtask", proc.subtask \in 1..Len(proc.plan) + 1,
           Writes(<<RunStarted, Approve, Begin>>)
    PROVE  /\ Execution' /\ Len(proc'.todo) = Left - 1
           /\ \/ Left = 3 /\ Work = RunStarted
              \/ Left = 2 /\ Work = Approve
              \/ Left = 1 /\ Work = Begin
           /\ Left = 2 => proc'.todo[1] = Begin
<1> DEFINE a == RunStarted
           b == Approve
           c == Begin
           t == proc.todo
<1>1. Rest(t, <<a, b, c>>) /\ IsList(t) /\ t # <<>>
  BY DEF Popping, Writes, ProcTypes
<1> HIDE DEF a, b, c, t
<1>2. /\ Len(t) \in 1..3 /\ IsList(Tail(t)) /\ Len(Tail(t)) = Len(t) - 1
      /\ Rest(Tail(t), <<a, b, c>>)
      /\ Len(t) = 3 => Head(t) = a
      /\ Len(t) = 2 => Head(t) = b
      /\ Len(t) = 1 => Head(t) = c
      /\ Len(t) = 2 => Tail(t)[1] = c
  BY <1>1, Pop3
<1>3. Execution'
  BY <1>2 DEF a, b, c, t, Popping, SameProc, Execution, BetweenSubtasks, Writes, IsPlan
<1>4. proc'.todo = Tail(t) /\ Left = Len(t) /\ Work = Head(t)
  BY DEF t, Popping, Left, Work
<1>5. /\ Len(proc'.todo) = Left - 1
      /\ \/ Left = 3 /\ Work = a
         \/ Left = 2 /\ Work = b
         \/ Left = 1 /\ Work = c
      /\ Left = 2 => proc'.todo[1] = c
  <2>1. /\ Len(Tail(t)) = Len(t) - 1
        /\ \/ Len(t) = 3 /\ Head(t) = a
           \/ Len(t) = 2 /\ Head(t) = b
           \/ Len(t) = 1 /\ Head(t) = c
        /\ Len(t) = 2 => Tail(t)[1] = c
    BY <1>2
  <2> QED
    BY <1>4, <2>1
<1> QED
  BY <1>3, <1>5 DEF a, b, c

\* The script of a tool's call.
LEMMA UsingPops ==
    ASSUME NEW code \in {"rejected", "budget_exhausted"}, Popping, config.entry # "writer", IsPlan(proc.plan), UsingTool,
           Writes(<<Reserve1(Asked), Reduce(code), OperationDispatched(Asked, 1)>>)
    PROVE  /\ Execution' /\ Len(proc'.todo) = Left - 1
           /\ \/ Left = 3 /\ Work = Reserve1(Asked)
              \/ Left = 2 /\ Work = Reduce(code)
              \/ Left = 1 /\ Work = OperationDispatched(Asked, 1)
           /\ Left = 2 => proc'.todo[1] = OperationDispatched(Asked, 1)
<1> DEFINE a == Reserve1(Asked)
           b == Reduce(code)
           c == OperationDispatched(Asked, 1)
           t == proc.todo
<1>1. Rest(t, <<a, b, c>>) /\ IsList(t) /\ t # <<>>
  BY DEF Popping, Writes, ProcTypes
<1> HIDE DEF a, b, c, t
<1>2. /\ Len(t) \in 1..3 /\ IsList(Tail(t)) /\ Len(Tail(t)) = Len(t) - 1
      /\ Rest(Tail(t), <<a, b, c>>)
      /\ Len(t) = 3 => Head(t) = a
      /\ Len(t) = 2 => Head(t) = b
      /\ Len(t) = 1 => Head(t) = c
      /\ Len(t) = 2 => Tail(t)[1] = c
  BY <1>1, Pop3
<1>3. Execution'
  BY <1>2 DEF a, b, c, t, Popping, SameProc, Execution, UsingTool, Writes, IsPlan, Asking, Asked, Reading, Reserve1
<1>4. proc'.todo = Tail(t) /\ Left = Len(t) /\ Work = Head(t)
  BY DEF t, Popping, Left, Work
<1>5. /\ Len(proc'.todo) = Left - 1
      /\ \/ Left = 3 /\ Work = a
         \/ Left = 2 /\ Work = b
         \/ Left = 1 /\ Work = c
      /\ Left = 2 => proc'.todo[1] = c
  <2>1. /\ Len(Tail(t)) = Len(t) - 1
        /\ \/ Len(t) = 3 /\ Head(t) = a
           \/ Len(t) = 2 /\ Head(t) = b
           \/ Len(t) = 1 /\ Head(t) = c
        /\ Len(t) = 2 => Tail(t)[1] = c
    BY <1>2
  <2> QED
    BY <1>4, <2>1
<1> QED
  BY <1>3, <1>5 DEF a, b, c

\* The result of a search.
LEMMA SearchedPops ==
    ASSUME Popping, config.entry # "writer", IsPlan(proc.plan), ToolUsed,
           Writes(<<Found(Search(proc.subtask))>>)
    PROVE  /\ Execution' /\ Len(proc'.todo) = Left - 1
           /\ Left = 1 /\ Work = Found(Search(proc.subtask))
<1> DEFINE a == Found(Search(proc.subtask))
           t == proc.todo
<1>1. Rest(t, <<a>>) /\ IsList(t) /\ t # <<>>
  BY DEF Popping, Writes, ProcTypes
<1> HIDE DEF a, t
<1>2. /\ Len(t) \in 1..1 /\ IsList(Tail(t)) /\ Len(Tail(t)) = Len(t) - 1
      /\ Rest(Tail(t), <<a>>)
      /\ Len(t) = 1 => Head(t) = a
  BY <1>1, Pop1
<1>3. Execution'
  BY <1>2 DEF a, t, Popping, SameProc, Execution, ToolUsed, Writes, IsPlan, Found
<1>4. proc'.todo = Tail(t) /\ Left = Len(t) /\ Work = Head(t)
  BY DEF t, Popping, Left, Work
<1>5. /\ Len(proc'.todo) = Left - 1
      /\ Left = 1 /\ Work = a
  BY <1>2, <1>4
<1> QED
  BY <1>3, <1>5 DEF a

\* The result of a read.
LEMMA ReadPops ==
    ASSUME Popping, config.entry # "writer", IsPlan(proc.plan), ToolUsed, proc.last # Nothing,
           Writes(<<Found(Read(proc.subtask, proc.last.passage))>>)
    PROVE  /\ Execution' /\ Len(proc'.todo) = Left - 1
           /\ Left = 1 /\ Work = Found(Read(proc.subtask, proc.last.passage))
<1> DEFINE a == Found(Read(proc.subtask, proc.last.passage))
           t == proc.todo
<1>1. Rest(t, <<a>>) /\ IsList(t) /\ t # <<>>
  BY DEF Popping, Writes, ProcTypes
<1> HIDE DEF a, t
<1>2. /\ Len(t) \in 1..1 /\ IsList(Tail(t)) /\ Len(Tail(t)) = Len(t) - 1
      /\ Rest(Tail(t), <<a>>)
      /\ Len(t) = 1 => Head(t) = a
  BY <1>1, Pop1
<1>3. Execution'
  BY <1>2 DEF a, t, Popping, SameProc, Execution, ToolUsed, Writes, IsPlan, Found
<1>4. proc'.todo = Tail(t) /\ Left = Len(t) /\ Work = Head(t)
  BY DEF t, Popping, Left, Work
<1>5. /\ Len(proc'.todo) = Left - 1
      /\ Left = 1 /\ Work = a
  BY <1>2, <1>4
<1> QED
  BY <1>3, <1>5 DEF a

\* The last checkpoint of an execution.
LEMMA ExecutedPops ==
    ASSUME Popping, config.entry # "writer", IsPlan(proc.plan), Executed,
           Writes(<<Checkpoint>>)
    PROVE  /\ Execution' /\ Len(proc'.todo) = Left - 1
           /\ Left = 1 /\ Work = Checkpoint
<1> DEFINE a == Checkpoint
           t == proc.todo
<1>1. Rest(t, <<a>>) /\ IsList(t) /\ t # <<>>
  BY DEF Popping, Writes, ProcTypes
<1> HIDE DEF a, t
<1>2. /\ Len(t) \in 1..1 /\ IsList(Tail(t)) /\ Len(Tail(t)) = Len(t) - 1
      /\ Rest(Tail(t), <<a>>)
      /\ Len(t) = 1 => Head(t) = a
  BY <1>1, Pop1
<1>3. Execution'
  BY <1>2 DEF a, t, Popping, SameProc, Execution, Executed, Writes, IsPlan
<1>4. proc'.todo = Tail(t) /\ Left = Len(t) /\ Work = Head(t)
  BY DEF t, Popping, Left, Work
<1>5. /\ Len(proc'.todo) = Left - 1
      /\ Left = 1 /\ Work = a
  BY <1>2, <1>4
<1> QED
  BY <1>3, <1>5 DEF a

\* The artifacts of the assessment, and the event that refers to them.
LEMMA AssessingPops ==
    ASSUME Popping, IsRunner, proc.next = "writer",
           Writes(<<GraphFile, File("assessment", Assessment), References>>)
    PROVE  /\ Assessing' /\ Len(proc'.todo) = Left - 1
           /\ \/ Left = 3 /\ Work = GraphFile
              \/ Left = 2 /\ Work = File("assessment", Assessment)
              \/ Left = 1 /\ Work = References
           /\ Left = 2 => proc'.todo[1] = References
<1> DEFINE a == GraphFile
           b == File("assessment", Assessment)
           c == References
           t == proc.todo
<1>1. Rest(t, <<a, b, c>>) /\ IsList(t) /\ t # <<>>
  BY DEF Popping, Writes, ProcTypes
<1> HIDE DEF a, b, c, t
<1>2. /\ Len(t) \in 1..3 /\ IsList(Tail(t)) /\ Len(Tail(t)) = Len(t) - 1
      /\ Rest(Tail(t), <<a, b, c>>)
      /\ Len(t) = 3 => Head(t) = a
      /\ Len(t) = 2 => Head(t) = b
      /\ Len(t) = 1 => Head(t) = c
      /\ Len(t) = 2 => Tail(t)[1] = c
  BY <1>1, Pop3
<1>3. Assessing'
  BY <1>2 DEF a, b, c, t, Popping, SameProc, Assessing, IsRunner, Writes, GraphFile, Assessment, References, Elapsed
<1>4. proc'.todo = Tail(t) /\ Left = Len(t) /\ Work = Head(t)
  BY DEF t, Popping, Left, Work
<1>5. /\ Len(proc'.todo) = Left - 1
      /\ \/ Left = 3 /\ Work = a
         \/ Left = 2 /\ Work = b
         \/ Left = 1 /\ Work = c
      /\ Left = 2 => proc'.todo[1] = c
  <2>1. /\ Len(Tail(t)) = Len(t) - 1
        /\ \/ Len(t) = 3 /\ Head(t) = a
           \/ Len(t) = 2 /\ Head(t) = b
           \/ Len(t) = 1 /\ Head(t) = c
        /\ Len(t) = 2 => Tail(t)[1] = c
    BY <1>2
  <2> QED
    BY <1>4, <2>1
<1> QED
  BY <1>3, <1>5 DEF a, b, c

\* The writer's result.
LEMMA WrittenPops ==
    ASSUME NEW usage, Popping, Written, Writes(WriterSettled(usage, proc.result))
    PROVE  /\ Writes(WriterSettled(usage, proc.result))' /\ Len(proc'.todo) = Left - 1
           /\ \/ Left = 5 /\ Work = OperationSucceeded(Writer, 1, usage, proc.result)
              \/ Left = 4 /\ Work = Elapsed
              \/ Left = 3 /\ Work = Lifecycle("researching", "validating")
              \/ Left = 2 /\ Work = Lifecycle("validating", Conclusion(proc.result))
              \/ Left = 1 /\ Work = Checkpoint
           /\ Left = 2 => proc'.todo[1] = Checkpoint
<1> DEFINE a == OperationSucceeded(Writer, 1, usage, proc.result)
           b == Elapsed
           c == Lifecycle("researching", "validating")
           d == Lifecycle("validating", Conclusion(proc.result))
           e == Checkpoint
           t == proc.todo
<1>1. Rest(t, <<a, b, c, d, e>>) /\ IsList(t) /\ t # <<>>
  BY DEF Popping, Writes, ProcTypes, WriterSettled
<1> HIDE DEF a, b, c, d, e, t
<1>2. /\ Len(t) \in 1..5 /\ IsList(Tail(t)) /\ Len(Tail(t)) = Len(t) - 1
      /\ Rest(Tail(t), <<a, b, c, d, e>>)
      /\ Len(t) = 5 => Head(t) = a
      /\ Len(t) = 4 => Head(t) = b
      /\ Len(t) = 3 => Head(t) = c
      /\ Len(t) = 2 => Head(t) = d
      /\ Len(t) = 1 => Head(t) = e
      /\ Len(t) = 2 => Tail(t)[1] = e
  BY <1>1, Pop5, SMTT(30)
<1>3. Writes(WriterSettled(usage, proc.result))'
  BY <1>2 DEF a, b, c, d, e, t, Popping, SameProc, Writes, WriterSettled, Conclusion
<1>4. proc'.todo = Tail(t) /\ Left = Len(t) /\ Work = Head(t)
  BY DEF t, Popping, Left, Work
<1>5. /\ Len(proc'.todo) = Left - 1
      /\ \/ Left = 5 /\ Work = a
         \/ Left = 4 /\ Work = b
         \/ Left = 3 /\ Work = c
         \/ Left = 2 /\ Work = d
         \/ Left = 1 /\ Work = e
      /\ Left = 2 => proc'.todo[1] = e
  <2>1. /\ Len(Tail(t)) = Len(t) - 1
        /\ \/ Len(t) = 5 /\ Head(t) = a
           \/ Len(t) = 4 /\ Head(t) = b
           \/ Len(t) = 3 /\ Head(t) = c
           \/ Len(t) = 2 /\ Head(t) = d
           \/ Len(t) = 1 /\ Head(t) = e
        /\ Len(t) = 2 => Tail(t)[1] = e
    BY <1>2
  <2> QED
    BY <1>4, <2>1
<1> QED
  BY <1>3, <1>5 DEF a, b, c, d, e

\* A lost outcome of the writer.
LEMMA LostPops ==
    ASSUME Popping, WriterLost,
           Writes(<<OperationUnknown(Writer, 1), Elapsed, Failed, Checkpoint>>)
    PROVE  /\ WriterLost' /\ Len(proc'.todo) = Left - 1
           /\ \/ Left = 4 /\ Work = OperationUnknown(Writer, 1)
              \/ Left = 3 /\ Work = Elapsed
              \/ Left = 2 /\ Work = Failed
              \/ Left = 1 /\ Work = Checkpoint
           /\ Left = 2 => proc'.todo[1] = Checkpoint
<1> DEFINE a == OperationUnknown(Writer, 1)
           b == Elapsed
           c == Failed
           d == Checkpoint
           t == proc.todo
<1>1. Rest(t, <<a, b, c, d>>) /\ IsList(t) /\ t # <<>>
  BY DEF Popping, Writes, ProcTypes
<1> HIDE DEF a, b, c, d, t
<1>2. /\ Len(t) \in 1..4 /\ IsList(Tail(t)) /\ Len(Tail(t)) = Len(t) - 1
      /\ Rest(Tail(t), <<a, b, c, d>>)
      /\ Len(t) = 4 => Head(t) = a
      /\ Len(t) = 3 => Head(t) = b
      /\ Len(t) = 2 => Head(t) = c
      /\ Len(t) = 1 => Head(t) = d
      /\ Len(t) = 2 => Tail(t)[1] = d
  BY <1>1, Pop4
<1>3. WriterLost'
  BY <1>2 DEF a, b, c, d, t, Popping, SameProc, WriterLost, Writes
<1>4. proc'.todo = Tail(t) /\ Left = Len(t) /\ Work = Head(t)
  BY DEF t, Popping, Left, Work
<1>5. /\ Len(proc'.todo) = Left - 1
      /\ \/ Left = 4 /\ Work = a
         \/ Left = 3 /\ Work = b
         \/ Left = 2 /\ Work = c
         \/ Left = 1 /\ Work = d
      /\ Left = 2 => proc'.todo[1] = d
  <2>1. /\ Len(Tail(t)) = Len(t) - 1
        /\ \/ Len(t) = 4 /\ Head(t) = a
           \/ Len(t) = 3 /\ Head(t) = b
           \/ Len(t) = 2 /\ Head(t) = c
           \/ Len(t) = 1 /\ Head(t) = d
        /\ Len(t) = 2 => Tail(t)[1] = d
    BY <1>2
  <2> QED
    BY <1>4, <2>1
<1> QED
  BY <1>3, <1>5 DEF a, b, c, d

\* A failed provider.
LEMMA ProviderFailedPops ==
    ASSUME NEW x, Popping, proc.next = "raise", config.entry # "executor", Failure(x, {Planner, Writer}),
           Writes(<<x, Elapsed, Failed, Checkpoint>>)
    PROVE  /\ Raising' /\ Len(proc'.todo) = Left - 1
           /\ \/ Left = 4 /\ Work = x
              \/ Left = 3 /\ Work = Elapsed
              \/ Left = 2 /\ Work = Failed
              \/ Left = 1 /\ Work = Checkpoint
           /\ Left = 2 => proc'.todo[1] = Checkpoint
<1> DEFINE a == x
           b == Elapsed
           c == Failed
           d == Checkpoint
           t == proc.todo
<1>1. Rest(t, <<a, b, c, d>>) /\ IsList(t) /\ t # <<>>
  BY DEF Popping, Writes, ProcTypes
<1> HIDE DEF a, b, c, d, t
<1>2. /\ Len(t) \in 1..4 /\ IsList(Tail(t)) /\ Len(Tail(t)) = Len(t) - 1
      /\ Rest(Tail(t), <<a, b, c, d>>)
      /\ Len(t) = 4 => Head(t) = a
      /\ Len(t) = 3 => Head(t) = b
      /\ Len(t) = 2 => Head(t) = c
      /\ Len(t) = 1 => Head(t) = d
      /\ Len(t) = 2 => Tail(t)[1] = d
  BY <1>1, Pop4
<1>3. Raising'
  BY <1>2 DEF a, b, c, d, t, Popping, SameProc, Raising, ProviderFailed, Writes, Failure
<1>4. proc'.todo = Tail(t) /\ Left = Len(t) /\ Work = Head(t)
  BY DEF t, Popping, Left, Work
<1>5. /\ Len(proc'.todo) = Left - 1
      /\ \/ Left = 4 /\ Work = a
         \/ Left = 3 /\ Work = b
         \/ Left = 2 /\ Work = c
         \/ Left = 1 /\ Work = d
      /\ Left = 2 => proc'.todo[1] = d
  <2>1. /\ Len(Tail(t)) = Len(t) - 1
        /\ \/ Len(t) = 4 /\ Head(t) = a
           \/ Len(t) = 3 /\ Head(t) = b
           \/ Len(t) = 2 /\ Head(t) = c
           \/ Len(t) = 1 /\ Head(t) = d
        /\ Len(t) = 2 => Tail(t)[1] = d
    BY <1>2
  <2> QED
    BY <1>4, <2>1
<1> QED
  BY <1>3, <1>5 DEF a, b, c, d

\* A failed stage.
LEMMA StageFailedPops ==
    ASSUME NEW x, Popping, proc.next = "raise", IsRunner, StageWrite(x),
           Writes(<<x, Checkpoint, Elapsed, Failed, Checkpoint>>)
    PROVE  /\ Raising' /\ Len(proc'.todo) = Left - 1
           /\ \/ Left = 5 /\ Work = x
              \/ Left = 4 /\ Work = Checkpoint
              \/ Left = 3 /\ Work = Elapsed
              \/ Left = 2 /\ Work = Failed
              \/ Left = 1 /\ Work = Checkpoint
           /\ Left = 2 => proc'.todo[1] = Checkpoint
<1> DEFINE a == x
           b == Checkpoint
           c == Elapsed
           d == Failed
           e == Checkpoint
           t == proc.todo
<1>1. Rest(t, <<a, b, c, d, e>>) /\ IsList(t) /\ t # <<>>
  BY DEF Popping, Writes, ProcTypes
<1> HIDE DEF a, b, c, d, e, t
<1>2. /\ Len(t) \in 1..5 /\ IsList(Tail(t)) /\ Len(Tail(t)) = Len(t) - 1
      /\ Rest(Tail(t), <<a, b, c, d, e>>)
      /\ Len(t) = 5 => Head(t) = a
      /\ Len(t) = 4 => Head(t) = b
      /\ Len(t) = 3 => Head(t) = c
      /\ Len(t) = 2 => Head(t) = d
      /\ Len(t) = 1 => Head(t) = e
      /\ Len(t) = 2 => Tail(t)[1] = e
  BY <1>1, Pop5, SMTT(30)
<1>3. Raising'
  BY <1>2 DEF a, b, c, d, e, t, Popping, SameProc, Raising, StageFailed, IsRunner, Writes, StageWrite, Failure
<1>4. proc'.todo = Tail(t) /\ Left = Len(t) /\ Work = Head(t)
  BY DEF t, Popping, Left, Work
<1>5. /\ Len(proc'.todo) = Left - 1
      /\ \/ Left = 5 /\ Work = a
         \/ Left = 4 /\ Work = b
         \/ Left = 3 /\ Work = c
         \/ Left = 2 /\ Work = d
         \/ Left = 1 /\ Work = e
      /\ Left = 2 => proc'.todo[1] = e
  <2>1. /\ Len(Tail(t)) = Len(t) - 1
        /\ \/ Len(t) = 5 /\ Head(t) = a
           \/ Len(t) = 4 /\ Head(t) = b
           \/ Len(t) = 3 /\ Head(t) = c
           \/ Len(t) = 2 /\ Head(t) = d
           \/ Len(t) = 1 /\ Head(t) = e
        /\ Len(t) = 2 => Tail(t)[1] = e
    BY <1>2
  <2> QED
    BY <1>4, <2>1
<1> QED
  BY <1>3, <1>5 DEF a, b, c, d, e

\* A stage that fails in a failed run.
LEMMA FailedBeforePops ==
    ASSUME Popping, proc.next = "raise", FailedBefore,
           Writes(<<Checkpoint, Checkpoint>>)
    PROVE  /\ Writes(<<Checkpoint, Checkpoint>>)' /\ Len(proc'.todo) = Left - 1
           /\ \/ Left = 2 /\ Work = Checkpoint
              \/ Left = 1 /\ Work = Checkpoint
           /\ Left = 2 => proc'.todo[1] = Checkpoint
<1> DEFINE a == Checkpoint
           b == Checkpoint
           t == proc.todo
<1>1. Rest(t, <<a, b>>) /\ IsList(t) /\ t # <<>>
  BY DEF Popping, Writes, ProcTypes
<1> HIDE DEF a, b, t
<1>2. /\ Len(t) \in 1..2 /\ IsList(Tail(t)) /\ Len(Tail(t)) = Len(t) - 1
      /\ Rest(Tail(t), <<a, b>>)
      /\ Len(t) = 2 => Head(t) = a
      /\ Len(t) = 1 => Head(t) = b
      /\ Len(t) = 2 => Tail(t)[1] = b
  BY <1>1, Pop2
<1>3. Writes(<<Checkpoint, Checkpoint>>)'
  BY <1>2 DEF a, b, t, Popping, SameProc, Writes
<1>4. proc'.todo = Tail(t) /\ Left = Len(t) /\ Work = Head(t)
  BY DEF t, Popping, Left, Work
<1>5. /\ Len(proc'.todo) = Left - 1
      /\ \/ Left = 2 /\ Work = a
         \/ Left = 1 /\ Work = b
      /\ Left = 2 => proc'.todo[1] = b
  <2>1. /\ Len(Tail(t)) = Len(t) - 1
        /\ \/ Len(t) = 2 /\ Head(t) = a
           \/ Len(t) = 1 /\ Head(t) = b
        /\ Len(t) = 2 => Tail(t)[1] = b
    BY <1>2
  <2> QED
    BY <1>4, <2>1
<1> QED
  BY <1>3, <1>5 DEF a, b

\* A failed execution of the offline callers.
LEMMA ExecutorFailedPops ==
    ASSUME NEW x, Popping, proc.next = "raise", config.entry = "executor", ExecutorWrite(x),
           Writes(<<x>>)
    PROVE  /\ Raising' /\ Len(proc'.todo) = Left - 1
           /\ Left = 1 /\ Work = x
<1> DEFINE a == x
           t == proc.todo
<1>1. Rest(t, <<a>>) /\ IsList(t) /\ t # <<>>
  BY DEF Popping, Writes, ProcTypes
<1> HIDE DEF a, t
<1>2. /\ Len(t) \in 1..1 /\ IsList(Tail(t)) /\ Len(Tail(t)) = Len(t) - 1
      /\ Rest(Tail(t), <<a>>)
      /\ Len(t) = 1 => Head(t) = a
  BY <1>1, Pop1
<1>3. Raising'
  BY <1>2 DEF a, t, Popping, SameProc, Raising, ExecutorFailed, Writes, ExecutorWrite, Failure
<1>4. proc'.todo = Tail(t) /\ Left = Len(t) /\ Work = Head(t)
  BY DEF t, Popping, Left, Work
<1>5. /\ Len(proc'.todo) = Left - 1
      /\ Left = 1 /\ Work = a
  BY <1>2, <1>4
<1> QED
  BY <1>3, <1>5 DEF a

---------------------------------------------------------------------------
(* What is written next *)

Outcome(x, op) ==
    \/ x = OperationUnknown(op, 1)
    \/ \E usage, code : x = OperationFailed(op, 1, usage, code)
    \/ \E usage, answer : x = OperationSucceeded(op, 1, usage, answer)

StartsRun ==
    /\ Work \in {RunStarted, Approve, Begin}
    /\ \/ proc.next \in Calling /\ Left >= 4
       \/ proc.next = "subtask" /\ config.entry = "executor"
Reserves == proc.next \in Calling /\ Left = 3 /\ Work = Reserve1(Asked)
Checks ==
    /\ proc.next \in Calling /\ Left = 2
    /\ \E code \in {"rejected", "budget_exhausted"} : Work = Reduce(code)
Dispatches == proc.next \in Calling /\ Left = 1 /\ Work = OperationDispatched(Asked, 1)
Settles ==
    /\ proc.next \notin Calling /\ \E op \in PipelineOps : Outcome(Work, op)
    /\ proc.next = "raise" /\ IsRunner => Left >= 4
Files ==
    /\ proc.next \notin Calling /\ Work.type = "file" /\ Work.name \in DiskNames
    /\ proc.next = "raise" => Left = 5
Elapses ==
    /\ proc.next \notin Calling /\ Work.type = "elapsed_recorded"
    /\ proc.next = "raise" => Left = 3
Checkpoints ==
    /\ proc.next \notin Calling /\ Work = Checkpoint
    /\ proc.next = "raise" /\ Left = 2 => view.status = "failed"
Fails ==
    /\ proc.next \in {"raise", "return"} /\ Left = 2 /\ Work = Failed
    /\ config.entry # "executor"
Validates ==
    /\ proc.next = "return" /\ Work = Lifecycle("researching", "validating")
    /\ config.entry # "executor"
Concludes ==
    /\ proc.next = "return" /\ Left = 2 /\ SucceededIn(Writer) # {}
    /\ \E c \in Conclusions : Work = Lifecycle("validating", c)
    /\ config.entry # "executor"

\* What may be written next, wherever the process stands.
Due ==
    \/ StartsRun \/ Reserves \/ Checks \/ Dispatches \/ Settles \/ Files \/ Elapses \/ Checkpoints
    \/ Fails \/ Validates \/ Concludes

\* A step of the script: the files and the reductions leave the view alone,
\* an event becomes the last of the stream.
Doing ==
    /\ Popping
    /\ \/ Work.type \in {"file", "reduce"} /\ view' = view /\ stream' = stream
       \/ Work.type \notin {"file", "reduce"} /\ stream' = Append(stream, Work)
    /\ IsList(stream)

\* Where a write leaves the process.
Stepped ==
    /\ Due /\ Shape' /\ Len(proc'.todo) = Left - 1
    /\ Fails \/ Concludes => proc'.todo[1] = Checkpoint

\* An append adds its event to the stream and takes none away.
LEMMA EventsGrow ==
    ASSUME IsList(stream), NEW e, stream' = Append(stream, e)
    PROVE  Events' = Events \cup {e} /\ IsList(stream') /\ stream' # <<>>
<1>1. PICK S : stream \in Seq(S)
  BY DEF IsList
<1>2. /\ DOMAIN stream = 1..Len(stream) /\ Len(stream) \in Nat
      /\ stream' \in Seq(S \cup {e})
      /\ Len(stream') = Len(stream) + 1 /\ DOMAIN stream' = 1..Len(stream) + 1
      /\ \A i \in 1..Len(stream) : stream'[i] = stream[i]
      /\ stream'[Len(stream) + 1] = e
  <2>1. stream \in Seq(S \cup {e})
    BY <1>1
  <2> QED
    BY <2>1
<1>3. \A x \in Events' : x \in Events \cup {e}
  BY <1>2 DEF Events
<1>4. \A x \in Events : x \in Events'
  <2>1. \A i \in DOMAIN stream : i \in DOMAIN stream' /\ stream[i] = stream'[i]
    BY <1>2
  <2> QED
    BY <2>1 DEF Events
<1>5. e \in Events'
  BY <1>2 DEF Events
<1>6. stream' # <<>>
  BY <1>2
<1> QED
  BY <1>2, <1>3, <1>4, <1>5, <1>6 DEF IsList

\* While the planner is called, a write leaves the process in a known place.
LEMMA PlanningStep == ASSUME Doing, Planning PROVE Stepped
<1>1. Writes(<<RunStarted, Approve, Begin, Reserve1(Planner), Reduce("rejected"),
               OperationDispatched(Planner, 1)>>)
  BY DEF Planning, Opening
<1>2. /\ Planning' /\ Len(proc'.todo) = Left - 1
      /\ \/ Left = 6 /\ Work = RunStarted
         \/ Left = 5 /\ Work = Approve
         \/ Left = 4 /\ Work = Begin
         \/ Left = 3 /\ Work = Reserve1(Planner)
         \/ Left = 2 /\ Work = Reduce("rejected")
         \/ Left = 1 /\ Work = OperationDispatched(Planner, 1)
  BY <1>1, PlanningPops DEF Doing
<1>3. proc.next = "planning" /\ Asked = Planner
  BY DEF Planning, Asked
<1>4. Due /\ ~Fails /\ ~Concludes
  BY <1>2, <1>3 DEF Due, StartsRun, Reserves, Checks, Dispatches, Fails, Concludes, Calling
<1> QED
  BY <1>2, <1>4 DEF Stepped, Shape

\* While the writer is called, a write leaves the process in a known place.
LEMMA WritingStep == ASSUME Doing, Writing PROVE Stepped
<1>1. Writes(<<RunStarted, Approve, Begin, Reserve1(Writer), Reduce("budget_exhausted"),
               OperationDispatched(Writer, 1)>>)
  BY DEF Writing, Opening
<1>2. /\ Writing' /\ Len(proc'.todo) = Left - 1
      /\ \/ Left = 6 /\ Work = RunStarted
         \/ Left = 5 /\ Work = Approve
         \/ Left = 4 /\ Work = Begin
         \/ Left = 3 /\ Work = Reserve1(Writer)
         \/ Left = 2 /\ Work = Reduce("budget_exhausted")
         \/ Left = 1 /\ Work = OperationDispatched(Writer, 1)
  BY <1>1, WritingPops DEF Doing
<1>3. proc.next = "writing" /\ Asked = Writer
  BY DEF Writing, Asked
<1>4. Due /\ ~Fails /\ ~Concludes
  BY <1>2, <1>3 DEF Due, StartsRun, Reserves, Checks, Dispatches, Fails, Concludes, Calling
<1> QED
  BY <1>2, <1>4 DEF Stepped, Shape

\* While the planner's outcome is filed, a write leaves the process in a known place.
LEMMA PlannedStep == ASSUME Doing, Planned PROVE Stepped
<1>0. proc.next = "execute" /\ IsRunner /\ IsPlan(proc.plan) /\ Planner \in PipelineOps
  BY DEF Planned, PipelineOps
<1>1. ASSUME NEW usage, Writes(<<PlanFile, PlanDone(usage), Elapsed, Checkpoint>>)
      PROVE  Stepped
  <2>1. /\ Planned' /\ Len(proc'.todo) = Left - 1
        /\ \/ Left = 4 /\ Work = PlanFile
           \/ Left = 3 /\ Work = PlanDone(usage)
           \/ Left = 2 /\ Work = Elapsed
           \/ Left = 1 /\ Work = Checkpoint
    BY <1>0, <1>1, PlannedPops DEF Doing
  <2>2. Due /\ ~Fails /\ ~Concludes
    <3>1. CASE Work = PlanFile
      BY <1>0, <3>1 DEF Due, Files, PlanFile, File, DiskNames, Calling, Fails, Concludes
    <3>2. CASE Work = PlanDone(usage)
      BY <1>0, <3>2 DEF Due, Settles, PlanDone, Outcome, Calling, Fails, Concludes
    <3>3. CASE Work = Elapsed
      BY <1>0, <3>3 DEF Due, Elapses, Elapsed, ElapsedRecorded, Calling, Fails, Concludes
    <3>4. CASE Work = Checkpoint
      BY <1>0, <3>4 DEF Due, Checkpoints, Calling, Fails, Concludes
    <3> QED
      BY <2>1, <3>1, <3>2, <3>3, <3>4
  <2> QED
    BY <2>1, <2>2 DEF Stepped, Shape
<1>2. ASSUME NEW usage, Writes(<<PlanFile, File("routing", proc.plan), PlanDone(usage), Elapsed,
                                 Checkpoint>>)
      PROVE  Stepped
  <2>1. /\ Planned' /\ Len(proc'.todo) = Left - 1
        /\ \/ Left = 5 /\ Work = PlanFile
           \/ Left = 4 /\ Work = File("routing", proc.plan)
           \/ Left = 3 /\ Work = PlanDone(usage)
           \/ Left = 2 /\ Work = Elapsed
           \/ Left = 1 /\ Work = Checkpoint
    BY <1>0, <1>2, RoutedPops DEF Doing
  <2>2. Due /\ ~Fails /\ ~Concludes
    <3>1. CASE Work = PlanFile
      BY <1>0, <3>1 DEF Due, Files, PlanFile, File, DiskNames, Calling, Fails, Concludes
    <3>2. CASE Work = PlanDone(usage)
      BY <1>0, <3>2 DEF Due, Settles, PlanDone, Outcome, Calling, Fails, Concludes
    <3>3. CASE Work = Elapsed
      BY <1>0, <3>3 DEF Due, Elapses, Elapsed, ElapsedRecorded, Calling, Fails, Concludes
    <3>4. CASE Work = Checkpoint
      BY <1>0, <3>4 DEF Due, Checkpoints, Calling, Fails, Concludes
    <3>5. CASE Work = File("routing", proc.plan)
      BY <1>0, <3>5 DEF Due, Files, File, DiskNames, Calling, Fails, Concludes
    <3> QED
      BY <2>1, <3>1, <3>2, <3>3, <3>4, <3>5
  <2> QED
    BY <2>1, <2>2 DEF Stepped, Shape
<1> QED
  BY <1>1, <1>2 DEF Planned

\* In the executor's loop, a write leaves the process in a known place.
LEMMA ExecutionStep == ASSUME Doing, Execution PROVE Stepped
<1>0. config.entry # "writer" /\ IsPlan(proc.plan) /\ proc.todo # <<>>
  BY DEF Execution, Doing, Popping
<1>1. CASE BetweenSubtasks
  <2>1. /\ config.entry = "executor" /\ proc.next = "subtask"
        /\ proc.subtask \in 1..Len(proc.plan) + 1 /\ Writes(<<RunStarted, Approve, Begin>>)
    BY <1>0, <1>1 DEF BetweenSubtasks
  <2>2. /\ Execution' /\ Len(proc'.todo) = Left - 1
        /\ \/ Left = 3 /\ Work = RunStarted
           \/ Left = 2 /\ Work = Approve
           \/ Left = 1 /\ Work = Begin
    BY <1>0, <2>1, StartPops DEF Doing
  <2>3. Due /\ ~Fails /\ ~Concludes
    BY <2>1, <2>2 DEF Due, StartsRun, Fails, Concludes
  <2> QED
    BY <2>2, <2>3 DEF Stepped, Shape
<1>2. CASE UsingTool
  <2>1. PICK code \in {"rejected", "budget_exhausted"} : Writes(Asking(Asked, code))
    BY <1>2 DEF UsingTool
  <2>2. Writes(<<Reserve1(Asked), Reduce(code), OperationDispatched(Asked, 1)>>)
    BY <2>1 DEF Asking
  <2>3. /\ Execution' /\ Len(proc'.todo) = Left - 1
        /\ \/ Left = 3 /\ Work = Reserve1(Asked)
           \/ Left = 2 /\ Work = Reduce(code)
           \/ Left = 1 /\ Work = OperationDispatched(Asked, 1)
    BY <1>0, <1>2, <2>2, UsingPops DEF Doing
  <2>4. proc.next \in Calling /\ proc.next \notin {"raise", "return"}
    BY <1>2 DEF UsingTool, Calling
  <2>5. Due /\ ~Fails /\ ~Concludes
    BY <2>3, <2>4 DEF Due, Reserves, Checks, Dispatches, Fails, Concludes
  <2> QED
    BY <2>3, <2>5 DEF Stepped, Shape
<1>3. CASE ToolUsed
  <2>1. proc.next \notin Calling /\ proc.next \notin {"raise", "return"}
        /\ proc.subtask \in 1..Len(proc.plan)
    BY <1>3 DEF ToolUsed, Calling
  <2>2. ASSUME NEW op \in PipelineOps, Work = Found(op) PROVE Due /\ ~Fails /\ ~Concludes
    BY <2>1, <2>2 DEF Due, Settles, Fails, Concludes, Found, Outcome
  <2>3. proc.subtask \in 1..MaxSubtasks
    BY <1>0, <2>1, PipelineAssumption DEF IsPlan, IsList
  <2>4. CASE Writes(<<Found(Search(proc.subtask))>>)
    <3>1. Execution' /\ Len(proc'.todo) = Left - 1 /\ Left = 1 /\ Work = Found(Search(proc.subtask))
      BY <1>0, <1>3, <2>4, SearchedPops DEF Doing
    <3> QED
      BY <2>2, <2>3, <3>1 DEF Stepped, Shape, PipelineOps
  <2>5. CASE proc.last # Nothing /\ Writes(<<Found(Read(proc.subtask, proc.last.passage))>>)
    <3>1. Execution' /\ Len(proc'.todo) = Left - 1 /\ Left = 1
          /\ Work = Found(Read(proc.subtask, proc.last.passage))
      BY <1>0, <1>3, <2>5, ReadPops DEF Doing
    <3>2. proc.last.passage \in Passages
      BY <2>5 DEF Doing, Popping, ProcTypes, CandidateType
    <3> QED
      BY <2>2, <2>3, <3>1, <3>2 DEF Stepped, Shape, PipelineOps
  <2> QED
    BY <1>3, <2>4, <2>5 DEF ToolUsed
<1>4. CASE Executed
  <2>1. Writes(<<Checkpoint>>) /\ proc.next = "graph"
    BY <1>4 DEF Executed
  <2>2. Execution' /\ Len(proc'.todo) = Left - 1 /\ Left = 1 /\ Work = Checkpoint
    BY <1>0, <1>4, <2>1, ExecutedPops DEF Doing
  <2>3. Due /\ ~Fails /\ ~Concludes
    BY <2>1, <2>2 DEF Due, Checkpoints, Fails, Concludes, Calling
  <2> QED
    BY <2>2, <2>3 DEF Stepped, Shape
<1> QED
  BY <1>1, <1>2, <1>3, <1>4 DEF Execution

\* While the assessment is filed, a write leaves the process in a known place.
LEMMA AssessingStep == ASSUME Doing, Assessing PROVE Stepped
<1>1. /\ IsRunner /\ proc.next = "writer"
      /\ Writes(<<GraphFile, File("assessment", Assessment), References>>)
  BY DEF Assessing, Doing, Popping
<1>2. /\ Assessing' /\ Len(proc'.todo) = Left - 1
      /\ \/ Left = 3 /\ Work = GraphFile
         \/ Left = 2 /\ Work = File("assessment", Assessment)
         \/ Left = 1 /\ Work = References
  BY <1>1, AssessingPops DEF Doing
<1>3. proc.next \notin Calling /\ proc.next \notin {"raise", "return"}
  BY <1>1 DEF Calling
<1>4. CASE Work \in {GraphFile, File("assessment", Assessment)}
  BY <1>2, <1>3, <1>4 DEF Stepped, Shape, Due, Files, Fails, Concludes, GraphFile, File, DiskNames
<1>5. CASE Work = References
  BY <1>2, <1>3, <1>5 DEF Stepped, Shape, Due, Elapses, Fails, Concludes, References,
                          ArtifactsRecorded
<1> QED
  BY <1>2, <1>4, <1>5

\* While the report is concluded, a write leaves the process in a known place.
LEMMA WrittenStep == ASSUME Doing, Written PROVE Stepped
<1>1. PICK usage : Writes(WriterSettled(usage, proc.result))
  BY DEF Written
<1>2. /\ Writes(WriterSettled(usage, proc.result))' /\ Len(proc'.todo) = Left - 1
      /\ \/ Left = 5 /\ Work = OperationSucceeded(Writer, 1, usage, proc.result)
         \/ Left = 4 /\ Work = Elapsed
         \/ Left = 3 /\ Work = Lifecycle("researching", "validating")
         \/ Left = 2 /\ Work = Lifecycle("validating", Conclusion(proc.result))
         \/ Left = 1 /\ Work = Checkpoint
      /\ Left = 2 => proc'.todo[1] = Checkpoint
  BY <1>1, WrittenPops DEF Doing
<1>3. config.entry # "executor" /\ proc.next = "return" /\ (Left <= 4 => SucceededIn(Writer) # {})
  BY DEF Written, Left
<1>4. Events \subseteq Events'
  <2>1. CASE stream' = stream
    BY <2>1 DEF Events
  <2>2. CASE stream' = Append(stream, Work)
    BY <2>2, EventsGrow DEF Doing
  <2> QED
    BY <2>1, <2>2 DEF Doing
<1>5. SucceededIn(Writer)' # {}
  <2>1. CASE Left = 5
    <3>1. /\ Work = OperationSucceeded(Writer, 1, usage, proc.result)
          /\ Work.type = "operation_succeeded" /\ Work.op = Writer
      BY <1>2, <2>1 DEF OperationSucceeded
    <3>2. stream' = Append(stream, Work)
      BY <3>1 DEF Doing
    <3>3. Work \in Events'
      BY <3>2, EventsGrow DEF Doing
    <3> QED
      BY <3>1, <3>3 DEF SucceededIn
  <2>2. CASE Left # 5
    <3>1. SucceededIn(Writer) # {}
      BY <1>2, <1>3, <2>2
    <3> QED
      BY <1>4, <3>1 DEF SucceededIn
  <2> QED
    BY <2>1, <2>2
<1>6. Written'
  BY <1>2, <1>3, <1>5 DEF Written, Doing, Popping, SameProc
<1>7. Due
  <2>1. CASE Left = 5
    BY <1>2, <1>3, <2>1 DEF Due, Settles, PipelineOps, Outcome, Calling
  <2>2. CASE Left = 4
    BY <1>2, <1>3, <2>2 DEF Due, Elapses, Elapsed, ElapsedRecorded, Calling
  <2>3. CASE Left = 3
    BY <1>2, <1>3, <2>3 DEF Due, Validates
  <2>4. CASE Left = 2
    BY <1>2, <1>3, <2>4 DEF Due, Concludes, Conclusion, Conclusions
  <2>5. CASE Left = 1
    BY <1>2, <1>3, <2>5 DEF Due, Checkpoints, Calling
  <2> QED
    BY <1>2, <2>1, <2>2, <2>3, <2>4, <2>5
<1> QED
  BY <1>2, <1>6, <1>7 DEF Stepped, Shape, Fails, Concludes

\* While a lost report is abandoned, a write leaves the process in a known place.
LEMMA LostStep == ASSUME Doing, WriterLost PROVE Stepped
<1>1. /\ WriterLost' /\ Len(proc'.todo) = Left - 1
      /\ \/ Left = 4 /\ Work = OperationUnknown(Writer, 1)
         \/ Left = 3 /\ Work = Elapsed
         \/ Left = 2 /\ Work = Failed
         \/ Left = 1 /\ Work = Checkpoint
      /\ Left = 2 => proc'.todo[1] = Checkpoint
  BY LostPops DEF Doing, WriterLost
<1>2. config.entry # "executor" /\ proc.next = "return"
  BY DEF WriterLost
<1>3. CASE Left = 4
  BY <1>1, <1>2, <1>3 DEF Stepped, Shape, Due, Settles, PipelineOps, Outcome, Calling, Fails, Concludes
<1>4. CASE Left = 3
  BY <1>1, <1>2, <1>4 DEF Stepped, Shape, Due, Elapses, Elapsed, ElapsedRecorded, Calling, Fails,
                          Concludes
<1>5. CASE Left = 2
  BY <1>1, <1>2, <1>5 DEF Stepped, Shape, Due, Fails
<1>6. CASE Left = 1
  BY <1>1, <1>2, <1>6 DEF Stepped, Shape, Due, Checkpoints, Calling, Fails, Concludes
<1> QED
  BY <1>1, <1>3, <1>4, <1>5, <1>6

\* While an error is on its way out, a write leaves the process in a known place.
LEMMA RaisingStep == ASSUME Doing, Raising PROVE Stepped
<1>0. proc.next = "raise" /\ proc.next \notin Calling /\ proc.todo # <<>>
  BY DEF Raising, Calling, Doing, Popping
<1>1. CASE ProviderFailed
  <2>0. Planner \in PipelineOps /\ Writer \in PipelineOps
    BY DEF PipelineOps
  <2>1. PICK x : Failure(x, {Planner, Writer}) /\ Writes(<<x, Elapsed, Failed, Checkpoint>>)
    BY <1>1 DEF ProviderFailed
  <2>2. config.entry # "executor"
    BY <1>1 DEF ProviderFailed
  <2>3. /\ Raising' /\ Len(proc'.todo) = Left - 1
        /\ \/ Left = 4 /\ Work = x
           \/ Left = 3 /\ Work = Elapsed
           \/ Left = 2 /\ Work = Failed
           \/ Left = 1 /\ Work = Checkpoint
        /\ Left = 2 => proc'.todo[1] = Checkpoint
    BY <1>0, <2>1, <2>2, ProviderFailedPops DEF Doing
  <2>4. CASE Left = 4
    <3>1. \E op \in PipelineOps : Outcome(Work, op)
      BY <2>0, <2>1, <2>3, <2>4 DEF Failure, Outcome
    <3> QED
      BY <1>0, <2>3, <2>4, <3>1 DEF Stepped, Shape, Due, Settles, Fails, Concludes
  <2>5. CASE Left = 3
    BY <1>0, <2>3, <2>5 DEF Stepped, Shape, Due, Elapses, Elapsed, ElapsedRecorded, Fails, Concludes
  <2>6. CASE Left = 2
    BY <1>0, <2>2, <2>3, <2>6 DEF Stepped, Shape, Due, Fails
  <2>7. CASE Left = 1
    BY <1>0, <2>3, <2>7 DEF Stepped, Shape, Due, Checkpoints, Fails, Concludes
  <2> QED
    BY <2>3, <2>4, <2>5, <2>6, <2>7
<1>2. CASE StageFailed
  <2>1. PICK x : StageWrite(x) /\ Writes(<<x, Checkpoint, Elapsed, Failed, Checkpoint>>)
    BY <1>2 DEF StageFailed
  <2>2. IsRunner /\ config.entry # "executor"
    BY <1>2 DEF StageFailed, IsRunner
  <2>3. /\ Raising' /\ Len(proc'.todo) = Left - 1
        /\ \/ Left = 5 /\ Work = x
           \/ Left = 4 /\ Work = Checkpoint
           \/ Left = 3 /\ Work = Elapsed
           \/ Left = 2 /\ Work = Failed
           \/ Left = 1 /\ Work = Checkpoint
        /\ Left = 2 => proc'.todo[1] = Checkpoint
    BY <1>0, <2>1, <2>2, StageFailedPops DEF Doing
  <2>4. CASE Left = 5
    <3>1. \/ \E op \in PipelineOps : Outcome(Work, op)
          \/ \E plan : Work = File("plan", plan)
      BY <2>1, <2>3, <2>4 DEF Failure, Outcome, StageWrite, ToolOps, Found
    <3>2. CASE \E op \in PipelineOps : Outcome(Work, op)
      BY <1>0, <2>3, <2>4, <3>2 DEF Stepped, Shape, Due, Settles, Fails, Concludes
    <3>3. CASE \E plan : Work = File("plan", plan)
      BY <1>0, <2>3, <2>4, <3>3 DEF Stepped, Shape, Due, Files, File, DiskNames, Fails, Concludes
    <3> QED
      BY <3>1, <3>2, <3>3
  <2>5. CASE Left = 3
    BY <1>0, <2>3, <2>5 DEF Stepped, Shape, Due, Elapses, Elapsed, ElapsedRecorded, Fails, Concludes
  <2>6. CASE Left = 2
    BY <1>0, <2>2, <2>3, <2>6 DEF Stepped, Shape, Due, Fails
  <2>7. CASE Left \in {1, 4}
    BY <1>0, <2>3, <2>7 DEF Stepped, Shape, Due, Checkpoints, Fails, Concludes
  <2> QED
    BY <2>3, <2>4, <2>5, <2>6, <2>7
<1>3. CASE FailedBefore
  <2>1. Writes(<<Checkpoint, Checkpoint>>) /\ IsRunner /\ view.status = "failed"
    BY <1>3 DEF FailedBefore
  <2>2. /\ Writes(<<Checkpoint, Checkpoint>>)' /\ Len(proc'.todo) = Left - 1
        /\ \/ Left = 2 /\ Work = Checkpoint
           \/ Left = 1 /\ Work = Checkpoint
        /\ Left = 2 => proc'.todo[1] = Checkpoint
    BY <1>0, <1>3, <2>1, FailedBeforePops DEF Doing
  <2>3. Work.type = "reduce"
    BY <2>2 DEF Checkpoint, Reduce
  <2>4. view' = view
    BY <2>3 DEF Doing
  <2>5. Raising'
    BY <1>0, <2>1, <2>2, <2>4 DEF Raising, FailedBefore, IsRunner, Doing, Popping, SameProc
  <2> QED
    BY <1>0, <2>1, <2>2, <2>5 DEF Stepped, Shape, Due, Checkpoints, Fails, Concludes
<1>4. CASE ExecutorFailed
  <2>1. PICK x : ExecutorWrite(x) /\ Writes(<<x>>)
    BY <1>0, <1>4 DEF ExecutorFailed
  <2>2. config.entry = "executor" /\ ~IsRunner
    BY <1>4 DEF ExecutorFailed, IsRunner
  <2>3. Raising' /\ Len(proc'.todo) = Left - 1 /\ Left = 1 /\ Work = x
    BY <1>0, <2>1, <2>2, ExecutorFailedPops DEF Doing
  <2>4. \E op \in PipelineOps : Outcome(Work, op)
    BY <2>1, <2>3 DEF Failure, Outcome, ExecutorWrite, ToolOps, Found
  <2> QED
    BY <1>0, <2>2, <2>3, <2>4 DEF Stepped, Shape, Due, Settles, Fails, Concludes
<1>5. CASE Unexpected
  BY <1>0, <1>5 DEF Unexpected
<1> QED
  BY <1>1, <1>2, <1>3, <1>4, <1>5 DEF Raising

\* Whatever is written, the process stays at a place of a script.
LEMMA StepsAlong == ASSUME Doing, Shape PROVE Stepped
<1>1. ~Idling
  BY DEF Doing, Popping, Idling, Idle
<1> QED
  BY <1>1, PlanningStep, PlannedStep, ExecutionStep, AssessingStep, WritingStep, WrittenStep,
     LostStep, RaisingStep DEF Shape

---------------------------------------------------------------------------
(* The writes keep the core of the invariant *)

\* The operation a call in progress is for is one of the pipeline's.
LEMMA AskedKnown ==
    ASSUME ProcTypes, Shape, proc.next \in Calling
    PROVE  Asked \in PipelineOps /\ Asked \in Ops
<1>1. Asked \in PipelineOps
  <2>1. CASE proc.next \in {"planning", "writing"}
    BY <2>1 DEF Asked, PipelineOps
  <2>2. CASE proc.next \in {"search", "reading"}
    <3>1. proc # Idle
      BY <2>2 DEF Idle
    <3>2. UsingTool /\ IsPlan(proc.plan)
      BY <2>2, <3>1 DEF Shape, Idling, Planning, Planned, Assessing, Writing, Written, WriterLost,
         Raising, Execution, BetweenSubtasks, ToolUsed, Executed
    <3>3. proc.subtask \in 1..MaxSubtasks
      BY <3>2, PipelineAssumption DEF UsingTool, IsPlan, IsList
    <3>4. proc.next = "reading" => Head(proc.reads).passage \in Passages
      <4>1. proc.next = "reading" => proc.reads # <<>> /\ proc.reads \in Seq(CandidateType)
        BY <3>2 DEF UsingTool, ProcTypes
      <4>2. proc.next = "reading" => Head(proc.reads) \in CandidateType
        BY <4>1
      <4> QED
        BY <4>2 DEF CandidateType
    <3> QED
      BY <2>2, <3>3, <3>4 DEF Asked, Reading, PipelineOps
  <2> QED
    BY <2>1, <2>2 DEF Calling
<1> QED
  BY <1>1, OpsAssumption

Settled == {"succeeded", "failed_known", "outcome_unknown"}

\* What each of the events does to the view.
StatusMoves(S, t) ==
    /\ ViewForm(view')
    /\ view'.ok => view.ok /\ view.status \in S /\ view'.status = t
    /\ ~view'.ok => view'.status = view.status

\* What an event does to the status, the journal and the ledger, by its place.
Effects ==
    /\ ViewForm(view') /\ (view'.ok => view.ok)
    /\ StartsRun => \/ view' = view
                    \/ Stays(view, view') /\ view'.ledger = view.ledger
    /\ StartsRun => \/ view' = view
                    \/ view'.ok /\ view'.status \in {"brief_approved", "researching"}
                    \/ ~view'.ok /\ view'.status = view.status
    /\ Reserves => Moves(view, view', Asked, {"absent", "planned", "reserved"}, "reserved")
    /\ Dispatches => Moves(view, view', Asked, {"planned", "reserved"}, "started")
    /\ Settles => \E op \in PipelineOps, t \in Settled :
                      /\ Outcome(Work, op)
                      /\ Moves(view, view', op, OperationStatus, t)
                      /\ Work.type = "operation_succeeded" <=> t = "succeeded"
    /\ Elapses => /\ Stays(view, view') /\ view'.ok = view.ok /\ view'.status = view.status
                  /\ view'.ledger.replans = view.ledger.replans
    /\ Fails => /\ Stays(view, view') /\ view'.ledger = view.ledger
                /\ StatusMoves(RunStatus, "failed")
    /\ Validates => /\ Stays(view, view') /\ view'.ledger = view.ledger
                    /\ StatusMoves(RunStatus, "validating")
    /\ Concludes => \E c \in Conclusions : Stays(view, view') /\ view'.ledger = view.ledger
                                             /\ StatusMoves(RunStatus, c)

\* A lifecycle event moves the status to its target and spares journal and ledger.
LEMMA LifecycleEffect ==
    ASSUME ViewForm(view), NEW from, NEW to \in RunStatus, Work = Lifecycle(from, to),
           view' = ReduceEvent(view, Work, config.spec)
    PROVE  Stays(view, view') /\ view'.ledger = view.ledger /\ StatusMoves(RunStatus, to)
<1> DEFINE v == view
           w == view'
<1>1. ViewForm(v) /\ w = ReduceEvent(v, Lifecycle(from, to), config.spec)
  OBVIOUS
<1> HIDE DEF v, w
<1>2. /\ Stays(v, w) /\ w.ledger = v.ledger
      /\ w.ok => v.status = from /\ CanTransition(from, to) /\ w.status = to
      /\ ~w.ok => w.status = v.status
  BY <1>1, LifecycleStays
<1>3. v.status \in RunStatus
  BY <1>1 DEF ViewForm
<1> QED
  BY <1>2, <1>3 DEF v, w, StatusMoves, Stays

\* What the reducer makes of every event some script may write next.
LEMMA EventEffects ==
    ASSUME Durable, ProcTypes, Shape, Due, Work.type \notin {"file", "reduce"},
           view' = ReduceEvent(view, Work, config.spec)
    PROVE  Effects
<1> DEFINE v == view
           w == view'
           spec == config.spec
<1>0. ViewForm(v) /\ w = ReduceEvent(v, Work, spec)
  BY DEF Durable
<1>a. v.status \in RunStatus
  BY <1>0 DEF ViewForm
<1>b. ~Files /\ ~Checks /\ ~Checkpoints
  BY DEF Files, Checks, Checkpoints, Checkpoint, Reduce
<1>1. ASSUME StartsRun
      PROVE  /\ \/ w = v
                \/ Stays(v, w) /\ w.ledger = v.ledger
             /\ \/ w = v
                \/ w.ok /\ w.status \in {"brief_approved", "researching"}
                \/ ~w.ok /\ w.status = v.status
             /\ ViewForm(w) /\ (w.ok => v.ok)
  <2>1. CASE Work = RunStarted
    <3> HIDE DEF v, w, spec
    <3> QED
      BY <1>0, <2>1, RunStartedStays
  <2>2. CASE Work = Approve
    <3>1. "brief_approved" \in RunStatus /\ Work = Lifecycle("brief_pending", "brief_approved")
      BY <2>2 DEF RunStatus, Approve
    <3>2. Stays(view, view') /\ view'.ledger = view.ledger
          /\ StatusMoves(RunStatus, "brief_approved")
      BY <1>0, <3>1, LifecycleEffect
    <3> QED
      BY <3>2 DEF Stays, StatusMoves
  <2>3. CASE Work = Begin
    <3>1. "researching" \in RunStatus /\ Work = Lifecycle("brief_approved", "researching")
      BY <2>3 DEF RunStatus, Begin
    <3>2. Stays(view, view') /\ view'.ledger = view.ledger
          /\ StatusMoves(RunStatus, "researching")
      BY <1>0, <3>1, LifecycleEffect
    <3> QED
      BY <3>2 DEF Stays, StatusMoves
  <2> QED
    BY <1>1, <2>1, <2>2, <2>3 DEF StartsRun
<1>2. ASSUME Reserves
      PROVE  Moves(v, w, Asked, {"absent", "planned", "reserved"}, "reserved")
  <2>1. Asked \in Ops
    BY <1>2, AskedKnown DEF Reserves
  <2> DEFINE op == Asked
             kind == IF op \in {Planner, Writer} THEN "provider" ELSE "tool"
             usage == IF op \in {Planner, Writer} THEN ReservedUsage ELSE NoUsage
  <2>2. Work = OperationReserved(op, 1, kind, usage)
    BY <1>2 DEF Reserves, Reserve1
  <2> HIDE DEF v, w, spec, op, kind, usage
  <2>3. op \in Ops
    BY <2>1 DEF op
  <2>4. Moves(v, w, op, {"absent", "planned", "reserved"}, "reserved")
    BY <1>0, <2>2, <2>3, ReservedMoves
  <2> QED
    BY <2>4 DEF op
<1>3. ASSUME Dispatches
      PROVE  Moves(v, w, Asked, {"planned", "reserved"}, "started")
  <2>1. Asked \in Ops
    BY <1>3, AskedKnown DEF Dispatches
  <2>2. Work = OperationDispatched(Asked, 1)
    BY <1>3 DEF Dispatches
  <2> HIDE DEF v, w, spec
  <2> QED
    BY <1>0, <2>1, <2>2, DispatchedMoves
<1>4. ASSUME Settles
      PROVE  \E op \in PipelineOps, t \in Settled :
                 /\ Outcome(Work, op)
                 /\ Moves(v, w, op, OperationStatus, t)
                 /\ Work.type = "operation_succeeded" <=> t = "succeeded"
  <2>1. PICK op \in PipelineOps : Outcome(Work, op)
    BY <1>4 DEF Settles
  <2>2. op \in Ops
    BY OpsAssumption
  <2> HIDE DEF v, w, spec
  <2>3. CASE Work = OperationUnknown(op, 1)
    <3>1. Moves(v, w, op, OperationStatus, "outcome_unknown")
      BY <1>0, <2>2, <2>3, UnknownMoves
    <3>2. Work.type # "operation_succeeded"
      BY <2>3 DEF OperationUnknown
    <3> QED
      BY <2>1, <3>1, <3>2 DEF Settled
  <2>4. ASSUME NEW usage, NEW code, Work = OperationFailed(op, 1, usage, code)
        PROVE  \E t \in Settled : /\ Moves(v, w, op, OperationStatus, t)
                                  /\ Work.type = "operation_succeeded" <=> t = "succeeded"
    <3>1. Moves(v, w, op, OperationStatus, "failed_known")
      BY <1>0, <2>2, <2>4, FailedMoves
    <3>2. Work.type # "operation_succeeded"
      BY <2>4 DEF OperationFailed
    <3> QED
      BY <3>1, <3>2 DEF Settled
  <2>5. ASSUME NEW usage, NEW answer, Work = OperationSucceeded(op, 1, usage, answer)
        PROVE  \E t \in Settled : /\ Moves(v, w, op, OperationStatus, t)
                                  /\ Work.type = "operation_succeeded" <=> t = "succeeded"
    <3>1. Moves(v, w, op, OperationStatus, "succeeded")
      BY <1>0, <2>2, <2>5, SucceededMoves
    <3>2. Work.type = "operation_succeeded"
      BY <2>5 DEF OperationSucceeded
    <3> QED
      BY <3>1, <3>2 DEF Settled
  <2> QED
    BY <2>1, <2>3, <2>4, <2>5 DEF Outcome
<1>5. ASSUME Elapses
      PROVE  /\ Stays(v, w) /\ w.ok = v.ok /\ w.status = v.status
             /\ w.ledger.replans = v.ledger.replans
  <2>1. Work.type = "elapsed_recorded"
    BY <1>5 DEF Elapses
  <2> HIDE DEF v, w, spec
  <2> QED
    BY <1>0, <2>1, ElapsedStays
<1>6. ASSUME Fails
      PROVE  Stays(view, view') /\ view'.ledger = view.ledger /\ StatusMoves(RunStatus, "failed")
  <2>1. "failed" \in RunStatus /\ Work = Lifecycle("researching", "failed")
    BY <1>6 DEF RunStatus, Fails, Failed
  <2> QED
    BY <1>0, <2>1, LifecycleEffect
<1>7. ASSUME Validates
      PROVE  Stays(view, view') /\ view'.ledger = view.ledger /\ StatusMoves(RunStatus, "validating")
  <2>1. "validating" \in RunStatus /\ Work = Lifecycle("researching", "validating")
    BY <1>7 DEF RunStatus, Validates
  <2> QED
    BY <1>0, <2>1, LifecycleEffect
<1>8. ASSUME Concludes
      PROVE  \E c \in Conclusions : Stays(view, view') /\ view'.ledger = view.ledger
                                      /\ StatusMoves(RunStatus, c)
  <2>1. PICK c \in Conclusions : Work = Lifecycle("validating", c)
    BY <1>8 DEF Concludes
  <2>2. c \in RunStatus
    BY DEF Conclusions, RunStatus
  <2> QED
    BY <1>0, <2>1, <2>2, LifecycleEffect
<1>9. ViewForm(view') /\ (view'.ok => view.ok)
  <2>1. CASE Settles
    BY <1>4, <2>1 DEF Moves
  <2>2. CASE Concludes
    BY <1>8, <2>2 DEF StatusMoves
  <2>3. CASE StartsRun \/ Reserves \/ Dispatches \/ Elapses \/ Fails \/ Validates
    BY <1>1, <1>2, <1>3, <1>5, <1>6, <1>7, <2>3 DEF Moves, Stays, StatusMoves
  <2> QED
    BY <1>b, <2>1, <2>2, <2>3 DEF Due
<1>10. /\ StartsRun => \/ view' = view
                       \/ Stays(view, view') /\ view'.ledger = view.ledger
       /\ StartsRun => \/ view' = view
                       \/ view'.ok /\ view'.status \in {"brief_approved", "researching"}
                       \/ ~view'.ok /\ view'.status = view.status
  BY <1>1
<1> QED
  BY <1>2, <1>3, <1>4, <1>5, <1>6, <1>7, <1>8, <1>9, <1>10 DEF Effects

---------------------------------------------------------------------------
(* The invariants *)

\* The write that is due is the first of the todo list.
LEMMA HeadIsFirst ==
    ASSUME ProcTypes, proc.todo # <<>>
    PROVE  /\ Work = proc.todo[1] /\ Left \in Nat \ {0} /\ Len(Tail(proc.todo)) = Left - 1
           /\ \A i \in 1..Left - 1 : Tail(proc.todo)[i] = proc.todo[i + 1]
<1>1. PICK S : proc.todo \in Seq(S)
  BY DEF ProcTypes, IsList
<1> QED
  BY <1>1 DEF Work, Left

\* An append performs the write that is due and no other.
LEMMA AppendIsDoing ==
    ASSUME Core, AppendEvent
    PROVE  /\ Doing /\ ProcTypes' /\ Stepped /\ Effects
           /\ Events' = Events \cup {Work} /\ IsList(stream') /\ stream' # <<>>
<1>1. Popping /\ ProcTypes'
  BY DoneKeeps DEF Core, AppendEvent, Popping, SameProc
<1>2. IsList(stream)
  BY DEF Core, Durable
<1>3. Doing
  BY <1>1, <1>2 DEF Doing, AppendEvent, Write
<1>4. Stepped
  BY <1>3, StepsAlong DEF Core
<1>5. Effects
  BY <1>4, EventEffects DEF Core, Stepped, AppendEvent, Write
<1>6. stream' = Append(stream, Work)
  BY DEF AppendEvent, Write
<1> DEFINE e == Work
<1>7. stream' = Append(stream, e)
  BY <1>6
<1> HIDE DEF e
<1>8. Events' = Events \cup {e} /\ IsList(stream') /\ stream' # <<>>
  BY <1>2, <1>7, EventsGrow
<1> QED
  BY <1>1, <1>3, <1>4, <1>5, <1>8 DEF e

\* _append_event, then the reducer: the inductive invariant survives an append.
LEMMA AppendKeepsCore == ASSUME Core, AppendEvent PROVE Core'
<1>0. /\ Doing /\ ProcTypes' /\ Stepped /\ Effects
      /\ Events' = Events \cup {Work} /\ IsList(stream') /\ stream' # <<>>
  BY AppendIsDoing
<1>1. Durable'
  BY <1>0 DEF Core, Durable, AppendEvent, Effects
<1>2. Shape' /\ Due /\ Len(proc'.todo) = Left - 1
  BY <1>0 DEF Stepped
<1>3. ~Ended
  <2>1. Work = proc.todo[1] /\ Left \in Nat \ {0}
    BY HeadIsFirst DEF Core, AppendEvent
  <2>2. Work.type # "reduce" /\ 1 \in 1..Len(proc.todo)
    BY <2>1 DEF AppendEvent, Left
  <2> QED
    BY <2>1, <2>2 DEF Core, Statuses, NoEvent
<1>4. SameProc /\ returned' = returned
  BY <1>0 DEF Doing, Popping, AppendEvent
<1>5. Fails \/ Concludes \/ (view'.status \notin TERMINAL)
  <2>0. view.status \notin TERMINAL /\ view.status \in RunStatus
    BY <1>3 DEF Ended, Core, Durable, ViewForm
  <2>1. CASE StartsRun
    BY <1>0, <2>0, <2>1 DEF Effects, TERMINAL
  <2>2. CASE Reserves
    BY <1>0, <2>0, <2>2 DEF Effects, Moves
  <2>3. CASE Dispatches
    BY <1>0, <2>0, <2>3 DEF Effects, Moves
  <2>4. CASE Settles
    BY <1>0, <2>0, <2>4 DEF Effects, Moves
  <2>5. CASE Elapses
    BY <1>0, <2>0, <2>5 DEF Effects
  <2>6. CASE Validates
    BY <1>0, <2>0, <2>6 DEF Effects, StatusMoves, TERMINAL
  <2>7. ~Files /\ ~Checks /\ ~Checkpoints
    BY DEF AppendEvent, Files, Checks, Checkpoints, Checkpoint, Reduce
  <2> QED
    BY <1>2, <2>1, <2>2, <2>3, <2>4, <2>5, <2>6, <2>7 DEF Due
<1>6. SucceededIn(Writer) \subseteq SucceededIn(Writer)'
  BY <1>0 DEF SucceededIn
<1>7. Fails \/ Concludes => /\ config.entry # "executor" /\ proc.next \in {"raise", "return"}
                            /\ Len(proc'.todo) = 1 /\ proc'.todo[1] = Checkpoint
                            /\ view'.status \in TERMINAL => view'.ok
  <2>1. CASE Fails
    <3>1. view'.status \in TERMINAL => view'.ok
      BY <1>0, <1>3, <2>1 DEF Effects, StatusMoves, Ended
    <3> QED
      BY <1>0, <2>1, <3>1 DEF Fails, Stepped
  <2>2. CASE Concludes
    <3>1. view'.status \in TERMINAL => view'.ok
      BY <1>0, <1>3, <2>2 DEF Effects, StatusMoves, Ended
    <3> QED
      BY <1>0, <2>2, <3>1 DEF Concludes, Stepped
  <2> QED
    BY <2>1, <2>2
<1>8. Statuses'
  <2>1. ASSUME Ended' PROVE /\ view'.ok /\ NoEvent' /\ config'.entry # "executor"
                            /\ proc'.next \in {"raise", "return"}
    <3>1. Fails \/ Concludes
      BY <1>5, <2>1 DEF Ended
    <3>2. NoEvent'
      BY <1>7, <3>1 DEF NoEvent, Checkpoint, Reduce
    <3> QED
      BY <1>4, <1>7, <2>1, <3>1, <3>2 DEF SameProc, Ended
  <2>2. Answered("graph")' # {} => config'.entry = "executor"
    BY <1>4 DEF Core, Statuses, Answered, SameProc
  <2>3. view'.status \in Conclusions => SucceededIn(Writer)' # {}
    <3>1. CASE Concludes
      BY <1>6, <3>1 DEF Concludes
    <3>2. CASE Fails
      <4>1. view'.status \in {"failed", view.status}
        BY <1>0, <3>2 DEF Effects, StatusMoves
      <4> QED
        BY <1>3, <4>1 DEF Conclusions, TERMINAL, Ended
    <3>3. CASE view'.status \notin TERMINAL
      BY <3>3 DEF Conclusions, TERMINAL
    <3> QED
      BY <1>5, <3>1, <3>2, <3>3
  <2>4. ASSUME proc'.next = "raise" /\ IsRunner' /\ proc'.result \in StageCodes
        PROVE  /\ Left' <= 1 => (view'.ok => view'.status = "failed")
               /\ Left' = 0 => view'.ok
    <3>1. proc.next = "raise" /\ IsRunner
      BY <1>4, <2>4 DEF SameProc, IsRunner
    <3>2. SUFFICES ASSUME Left' <= 1 PROVE Left' # 0 /\ (view'.ok => view'.status = "failed")
      OBVIOUS
    <3>3. Left \in {1, 2} /\ Left' = Left - 1
      <4>1. Left \in Nat \ {0} /\ Left' = Left - 1
        BY <1>2, HeadIsFirst DEF Core, AppendEvent, Left
      <4> QED
        BY <3>2, <4>1
    <3>4. Fails
      <4>1. ~Files /\ ~Checks /\ ~Checkpoints
        BY DEF AppendEvent, Files, Checks, Checkpoints, Checkpoint, Reduce
      <4>2. ~StartsRun /\ ~Reserves /\ ~Dispatches /\ ~Validates /\ ~Concludes
        BY <3>1 DEF StartsRun, Reserves, Dispatches, Validates, Concludes, Calling
      <4>3. ~Settles /\ ~Elapses
        BY <3>1, <3>3 DEF Settles, Elapses
      <4> QED
        BY <1>2, <4>1, <4>2, <4>3 DEF Due
    <3>5. view'.ok => view'.status = "failed"
      BY <1>0, <3>4 DEF Effects, StatusMoves
    <3>6. Left = 2
      BY <3>4 DEF Fails
    <3> QED
      BY <3>3, <3>5, <3>6
  <2> QED
    BY <2>1, <2>2, <2>3, <2>4 DEF Statuses
<1> QED
  BY <1>0, <1>1, <1>2, <1>8 DEF Core

\* A file write performs the write that is due and leaves the stream alone.
LEMMA FileIsDoing ==
    ASSUME Core, WriteArtifact
    PROVE  Doing /\ ProcTypes' /\ Stepped /\ view' = view /\ stream' = stream
<1>1. Popping /\ ProcTypes'
  BY DoneKeeps DEF Core, WriteArtifact, Popping, SameProc
<1>2. Doing
  BY <1>1 DEF Doing, WriteArtifact, Core, Durable
<1> QED
  BY <1>1, <1>2, StepsAlong DEF Core, WriteArtifact

\* _write_json: the inductive invariant survives a file write.
LEMMA FileKeepsCore == ASSUME Core, WriteArtifact PROVE Core'
<1>0. Doing /\ ProcTypes' /\ Stepped /\ view' = view /\ stream' = stream
  BY FileIsDoing
<1>1. /\ Files /\ proc.next \notin Calling /\ (proc.next = "raise" => Left = 5)
      /\ Len(proc'.todo) = Left - 1
  <2>1. Due /\ Len(proc'.todo) = Left - 1
    BY <1>0 DEF Stepped
  <2>2. Files
    <3>1. Work.type = "file"
      BY DEF WriteArtifact
    <3>2. ~StartsRun /\ ~Reserves /\ ~Dispatches /\ ~Checks /\ ~Checkpoints /\ ~Elapses
      BY <3>1 DEF StartsRun, Reserves, Dispatches, Checks, Checkpoints, Checkpoint, Reduce, Elapses,
                  RunStarted, Approve, Begin, Lifecycle, Reserve1, OperationReserved,
                  OperationDispatched
    <3>3. ~Settles /\ ~Fails /\ ~Validates /\ ~Concludes
      BY <3>1 DEF Settles, Outcome, OperationUnknown, OperationFailed, OperationSucceeded, Fails,
                  Failed, Validates, Concludes, Lifecycle
    <3> QED
      BY <2>1, <3>2, <3>3 DEF Due
  <2> QED
    BY <2>1, <2>2 DEF Files
<1>2. SameProc /\ returned' = returned
  BY <1>0 DEF Doing, Popping, WriteArtifact
<1>3. ~Ended
  <2>1. Work = proc.todo[1] /\ Left \in Nat \ {0}
    BY HeadIsFirst DEF Core, WriteArtifact
  <2>2. Work.type # "reduce" /\ 1 \in 1..Len(proc.todo)
    BY <2>1 DEF WriteArtifact, Left
  <2> QED
    BY <2>1, <2>2 DEF Core, Statuses, NoEvent
<1>4. Durable'
  <2>1. disk' = [disk EXCEPT ![Work.name] = Work.content]
    BY DEF WriteArtifact
  <2>2. disk' = [name \in DiskNames |-> disk'[name]]
    BY <2>1 DEF Core, Durable
  <2> QED
    BY <1>0, <2>2 DEF Core, Durable, WriteArtifact
<1>5. Statuses'
  <2>1. ~Ended' /\ view'.status \in {view.status} /\ SucceededIn(Writer)' = SucceededIn(Writer)
    BY <1>0, <1>3 DEF Ended, SucceededIn, Events
  <2>2. Answered("graph")' # {} => config'.entry = "executor"
    BY <1>2 DEF Core, Statuses, Answered, SameProc
  <2>3. view'.status \in Conclusions => SucceededIn(Writer)' # {}
    BY <2>1 DEF Core, Statuses
  <2>4. proc'.next = "raise" => Left' = 4
    BY <1>1, <1>2 DEF SameProc, Left
  <2> QED
    BY <2>1, <2>2, <2>3, <2>4 DEF Statuses
<1> QED
  BY <1>0, <1>4, <1>5 DEF Core, Stepped

\* A reduction that succeeds only consumes the item that asked for it.
LEMMA ReduceIsDoing ==
    ASSUME Core, ReduceStream, view.ok
    PROVE  Doing /\ ProcTypes' /\ Stepped /\ UNCHANGED <<config, stream, view, disk, calls, returned, runs>>
<1>1. Popping /\ ProcTypes'
  BY DoneKeeps DEF Core, ReduceStream, Popping, SameProc
<1>2. Doing
  BY <1>1 DEF Doing, ReduceStream, Core, Durable
<1> QED
  BY <1>1, <1>2, StepsAlong DEF Core, ReduceStream

\* What is reduced raises one of two codes, and neither is a stage failure.
LEMMA ReduceDue ==
    ASSUME Due, Work.type = "reduce"
    PROVE  /\ Checks \/ Checkpoints
           /\ Work.code \in {"rejected", "budget_exhausted"}
<1>1. ~StartsRun /\ ~Reserves /\ ~Dispatches /\ ~Files /\ ~Elapses
  BY DEF StartsRun, Reserves, Dispatches, Files, Elapses,
              RunStarted, Approve, Begin, Lifecycle, Reserve1, OperationReserved,
              OperationDispatched
<1>2. ~Settles /\ ~Fails /\ ~Validates /\ ~Concludes
  BY DEF Settles, Outcome, OperationUnknown, OperationFailed, OperationSucceeded, Fails,
              Failed, Validates, Concludes, Lifecycle
<1>3. Checks \/ Checkpoints
  BY <1>1, <1>2 DEF Due
<1> QED
  BY <1>3 DEF Checks, Checkpoints, Checkpoint, Reduce

\* reduce_runtime_events on a good stream: the inductive invariant survives.
LEMMA ReduceKeepsCore == ASSUME Core, ReduceStream, view.ok PROVE Core'
<1>0. /\ Doing /\ ProcTypes' /\ Stepped
      /\ UNCHANGED <<config, stream, view, disk, calls, returned, runs>>
  BY ReduceIsDoing
<1>1. (Checks \/ Checkpoints) /\ Len(proc'.todo) = Left - 1 /\ SameProc /\ Work.type = "reduce"
  BY <1>0, ReduceDue DEF Stepped, ReduceStream, Doing, Popping
<1>2. Left \in Nat \ {0} /\ proc'.todo = Tail(proc.todo)
      /\ \A i \in 1..Left - 1 : proc'.todo[i] = proc.todo[i + 1]
  BY <1>0, HeadIsFirst DEF Core, ReduceStream, Doing, Popping
<1>3. Durable'
  BY <1>0 DEF Core, Durable
<1>4. Statuses'
  <2>1. Ended' => view'.ok /\ NoEvent' /\ config'.entry # "executor"
    <3>1. Ended => NoEvent'
      BY <1>1, <1>2 DEF Core, Statuses, NoEvent, Left
    <3> QED
      BY <1>0, <3>1 DEF Core, Statuses, Ended
  <2>2. Ended' => \/ proc'.next \in {"idle", "raise", "return"}
                  \/ proc'.next = "writer" /\ proc'.todo = <<>>
    BY <1>0, <1>1 DEF Core, Statuses, Ended, SameProc, ReduceStream
  <2>3. Answered("graph")' # {} => config'.entry = "executor"
    BY <1>0 DEF Core, Statuses, Answered
  <2>4. view'.status \in Conclusions => SucceededIn(Writer)' # {}
    BY <1>0 DEF Core, Statuses, SucceededIn, Events
  <2>5. ASSUME proc'.next = "raise" /\ IsRunner' /\ proc'.result \in StageCodes, Left' <= 1
        PROVE  view'.ok /\ view'.status = "failed"
    <3>1. proc.next = "raise" /\ IsRunner /\ proc.result \in StageCodes
      BY <1>0, <1>1, <2>5 DEF SameProc, IsRunner
    <3>2. Left \in {1, 2}
      <4>1. Left' = Left - 1
        BY <1>1 DEF Left
      <4>2. Left \in Nat \ {0} /\ Left - 1 <= 1
        BY <1>2, <2>5, <4>1
      <4> QED
        BY <4>2
    <3>3. CASE Left = 1
      BY <1>0, <3>1, <3>3 DEF Core, Statuses
    <3>4. CASE Left = 2
      BY <1>0, <1>1, <3>1, <3>4 DEF Checks, Checkpoints, Calling
    <3> QED
      BY <1>0, <3>2, <3>3, <3>4
  <2>6. Left' \in Nat
    BY <1>1, <1>2 DEF Left
  <2> QED
    BY <2>1, <2>2, <2>3, <2>4, <2>5, <2>6 DEF Statuses
<1> QED
  BY <1>0, <1>3, <1>4 DEF Core, Stepped

\* An exception or a return ends the process.
LEMMA IdleKeepsCore ==
    ASSUME Core, proc' = Idle, UNCHANGED <<config, stream, view, disk, calls>>,
           Answered("graph")' # {} => config.entry = "executor"
    PROVE  Core'
<1>1. proc'.todo = <<>> /\ proc'.next = "idle"
  BY DEF Idle
<1>2. ProcTypes'
  BY Lists DEF ProcTypes, Idle
<1>3. NoEvent'
  BY <1>1 DEF NoEvent
<1>4. Durable' /\ Shape'
  BY DEF Core, Durable, Shape, Idling
<1>5. Statuses'
  <2>1. view'.status \in Conclusions => SucceededIn(Writer)' # {}
    BY DEF Core, Statuses, SucceededIn, Events
  <2> QED
    BY <1>1, <1>3, <2>1 DEF Core, Statuses, Ended
<1> QED
  BY <1>2, <1>4, <1>5 DEF Core

---------------------------------------------------------------------------
(* The places where a script is chosen *)

\* A step that starts a script need only show the script's place and its rules for the end.
LEMMA NewScript ==
    ASSUME Core, UNCHANGED <<config, stream, view, disk, returned>>, calls' \in [Ops -> Nat],
           ProcTypes', Shape',
           Ended => /\ NoEvent'
                    /\ \/ proc'.next \in {"idle", "raise", "return"}
                       \/ proc'.next = "writer" /\ proc'.todo = <<>>,
           proc'.next = "raise" /\ IsRunner /\ proc'.result \in StageCodes =>
               /\ Left' <= 1 => (view.ok => view.status = "failed")
               /\ Left' = 0 => view.ok
    PROVE  Core'
<1>1. Durable'
  BY DEF Core, Durable
<1>2. SucceededIn(Writer)' = SucceededIn(Writer) /\ (Ended' <=> Ended)
  BY DEF SucceededIn, Events, Ended
<1>3. Statuses'
  BY <1>2 DEF Core, Statuses, Ended, Answered, IsRunner
<1> QED
  BY <1>1, <1>3 DEF Core

\* The place a process stands at tells which script it is in.
LEMMA Places ==
    ASSUME Shape
    PROVE  /\ proc.next = "planning" => Planning
           /\ proc.next = "execute" => Planned
           /\ proc.next \in Executing => Execution
           /\ proc.next = "writer" => Assessing
           /\ proc.next = "writing" => Writing
           /\ proc.next = "raise" => Raising
           /\ proc.next = "return" => Written \/ WriterLost
           /\ proc.next = "idle" => Idling
BY DEF Shape, Idling, Idle, Planning, Planned, Execution, BetweenSubtasks, UsingTool, ToolUsed,
       Executed, Assessing, Writing, Written, WriterLost, Raising, Executing

\* No call is under way in a run that has ended.
LEMMA NotEnded ==
    ASSUME Core, proc.next \in Executing \cup {"planning", "execute", "writing"}
    PROVE  ~Ended
BY DEF Core, Statuses, Executing

\* The script of a stage that fails.
LEMMA TerminalizeIs ==
    /\ config.entry # "runner" => Terminalize = <<>>
    /\ config.entry = "runner" /\ view.status \in TERMINAL =>
          Terminalize = <<Checkpoint, Checkpoint>>
    /\ config.entry = "runner" /\ view.status \notin TERMINAL =>
          Terminalize = <<Checkpoint, Elapsed, Failed, Checkpoint>>
<1> DEFINE c == Checkpoint
           e == Elapsed
           f == Failed
<1>1. Terminalize = IF config.entry # "runner" THEN <<>>
                    ELSE <<c>> \o (IF view.status \in TERMINAL THEN <<>> ELSE <<e, f>>) \o <<c>>
  BY DEF Terminalize, Checkpoint
<1> HIDE DEF c, e, f
<1>2. <<c>> \o <<>> = <<c>> /\ <<c>> \o <<c>> = <<c, c>>
  BY Lists, JoinNone, Join11
<1>3. <<c>> \o <<e, f>> = <<c, e, f>> /\ <<c, e, f>> \o <<c>> = <<c, e, f, c>>
  BY Join12, Join31
<1> QED
  BY <1>1, <1>2, <1>3 DEF c, e, f

\* Raise sets what is left to write, the place and the code, and nothing else.
LEMMA RaiseTypes ==
    ASSUME ProcTypes, NEW todo, IsList(todo), NEW code, Raise(todo, code)
    PROVE  /\ ProcTypes' /\ proc'.todo = todo /\ proc'.next = "raise" /\ proc'.result = code
           /\ proc'.plan = proc.plan /\ proc'.graph = proc.graph /\ proc'.last = proc.last
           /\ proc'.reads = proc.reads /\ proc'.subtask = proc.subtask
<1>1. /\ proc'.todo = todo /\ proc'.next = "raise" /\ proc'.result = code
      /\ proc'.plan = proc.plan /\ proc'.graph = proc.graph /\ proc'.last = proc.last
      /\ proc'.reads = proc.reads /\ proc'.subtask = proc.subtask
      /\ proc' = [todo |-> proc'.todo, next |-> proc'.next, subtask |-> proc'.subtask,
                  plan |-> proc'.plan, graph |-> proc'.graph, reads |-> proc'.reads,
                  last |-> proc'.last, result |-> proc'.result]
  BY DEF ProcTypes, Raise
<1> QED
  BY <1>1 DEF ProcTypes

\* A stage of the composed run, or of the executor on its own, fails.
LEMMA StageKeepsCore ==
    ASSUME Core, ~Ended, config.entry # "writer", UNCHANGED <<config, stream, view, disk, returned>>,
           calls' \in [Ops -> Nat], NEW todo, NEW code, Stage(todo, code),
           config.entry \in {"runner", "executor"},
           \/ todo = <<>>
           \/ \E x : todo = <<x>> /\ StageWrite(x) /\ (config.entry = "executor" => ExecutorWrite(x))
    PROVE  /\ Core' /\ proc'.next = "raise" /\ proc'.result = code
           /\ config.entry = "executor" => proc'.todo = todo
           /\ config.entry = "runner" =>
                proc'.todo = todo \o <<Checkpoint, Elapsed, Failed, Checkpoint>>
<1> DEFINE c == Checkpoint
           e == Elapsed
           f == Failed
           script == <<c, e, f, c>>
<1>0. IsList(todo) /\ IsList(script)
  BY Lists
<1>1. CASE config.entry = "executor"
  <2>1. Terminalize = <<>>
    BY <1>1, TerminalizeIs
  <2>2. todo \o Terminalize = todo
    BY <1>0, <2>1, JoinNone
  <2>3. Raise(todo, code)
    BY <2>2 DEF Stage
  <2>4. ProcTypes' /\ proc'.todo = todo /\ proc'.next = "raise" /\ proc'.result = code
    BY <1>0, <2>3, RaiseTypes DEF Core
  <2>5. Shape'
    <3>1. CASE todo = <<>>
      BY <1>1, <2>4, <3>1 DEF Shape, Raising, ExecutorFailed
    <3>2. ASSUME NEW x, todo = <<x>>, ExecutorWrite(x) PROVE Shape'
      <4>1. Rest(todo, <<x>>)
        BY <1>0, <3>2, RestAll
      <4>2. Writes(<<x>>)'
        BY <2>4, <4>1 DEF Writes
      <4>3. ExecutorWrite(x)'
        BY <3>2 DEF ExecutorWrite, Failure
      <4>4. ExecutorFailed'
        BY <1>1, <4>2, <4>3 DEF ExecutorFailed
      <4> QED
        BY <2>4, <4>4 DEF Shape, Raising
    <3> QED
      BY <1>1, <3>1, <3>2
  <2> QED
    BY <1>1, <2>4, <2>5, NewScript DEF IsRunner
<1>2. CASE config.entry = "runner"
  <2>1. Terminalize = script
    BY <1>2, TerminalizeIs DEF Ended
  <2> HIDE DEF c, e, f
  <2>2. PICK x : StageWrite(x) /\ (todo = <<>> \/ todo = <<x>>)
    <3>1. \E y : StageWrite(y)
      BY DEF StageWrite
    <3> QED
      BY <3>1
  <2> DEFINE whole == <<x, c, e, f, c>>
             t == todo \o Terminalize
  <2>3. IsList(whole)
    BY Lists
  <2>4. IsList(t) /\ Rest(t, whole) /\ Len(t) >= 4
    <3>1. CASE todo = <<>>
      <4>1. t = script
        BY <1>0, <2>1, <3>1, JoinNone
      <4>2. Rest(script, whole)
        <5>1. Len(script) = 4 /\ Len(whole) = 5
          OBVIOUS
        <5>2. \A i \in 1..4 : script[i] = whole[5 - 4 + i]
          OBVIOUS
        <5> HIDE DEF script, whole
        <5> QED
          BY <5>1, <5>2 DEF Rest
      <4> QED
        BY <1>0, <4>1, <4>2
    <3>2. CASE todo = <<x>>
      <4>1. t = whole
        BY <2>1, <3>2, Join14
      <4>2. Len(whole) = 5
        OBVIOUS
      <4> HIDE DEF whole, t
      <4> QED
        BY <2>3, <4>1, <4>2, RestAll
    <3> QED
      BY <2>2, <3>1, <3>2
  <2>5. Raise(t, code)
    BY DEF Stage
  <2> HIDE DEF t
  <2>6. ProcTypes' /\ proc'.todo = t /\ proc'.next = "raise" /\ proc'.result = code
    BY <2>4, <2>5, RaiseTypes DEF Core
  <2>7. Shape'
    <3>1. Writes(<<x, c, e, f, c>>)'
      BY <2>4, <2>6 DEF Writes, c, e, f
    <3>2. StageWrite(x)'
      BY <2>2 DEF StageWrite, Failure
    <3>3. StageFailed'
      BY <1>2, <3>1, <3>2 DEF StageFailed, IsRunner, c, e, f
    <3> QED
      BY <2>6, <3>3 DEF Shape, Raising
  <2>8. Left' >= 4
    BY <2>4, <2>6 DEF Left
  <2>9. Left' \in Nat
    BY <2>6 DEF ProcTypes, IsList, Left
  <2>10. t = todo \o script
    BY <2>1 DEF t
  <2> QED
    BY <1>2, <2>6, <2>7, <2>8, <2>9, <2>10, NewScript DEF c, e, f
<1> QED
  BY <1>1, <1>2

\* A provider fails, or its outcome is lost.
LEMMA ProviderFailureKeepsCore ==
    ASSUME Core, ~Ended, config.entry # "executor",
           UNCHANGED <<config, stream, view, disk, returned>>, calls' \in [Ops -> Nat],
           NEW x, Failure(x, {Planner, Writer}), NEW code, Raise(<<x>> \o FailedTail, code)
    PROVE  /\ Core' /\ proc'.next = "raise" /\ proc'.result = code
           /\ proc'.todo = <<x, Elapsed, Failed, Checkpoint>>
<1> DEFINE e == Elapsed
           f == Failed
           c == Checkpoint
           s == <<x, e, f, c>>
<1>1. <<x>> \o FailedTail = s
  <2>1. FailedTail = <<e, f, c>>
    BY DEF FailedTail
  <2> HIDE DEF e, f, c
  <2> QED
    BY <2>1, Join13
<1>2. IsList(s) /\ Len(s) = 4
  BY Lists
<1> HIDE DEF s
<1>3. /\ ProcTypes' /\ proc'.todo = s /\ proc'.next = "raise" /\ proc'.result = code
  BY <1>1, <1>2, RaiseTypes DEF Core
<1>4. Shape'
  <2>1. Rest(s, s)
    BY <1>2, RestAll
  <2>2. Writes(<<x, Elapsed, Failed, Checkpoint>>)'
    BY <1>3, <2>1 DEF Writes, s
  <2>3. Failure(x, {Planner, Writer})'
    BY DEF Failure
  <2>4. ProviderFailed'
    BY <2>2, <2>3 DEF ProviderFailed
  <2> QED
    BY <1>3, <2>4 DEF Shape, Raising
<1>5. Left' = 4
  BY <1>2, <1>3 DEF Left
<1>6. Core'
  BY <1>3, <1>4, <1>5, NewScript
<1> QED
  BY <1>3, <1>6 DEF s

\* A call counts once, against its own operation.
LEMMA CallsCounted ==
    ASSUME Core, NEW op \in Ops, Called(op)
    PROVE  /\ calls' \in [Ops -> Nat]
           /\ \A p \in Ops : calls'[p] = IF p = op THEN calls[p] + 1 ELSE calls[p]
BY DEF Core, Durable, Called

\* The planner's answer, its validation and its failures.
LEMMA PlannerKeepsCore == ASSUME Core, PlannerAnswers PROVE Core'
<1>0. /\ Planning /\ ~Ended /\ config.entry = "runner" /\ calls' \in [Ops -> Nat]
      /\ UNCHANGED <<config, stream, view, disk, returned>>
  BY Places, NotEnded, CallsCounted, OpsKnown DEF Core, PlannerAnswers, At, Planning, IsRunner
<1>1. ASSUME NEW x, NEW code, Failure(x, {Planner, Writer}), Raise(<<x>> \o FailedTail, code)
      PROVE  Core'
  BY <1>0, <1>1, ProviderFailureKeepsCore
<1>2. CASE PlannerFails
  <2>1. ASSUME NEW usage \in Usages,
               Raise(<<OperationFailed(Planner, 1, usage, "planner_failed")>> \o FailedTail,
                     "planner_failed")
        PROVE  Core'
    BY <1>1, <2>1 DEF Failure
  <2>2. ASSUME Raise(<<OperationUnknown(Planner, 1)>> \o FailedTail, "outcome_unknown")
        PROVE  Core'
    BY <1>1, <2>2 DEF Failure
  <2> QED
    BY <1>2, <2>1, <2>2 DEF PlannerFails
<1>3. CASE PlannerReturns
  <2>1. PICK plan \in Plans, usage \in Usages :
            IF Unrouted(plan)
            THEN Stage(<<File("plan", plan)>>, "cross_paper_source_selection_mismatch")
            ELSE proc' = [proc EXCEPT
                    !.todo = <<File("plan", plan)>>
                             \o (IF config.allowed = {} THEN <<>> ELSE <<File("routing", plan)>>)
                             \o <<OperationSucceeded(Planner, 1, usage, plan), Elapsed, Checkpoint>>,
                    !.next = "execute", !.plan = plan]
    BY <1>3 DEF PlannerReturns
  <2>2. CASE Unrouted(plan)
    <3> DEFINE x == File("plan", plan)
    <3>1. StageWrite(x)
      BY DEF StageWrite
    <3>2. Stage(<<x>>, "cross_paper_source_selection_mismatch")
      BY <2>1, <2>2
    <3> HIDE DEF x
    <3> QED
      BY <1>0, <3>1, <3>2, StageKeepsCore
  <2>3. CASE ~Unrouted(plan)
    <3> DEFINE a == File("plan", plan)
               r == File("routing", plan)
               s == OperationSucceeded(Planner, 1, usage, plan)
               e == Elapsed
               c == Checkpoint
               t == <<a>> \o (IF config.allowed = {} THEN <<>> ELSE <<r>>) \o <<s, e, c>>
    <3>1. proc' = [proc EXCEPT !.todo = t, !.next = "execute", !.plan = plan]
      BY <2>1, <2>3
    <3> HIDE DEF a, r, s, e, c
    <3>2. t = <<a, s, e, c>> \/ t = <<a, r, s, e, c>>
      <4>1. CASE config.allowed = {}
        <5>1. <<a>> \o <<>> = <<a>>
          BY Lists, JoinNone
        <5> QED
          BY <4>1, <5>1, Join13
      <4>2. CASE config.allowed # {}
        <5>1. <<a>> \o <<r>> = <<a, r>>
          BY Join11
        <5>2. <<a, r>> \o <<s, e, c>> = <<a, r, s, e, c>>
          BY Join23
        <5> QED
          BY <4>2, <5>1, <5>2
      <4> QED
        BY <4>1, <4>2
    <3>3. IsList(t)
      BY <3>2, Lists
    <3> HIDE DEF t
    <3>4. IsPlan(plan)
      <4>1. PICK n \in 1..MaxSubtasks : plan \in [1..n -> Routes]
        BY DEF Plans
      <4>2. plan \in Seq(Routes) /\ Len(plan) = n
        BY <4>1, PlanIsList, PipelineAssumption
      <4> QED
        BY <4>2, PipelineAssumption DEF IsPlan, IsList
    <3>5. /\ proc'.todo = t /\ proc'.next = "execute" /\ proc'.plan = plan
          /\ ProcTypes'
      <4>1. /\ proc'.todo = t /\ proc'.next = "execute" /\ proc'.plan = plan
            /\ proc'.reads = proc.reads /\ proc'.subtask = proc.subtask /\ proc'.last = proc.last
            /\ proc' = [todo |-> proc'.todo, next |-> proc'.next, subtask |-> proc'.subtask,
                  plan |-> proc'.plan, graph |-> proc'.graph, reads |-> proc'.reads,
                  last |-> proc'.last, result |-> proc'.result]
        BY <3>1 DEF Core, ProcTypes
      <4> QED
        BY <3>3, <4>1 DEF Core, ProcTypes
    <3>6. Rest(t, t)
      BY <3>3, RestAll
    <3>7. PlanFile' = a /\ PlanDone(usage)' = s /\ File("routing", proc'.plan) = r
      BY <3>5 DEF PlanFile, PlanDone, a, s, r
    <3>8. \/ Writes(<<PlanFile, PlanDone(usage), Elapsed, Checkpoint>>)'
          \/ Writes(<<PlanFile, File("routing", proc.plan), PlanDone(usage), Elapsed, Checkpoint>>)'
      BY <3>2, <3>5, <3>6, <3>7 DEF Writes, e, c
    <3>9. Shape'
      BY <1>0, <3>4, <3>5, <3>8 DEF Shape, Planned, IsRunner, IsPlan
    <3> QED
      BY <1>0, <3>5, <3>9, NewScript
  <2> QED
    BY <2>2, <2>3
<1> QED
  BY <1>2, <1>3 DEF PlannerAnswers

\* From the plan to the first subtask.
LEMMA StartExecutionKeepsCore == ASSUME Core, StartExecution PROVE Core'
<1>0. /\ Planned /\ ~Ended /\ config.entry = "runner" /\ calls' \in [Ops -> Nat]
      /\ UNCHANGED <<config, stream, view, disk, returned>> /\ proc.todo = <<>>
  BY Places, NotEnded DEF Core, Durable, StartExecution, At, Planned, IsRunner
<1>1. CASE Executable
  <2>1. proc' = [proc EXCEPT !.next = "subtask", !.subtask = 1]
    BY <1>1 DEF StartExecution
  <2>2. /\ proc'.todo = <<>> /\ proc'.next = "subtask" /\ proc'.subtask = 1
        /\ proc'.plan = proc.plan /\ proc'.graph = proc.graph /\ ProcTypes'
    <3>1. /\ proc'.todo = proc.todo /\ proc'.next = "subtask" /\ proc'.subtask = 1
          /\ proc'.plan = proc.plan /\ proc'.graph = proc.graph
          /\ proc'.reads = proc.reads /\ proc'.last = proc.last
          /\ proc' = [todo |-> proc'.todo, next |-> proc'.next, subtask |-> proc'.subtask,
                  plan |-> proc'.plan, graph |-> proc'.graph, reads |-> proc'.reads,
                  last |-> proc'.last, result |-> proc'.result]
      BY <2>1 DEF Core, ProcTypes
    <3> QED
      BY <1>0, <3>1 DEF Core, ProcTypes
  <2>3. IsPlan(proc.plan) /\ Len(proc.plan) \in Nat
    BY <1>0 DEF Planned, IsPlan, IsList
  <2>5. Shape'
    BY <1>0, <2>2, <2>3 DEF Shape, Execution, BetweenSubtasks, IsPlan
  <2> QED
    BY <1>0, <2>2, <2>5, NewScript
<1>2. CASE ~Executable
  <2>1. Stage(<<>>, "plan_not_executable")
    BY <1>2 DEF StartExecution
  <2> QED
    BY <1>0, <2>1, StageKeepsCore
<1> QED
  BY <1>1, <1>2

\* Goto sets what is left to write and the place, and nothing else.
LEMMA GotoTypes ==
    ASSUME ProcTypes, NEW todo, IsList(todo), NEW place, Goto(todo, place)
    PROVE  /\ ProcTypes' /\ proc'.todo = todo /\ proc'.next = place /\ proc'.result = proc.result
           /\ proc'.plan = proc.plan /\ proc'.graph = proc.graph /\ proc'.last = proc.last
           /\ proc'.reads = proc.reads /\ proc'.subtask = proc.subtask
<1>1. /\ proc'.todo = todo /\ proc'.next = place /\ proc'.result = proc.result
      /\ proc'.plan = proc.plan /\ proc'.graph = proc.graph /\ proc'.last = proc.last
      /\ proc'.reads = proc.reads /\ proc'.subtask = proc.subtask
      /\ proc' = [todo |-> proc'.todo, next |-> proc'.next, subtask |-> proc'.subtask,
                  plan |-> proc'.plan, graph |-> proc'.graph, reads |-> proc'.reads,
                  last |-> proc'.last, result |-> proc'.result]
  BY DEF ProcTypes, Goto
<1> QED
  BY <1>1 DEF ProcTypes

\* The configurations' entries and candidate lists, from PipelineAssumption.
LEMMA EntryKnown ==
    ASSUME Core
    PROVE  /\ config.entry \in {"runner", "executor", "writer"}
           /\ \A s \in DOMAIN config.candidates : config.candidates[s] \in Seq(CandidateType)
           /\ config.entry = "runner" => DOMAIN config.candidates = {}
           /\ Nothing \notin CandidateType
BY PipelineAssumption DEF Core, Durable, CandidateType

\* A tool is asked for: its script starts at the place where it is called.
LEMMA AskingKeepsCore ==
    ASSUME Core, ~Ended, config.entry # "writer", IsPlan(proc.plan),
           UNCHANGED <<config, stream, view, disk, calls, returned>>,
           proc.subtask \in 1..Len(proc.plan), NEW place \in {"search", "reading"},
           place = "reading" => proc.reads # <<>>,
           NEW op, op = IF place = "search" THEN Search(proc.subtask) ELSE Reading,
           Goto(DispatchTool(op), place)
    PROVE  /\ Core' /\ proc'.next = place /\ Asked' = op
           /\ \E code \in {"rejected", "budget_exhausted"} : proc'.todo = Asking(op, code)
<1>1. PICK code \in {"rejected", "budget_exhausted"} : DispatchTool(op) = Asking(op, code)
  BY DEF DispatchTool, Dispatch, Asking
<1> DEFINE t == Asking(op, code)
<1>2. IsList(t) /\ Len(t) = 3
  BY Lists DEF Asking
<1> HIDE DEF t
<1>3. /\ ProcTypes' /\ proc'.todo = t /\ proc'.next = place
      /\ proc'.plan = proc.plan /\ proc'.reads = proc.reads /\ proc'.subtask = proc.subtask
  BY <1>1, <1>2, GotoTypes DEF Core, t
<1>4. Asked' = op
  BY <1>3 DEF Asked, Reading
<1>5. Rest(t, t)
  BY <1>2, RestAll
<1>7. UsingTool'
  <2>1. Writes(Asking(Asked, code))'
    BY <1>3, <1>4, <1>5 DEF Writes, t, Asking, Reserve1
  <2> QED
    BY <1>3, <2>1 DEF UsingTool
<1>8. Shape'
  BY <1>3, <1>7 DEF Shape, Execution, IsPlan
<1>9. proc'.next # "raise" /\ calls' \in [Ops -> Nat]
  BY <1>3 DEF Core, Durable
<1>10. Core'
  BY <1>3, <1>8, <1>9, NewScript
<1> QED
  BY <1>3, <1>4, <1>10 DEF t

\* The next subtask's search is dispatched, or the loop ends.
LEMMA StartSubtaskKeepsCore == ASSUME Core, StartSubtask PROVE Core'
<1>0. /\ Execution /\ ~Ended /\ calls' \in [Ops -> Nat] /\ calls' = calls
      /\ UNCHANGED <<config, stream, view, disk, returned>> /\ proc.todo = <<>>
      /\ proc.next = "subtask"
  BY Places, NotEnded DEF Core, Durable, StartSubtask, At, Executing
<1>1. /\ config.entry # "writer" /\ config.entry \in {"runner", "executor"} /\ IsPlan(proc.plan)
      /\ proc.subtask \in 1..Len(proc.plan) + 1 /\ Len(proc.plan) \in Nat
  BY <1>0, EntryKnown DEF Execution, BetweenSubtasks, UsingTool, ToolUsed, Executed, IsPlan, IsList
<1>2. CASE proc.subtask > Len(proc.plan)
  <2> DEFINE t == <<Checkpoint>>
  <2>1. Goto(t, "graph")
    BY <1>1, <1>2 DEF StartSubtask
  <2>2. IsList(t) /\ Rest(t, t)
    BY Lists, RestAll
  <2> HIDE DEF t
  <2>3. /\ ProcTypes' /\ proc'.todo = t /\ proc'.next = "graph"
        /\ proc'.plan = proc.plan /\ proc'.subtask = proc.subtask
    BY <2>1, <2>2, GotoTypes DEF Core
  <2>4. Executed'
    <3>1. Writes(<<Checkpoint>>)'
      BY <2>2, <2>3 DEF Writes, t
    <3> QED
      BY <1>1, <1>2, <2>3, <3>1 DEF Executed
  <2>5. Shape'
    BY <1>0, <1>1, <2>3, <2>4 DEF Shape, Execution, IsPlan
  <2> QED
    BY <1>0, <2>3, <2>5, NewScript
<1>3. CASE proc.subtask <= Len(proc.plan) /\ config.cancelled
  <2>1. Stage(<<>>, "cancelled")
    BY <1>1, <1>3 DEF StartSubtask
  <2> QED
    BY <1>0, <1>1, <2>1, StageKeepsCore
<1>4. CASE proc.subtask <= Len(proc.plan) /\ ~config.cancelled
  <2> DEFINE op == Search(proc.subtask)
             place == "search"
  <2>1. Goto(DispatchTool(op), place)
    BY <1>1, <1>4 DEF StartSubtask
  <2>2. proc.subtask \in 1..Len(proc.plan) /\ place \in {"search", "reading"}
        /\ (place = "reading" => proc.reads # <<>>)
        /\ op = IF place = "search" THEN Search(proc.subtask) ELSE Reading
    BY <1>1, <1>4
  <2> HIDE DEF op, place
  <2> QED
    BY <1>0, <1>1, <2>1, <2>2, AskingKeepsCore
<1> QED
  BY <1>1, <1>2, <1>3, <1>4

\* The next candidate's read is dispatched, or the subtask ends.
LEMMA StartReadKeepsCore == ASSUME Core, StartRead PROVE Core'
<1>0. /\ Execution /\ ~Ended /\ calls' \in [Ops -> Nat] /\ calls' = calls
      /\ UNCHANGED <<config, stream, view, disk, returned>> /\ proc.next = "read"
  BY Places, NotEnded DEF Core, Durable, StartRead, At, Executing
<1>1. /\ config.entry # "writer" /\ config.entry \in {"runner", "executor"} /\ IsPlan(proc.plan)
      /\ proc.subtask \in 1..Len(proc.plan) /\ proc.reads # <<>>
  BY <1>0, EntryKnown DEF Execution, BetweenSubtasks, UsingTool, ToolUsed, Executed
<1>2. CASE Stage(<<>>, "cross_paper_source_selection_mismatch")
  BY <1>0, <1>1, <1>2, StageKeepsCore
<1>3. CASE Goto(DispatchTool(Reading), "reading")
  <2> DEFINE op == Reading
             place == "reading"
  <2>1. Goto(DispatchTool(op), place) /\ place \in {"search", "reading"}
        /\ op = IF place = "search" THEN Search(proc.subtask) ELSE Reading
    BY <1>3
  <2> HIDE DEF op, place
  <2> QED
    BY <1>0, <1>1, <2>1, AskingKeepsCore
<1> QED
  BY <1>2, <1>3 DEF StartRead

\* A tool fails, or its outcome is lost.
LEMMA ToolFailsKeepsCore ==
    ASSUME Core, ~Ended, config.entry \in {"runner", "executor"},
           UNCHANGED <<config, stream, view, disk, returned>>, calls' \in [Ops -> Nat],
           NEW op \in ToolOps, ToolFails(op)
    PROVE  Core' /\ proc'.next = "raise"
<1>1. ASSUME NEW x, NEW code, Failure(x, ToolOps), Stage(<<x>>, code)
      PROVE  Core' /\ proc'.next = "raise"
  <2>1. StageWrite(x) /\ ExecutorWrite(x)
    BY <1>1 DEF StageWrite, ExecutorWrite
  <2> QED
    BY <1>1, <2>1, StageKeepsCore
<1>2. CASE Stage(<<OperationFailed(op, 1, NoUsage, "tool_failure")>>, "tool_failure")
  BY <1>1, <1>2 DEF Failure
<1>3. CASE Stage(<<OperationUnknown(op, 1)>>, "unknown_outcome")
  BY <1>1, <1>3 DEF Failure
<1> QED
  BY <1>2, <1>3 DEF ToolFails

\* What the candidates of a hit are.
LEMMA ChosenTypes ==
    ASSUME Core, NEW hit \in Passages
    PROVE  Chosen(hit) \in Seq(CandidateType)
<1> DEFINE c == Candidate(hit, TRUE)
<1>1. c \in CandidateType
  BY DEF Candidate, CandidateType
<1> HIDE DEF c
<1>2. <<c>> \in Seq(CandidateType)
  BY <1>1
<1> QED
  BY <1>2, EntryKnown DEF Chosen, c

\* The search tool's answer.
LEMMA SearchKeepsCore == ASSUME Core, SearchAnswers PROVE Core'
<1>0. /\ Execution /\ ~Ended /\ UNCHANGED <<config, stream, view, disk, returned>>
      /\ proc.next = "search"
  BY Places, NotEnded DEF Core, SearchAnswers, At, Executing
<1>1. /\ config.entry # "writer" /\ config.entry \in {"runner", "executor"} /\ IsPlan(proc.plan)
      /\ proc.subtask \in 1..Len(proc.plan) /\ proc.subtask \in 1..MaxSubtasks
  BY <1>0, EntryKnown, PipelineAssumption
  DEF Execution, BetweenSubtasks, UsingTool, ToolUsed, Executed, IsPlan, IsList
<1> DEFINE op == Search(proc.subtask)
<1>2. op \in ToolOps /\ op \in Ops
  BY <1>1, OpsKnown
<1>3. calls' \in [Ops -> Nat]
  BY <1>2, CallsCounted DEF SearchAnswers
<1>4. CASE ToolFails(op)
  <2> HIDE DEF op
  <2> QED
    BY <1>0, <1>1, <1>2, <1>3, <1>4, ToolFailsKeepsCore
<1>5. ASSUME NEW code, Stage(ToolSucceeded(op), code) PROVE Core'
  <2> DEFINE x == Found(op)
  <2>1. Stage(<<x>>, code)
    BY <1>5 DEF ToolSucceeded, Found
  <2>2. StageWrite(x) /\ ExecutorWrite(x)
    BY <1>2 DEF StageWrite, ExecutorWrite
  <2> HIDE DEF x
  <2> QED
    BY <1>0, <1>1, <1>3, <2>1, <2>2, StageKeepsCore
<1>6. ASSUME NEW hits \in SUBSET InScope, NEW hit \in Kept(hits),
             proc' = [proc EXCEPT !.todo = ToolSucceeded(op),
                                  !.next = IF Chosen(hit) = <<>> THEN "anchor" ELSE "read",
                                  !.reads = Chosen(hit)]
      PROVE  Core'
  <2> DEFINE t == <<Found(op)>>
             place == IF Chosen(hit) = <<>> THEN "anchor" ELSE "read"
             chosen == Chosen(hit)
  <2>1. hit \in Passages
    BY <1>6 DEF Kept, InScope
  <2>2. chosen \in Seq(CandidateType) /\ (place = "read" => chosen # <<>>)
        /\ place \in {"read", "anchor"}
    BY <2>1, ChosenTypes
  <2>3. IsList(t) /\ Rest(t, t)
    BY Lists, RestAll
  <2>4. proc' = [proc EXCEPT !.todo = t, !.next = place, !.reads = chosen]
    BY <1>6 DEF ToolSucceeded, Found
  <2> HIDE DEF t, place, chosen, op
  <2>5. /\ proc'.todo = t /\ proc'.next = place /\ proc'.reads = chosen
        /\ proc'.plan = proc.plan /\ proc'.subtask = proc.subtask /\ ProcTypes'
    <3>1. /\ proc'.todo = t /\ proc'.next = place /\ proc'.reads = chosen
          /\ proc'.plan = proc.plan /\ proc'.subtask = proc.subtask /\ proc'.last = proc.last
          /\ proc' = [todo |-> proc'.todo, next |-> proc'.next, subtask |-> proc'.subtask,
                  plan |-> proc'.plan, graph |-> proc'.graph, reads |-> proc'.reads,
                  last |-> proc'.last, result |-> proc'.result]
      BY <2>4 DEF Core, ProcTypes
    <3> QED
      BY <2>2, <2>3, <3>1 DEF Core, ProcTypes
  <2>6. Writes(<<Found(Search(proc.subtask))>>)'
    BY <2>3, <2>5 DEF Writes, t, op, Found
  <2>7. ToolUsed'
    BY <1>1, <2>2, <2>5, <2>6 DEF ToolUsed
  <2>8. Shape'
    BY <1>0, <1>1, <2>5, <2>7 DEF Shape, Execution, IsPlan
  <2> QED
    BY <1>0, <1>3, <2>2, <2>5, <2>8, NewScript
<1>7. CASE \E hits \in SUBSET InScope : SearchFinds(hits)
  BY <1>5, <1>6, <1>7 DEF SearchFinds
<1> QED
  BY <1>4, <1>7 DEF SearchAnswers

\* The reading tool's answer.
LEMMA ReadKeepsCore == ASSUME Core, ReadAnswers PROVE Core'
<1>0. /\ Execution /\ ~Ended /\ UNCHANGED <<config, stream, view, disk, returned>>
      /\ proc.next = "reading"
  BY Places, NotEnded DEF Core, ReadAnswers, At, Executing
<1>1. /\ config.entry # "writer" /\ config.entry \in {"runner", "executor"} /\ IsPlan(proc.plan)
      /\ proc.subtask \in 1..Len(proc.plan) /\ proc.subtask \in 1..MaxSubtasks
      /\ proc.reads # <<>> /\ proc.reads \in Seq(CandidateType)
  BY <1>0, EntryKnown, PipelineAssumption
  DEF Execution, BetweenSubtasks, UsingTool, ToolUsed, Executed, IsPlan, IsList, Core, ProcTypes
<1> DEFINE op == Reading
           first == Head(proc.reads)
           rest == Tail(proc.reads)
<1>a. /\ first \in CandidateType /\ first.passage \in Passages
      /\ rest \in Seq(CandidateType) /\ (Len(proc.reads) # 1 => rest # <<>>)
  <2> DEFINE r == proc.reads
             S == CandidateType
  <2>1. r # <<>> /\ r \in Seq(S)
    BY <1>1
  <2> HIDE DEF r, S
  <2>2. Len(r) \in Nat \ {0} /\ Head(r) = r[1] /\ r[1] \in S
    BY <2>1
  <2>3. Tail(r) \in Seq(S) /\ Len(Tail(r)) = Len(r) - 1
    BY <2>1
  <2>4. Len(r) # 1 => Tail(r) # <<>>
    BY <2>2, <2>3
  <2> QED
    BY <2>2, <2>3, <2>4 DEF r, S, CandidateType
<1>2. op \in ToolOps /\ op \in Ops /\ op = Read(proc.subtask, first.passage)
  BY <1>1, <1>a, OpsKnown DEF Reading
<1>3. calls' \in [Ops -> Nat]
  BY <1>2, CallsCounted DEF ReadAnswers
<1>4. CASE ToolFails(op)
  <2> HIDE DEF op
  <2> QED
    BY <1>0, <1>1, <1>2, <1>3, <1>4, ToolFailsKeepsCore
<1>5. ASSUME proc' = [proc EXCEPT !.todo = ToolSucceeded(Reading), !.reads = Tail(@),
                                  !.last = Head(proc.reads),
                                  !.next = IF Len(proc.reads) = 1 THEN "anchor" ELSE "read"]
      PROVE  Core'
  <2> DEFINE t == <<Found(op)>>
             place == IF Len(proc.reads) = 1 THEN "anchor" ELSE "read"
  <2>2. (place = "read" => rest # <<>>) /\ place \in {"read", "anchor"}
    BY <1>a
  <2>3. IsList(t) /\ Rest(t, t)
    BY Lists, RestAll
  <2>4. proc' = [proc EXCEPT !.todo = t, !.next = place, !.reads = rest, !.last = first]
    <3>1. ToolSucceeded(Reading) = t
      BY DEF ToolSucceeded, Found
    <3> QED
      BY <1>5, <3>1 DEF Core, ProcTypes
  <2> HIDE DEF t, place, op, first, rest
  <2>5. /\ proc'.todo = t /\ proc'.next = place /\ proc'.reads = rest /\ proc'.last = first
        /\ proc'.plan = proc.plan /\ proc'.subtask = proc.subtask /\ ProcTypes'
    <3>1. /\ proc'.todo = t /\ proc'.next = place /\ proc'.reads = rest /\ proc'.last = first
          /\ proc'.plan = proc.plan /\ proc'.subtask = proc.subtask
          /\ proc' = [todo |-> proc'.todo, next |-> proc'.next, subtask |-> proc'.subtask,
                  plan |-> proc'.plan, graph |-> proc'.graph, reads |-> proc'.reads,
                  last |-> proc'.last, result |-> proc'.result]
      BY <2>4 DEF Core, ProcTypes
    <3> QED
      BY <1>a, <2>3, <3>1 DEF Core, ProcTypes
  <2>6. Writes(<<Found(Read(proc.subtask, proc.last.passage))>>)'
    BY <1>2, <2>3, <2>5 DEF Writes, t, Found
  <2>7. ToolUsed'
    <3>1. first # Nothing
      BY <1>a, EntryKnown
    <3> QED
      BY <1>1, <2>2, <2>5, <2>6, <3>1 DEF ToolUsed
  <2>8. Shape'
    BY <1>0, <1>1, <2>5, <2>7 DEF Shape, Execution, IsPlan
  <2> QED
    BY <1>0, <1>3, <2>2, <2>5, <2>8, NewScript
<1> QED
  BY <1>4, <1>5 DEF ReadAnswers

\* The passage is anchored, or the executor gives up on it.
LEMMA AnchorKeepsCore == ASSUME Core, Anchor PROVE Core'
<1>0. /\ Execution /\ ~Ended /\ UNCHANGED <<config, stream, view, disk, returned>>
      /\ proc.next = "anchor" /\ calls' \in [Ops -> Nat] /\ proc.todo = <<>>
  BY Places, NotEnded DEF Core, Durable, Anchor, At, Executing
<1>1. /\ config.entry # "writer" /\ config.entry \in {"runner", "executor"} /\ IsPlan(proc.plan)
      /\ proc.subtask \in 1..Len(proc.plan) /\ Len(proc.plan) \in Nat
  BY <1>0, EntryKnown DEF Execution, BetweenSubtasks, UsingTool, ToolUsed, Executed, IsPlan, IsList
<1>2. CASE Raise(<<>>, "unbound_local")
  <2>1. /\ ProcTypes' /\ proc'.todo = <<>> /\ proc'.next = "raise"
        /\ proc'.result = "unbound_local"
    BY <1>2, Lists, RaiseTypes DEF Core
  <2>2. Shape'
    BY <2>1 DEF Shape, Raising, Unexpected
  <2>3. "unbound_local" \notin StageCodes
    BY DEF StageCodes
  <2> QED
    BY <1>0, <2>1, <2>2, <2>3, NewScript
<1>3. CASE Stage(<<>>, "evidence_anchor_not_found")
  BY <1>0, <1>1, <1>3, StageKeepsCore
<1>4. CASE proc' = [proc EXCEPT !.next = "subtask", !.subtask = @ + 1,
                                !.graph = Append(@, Unit(proc.last))]
  <2>1. /\ proc'.todo = proc.todo /\ proc'.next = "subtask" /\ proc'.subtask = proc.subtask + 1
        /\ proc'.plan = proc.plan /\ proc'.reads = proc.reads /\ proc'.last = proc.last
        /\ proc' = [todo |-> proc'.todo, next |-> proc'.next, subtask |-> proc'.subtask,
                  plan |-> proc'.plan, graph |-> proc'.graph, reads |-> proc'.reads,
                  last |-> proc'.last, result |-> proc'.result]
    BY <1>4 DEF Core, ProcTypes
  <2>2. ProcTypes'
    BY <1>1, <2>1 DEF Core, ProcTypes
  <2>3. proc'.subtask \in 1..Len(proc.plan) + 1
    BY <1>1, <2>1
  <2>4. Shape'
    BY <1>0, <1>1, <2>1, <2>3 DEF Shape, Execution, BetweenSubtasks, IsPlan
  <2> QED
    BY <1>0, <2>1, <2>2, <2>4, NewScript
<1> QED
  BY <1>2, <1>3, <1>4 DEF Anchor

\* The coverage is assessed once the subtasks are done.
LEMMA AssessKeepsCore == ASSUME Core, Assess PROVE Core'
<1>0. /\ Execution /\ ~Ended /\ UNCHANGED <<config, stream, view, disk, calls>>
      /\ proc.next = "graph" /\ calls' \in [Ops -> Nat] /\ proc.todo = <<>>
  BY Places, NotEnded DEF Core, Durable, Assess, At, Executing
<1>1. CASE config.entry = "executor" /\ Give([kind |-> "graph", value |-> proc.graph])
  BY <1>0, <1>1, IdleKeepsCore DEF Give
<1>2. CASE config.entry = "runner" /\ UNCHANGED returned
  <2>1. ASSUME NEW code, Stage(<<>>, code) PROVE Core'
    BY <1>0, <1>2, <2>1, StageKeepsCore
  <2>2. ASSUME Goto(Assessed(Gaps(proc.graph, config.minSources)), "writer") PROVE Core'
    <3> DEFINE t == Assessed(Gaps(proc.graph, config.minSources))
    <3>1. IsList(t)
      BY Lists DEF Assessed
    <3>2. Goto(t, "writer")
      BY <2>2
    <3>3. t = <<GraphFile, File("assessment", Assessment), References>>
      BY DEF Assessed, GraphFile, Assessment, References
    <3> HIDE DEF t
    <3>4. /\ ProcTypes' /\ proc'.todo = t /\ proc'.next = "writer" /\ proc'.graph = proc.graph
      BY <3>1, <3>2, GotoTypes DEF Core
    <3>5. Rest(t, t)
      BY <3>1, RestAll
    <3>6. Writes(<<GraphFile, File("assessment", Assessment), References>>)'
      BY <1>0, <3>3, <3>4, <3>5 DEF Writes, GraphFile, Assessment, References
    <3>7. Shape'
      BY <1>0, <1>2, <3>4, <3>6 DEF Shape, Assessing, IsRunner
    <3> QED
      BY <1>0, <1>2, <3>4, <3>7, NewScript
  <2> QED
    BY <1>2, <2>1, <2>2 DEF Assess
<1> QED
  BY <1>1, <1>2 DEF Assess

\* An answer other than a graph ends the call.
LEMMA GiveKeepsCore ==
    ASSUME Core, UNCHANGED <<config, stream, view, disk, calls>>, NEW answer, Give(answer),
           answer.kind # "graph"
    PROVE  Core'
<1>1. Answered("graph")' = Answered("graph")
  BY DEF Answered, Give
<1> QED
  BY <1>1, IdleKeepsCore DEF Give, Core, Statuses

\* A refusal, an error and a report are not a graph.
LEMMA NoGraph ==
    /\ \A code : (Error(code)).kind = "error" /\ (Error(code)).value = code
    /\ \A status : (Report(status)).kind = "report" /\ (Report(status)).value = status
BY DEF Error, Report

\* The events that start a run, and the rest of them from each status on, put
\* the writer at some point of the one script that calls it.
LEMMA WriterOpens ==
    ASSUME Core, view.status \in Admissible
    PROVE  LET t == WriterPreamble \o Dispatch(Writer, "budget_exhausted")
               whole == Opening(Writer, "budget_exhausted")
           IN  IsList(t) /\ IsList(whole) /\ Rest(t, whole) /\ Len(t) >= 3
<1> DEFINE r == RunStarted
           a == Approve
           b == Begin
           x == Reserve1(Writer)
           y == Reduce("budget_exhausted")
           z == OperationDispatched(Writer, 1)
           t == WriterPreamble \o Dispatch(Writer, "budget_exhausted")
           whole == <<r, a, b, x, y, z>>
<1>1. /\ Dispatch(Writer, "budget_exhausted") = <<x, y, z>>
      /\ Opening(Writer, "budget_exhausted") = whole
      /\ RunStartedEvents = <<r, a, b>>
  BY DEF Dispatch, Opening, RunStartedEvents, Approve, Begin
<1>2. Tail(RunStartedEvents) = <<a, b>> /\ RunStartedEvents[3] = b
  <2> HIDE DEF r, a, b
  <2> QED
    BY <1>1
<1>3. t = ((IF stream = <<>> THEN <<r>> ELSE <<>>)
           \o (IF view.status = "brief_pending" THEN <<a, b>>
               ELSE IF view.status = "brief_approved" THEN <<b>> ELSE <<>>)) \o <<x, y, z>>
  BY <1>1, <1>2 DEF WriterPreamble
<1>4. stream = <<>> => view.status = "brief_pending"
  BY DEF Core, Durable, InitialView
<1> HIDE DEF r, a, b, x, y, z, t
<1>5. IsList(<<>>) /\ IsList(<<r>>) /\ IsList(<<b>>) /\ IsList(<<a, b>>) /\ IsList(<<x, y, z>>)
  BY Lists
<1>6. \/ t = <<r, a, b, x, y, z>> \/ t = <<a, b, x, y, z>> \/ t = <<b, x, y, z>>
      \/ t = <<x, y, z>>
  <2>1. CASE stream = <<>>
    <3>1. <<r>> \o <<a, b>> = <<r, a, b>>
      BY Join12
    <3>2. <<r, a, b>> \o <<x, y, z>> = <<r, a, b, x, y, z>>
      BY Join33
    <3>3. t = (<<r>> \o <<a, b>>) \o <<x, y, z>>
      BY <1>3, <1>4, <2>1
    <3> QED
      BY <3>1, <3>2, <3>3
  <2>2. CASE stream # <<>> /\ view.status = "brief_pending"
    <3>1. <<>> \o <<a, b>> = <<a, b>>
      BY <1>5, JoinNone
    <3> QED
      BY <1>3, <2>2, <3>1, Join23
  <2>3. CASE stream # <<>> /\ view.status = "brief_approved"
    <3>1. <<>> \o <<b>> = <<b>>
      BY <1>5, JoinNone
    <3> QED
      BY <1>3, <2>3, <3>1, Join13
  <2>4. CASE stream # <<>> /\ view.status = "researching"
    <3>1. <<>> \o <<>> = <<>>
      BY <1>5, JoinNone
    <3>2. <<>> \o <<x, y, z>> = <<x, y, z>>
      BY <1>5, JoinNone
    <3> QED
      BY <1>3, <2>4, <3>1, <3>2
  <2> QED
    BY <2>1, <2>2, <2>3, <2>4 DEF Admissible
<1>7. \A s \in {<<r, a, b, x, y, z>>, <<a, b, x, y, z>>, <<b, x, y, z>>, <<x, y, z>>} :
          /\ IsList(s) /\ Len(s) \in 3..6
          /\ \A i \in 1..Len(s) : s[i] = whole[6 - Len(s) + i]
  <2>1. IsList(<<r, a, b, x, y, z>>) /\ IsList(<<a, b, x, y, z>>) /\ IsList(<<b, x, y, z>>)
    BY Lists
  <2>2. /\ whole[1] = r /\ whole[2] = a /\ whole[3] = b /\ whole[4] = x /\ whole[5] = y
        /\ whole[6] = z
    OBVIOUS
  <2> HIDE DEF whole
  <2>3. LET s == <<x, y, z>> IN Len(s) \in 3..6 /\ \A i \in 1..Len(s) : s[i] = whole[6 - Len(s) + i]
    BY <2>2
  <2>4. LET s == <<b, x, y, z>> IN Len(s) \in 3..6 /\ \A i \in 1..Len(s) : s[i] = whole[6 - Len(s) + i]
    BY <2>2
  <2>5. LET s == <<a, b, x, y, z>> IN Len(s) \in 3..6 /\ \A i \in 1..Len(s) : s[i] = whole[6 - Len(s) + i]
    BY <2>2
  <2>6. LET s == <<r, a, b, x, y, z>>
        IN  Len(s) \in 3..6 /\ \A i \in 1..Len(s) : s[i] = whole[6 - Len(s) + i]
    BY <2>2
  <2> DEFINE Fits(s) == /\ IsList(s) /\ Len(s) \in 3..6
                        /\ \A i \in 1..Len(s) : s[i] = whole[6 - Len(s) + i]
  <2>7. Fits(<<r, a, b, x, y, z>>) /\ Fits(<<a, b, x, y, z>>)
    BY <2>1, <2>5, <2>6
  <2>8. Fits(<<b, x, y, z>>) /\ Fits(<<x, y, z>>)
    BY <1>5, <2>1, <2>3, <2>4
  <2> HIDE DEF Fits
  <2>9. \A s \in {<<r, a, b, x, y, z>>, <<a, b, x, y, z>>, <<b, x, y, z>>, <<x, y, z>>} : Fits(s)
    BY <2>7, <2>8
  <2> QED
    BY <2>9 DEF Fits
<1>8. Len(whole) = 6 /\ IsList(whole)
  BY Lists
<1>9. t \in {<<r, a, b, x, y, z>>, <<a, b, x, y, z>>, <<b, x, y, z>>, <<x, y, z>>}
  BY <1>6
<1>10. IsList(t) /\ Len(t) \in 3..6 /\ \A i \in 1..Len(t) : t[i] = whole[6 - Len(t) + i]
  BY <1>7, <1>9
<1> HIDE DEF whole
<1>11. IsList(t) /\ Rest(t, whole) /\ Len(t) >= 3
  <2> DEFINE n == Len(t)
             m == Len(whole)
  <2>0. n \in 3..6 /\ m = 6 /\ \A i \in 1..n : t[i] = whole[6 - n + i]
    BY <1>8, <1>10
  <2> HIDE DEF n, m
  <2>1. n <= m /\ n >= 3
    BY <2>0
  <2>2. \A i \in 1..n : t[i] = whole[m - n + i]
    BY <2>0
  <2> QED
    BY <1>10, <2>1, <2>2 DEF Rest, n, m
<1> QED
  BY <1>1, <1>8, <1>11 DEF t, x, y, z

\* The writer's entry: a replay, a refusal or the dispatch of its one call.
LEMMA EnterWriterKeepsCore == ASSUME Core, EnterWriter PROVE Core'
<1>0. /\ Assessing /\ UNCHANGED <<config, stream, view, disk, calls>> /\ proc.todo = <<>>
      /\ config.entry # "executor" /\ calls' \in [Ops -> Nat]
  BY Places DEF Core, Durable, EnterWriter, At, Assessing
<1>1. ASSUME NEW answer, Give(answer), answer.kind # "graph" PROVE Core'
  BY <1>0, <1>1, GiveKeepsCore
<1>2. CASE WriterAdmitted /\ UNCHANGED returned
  <2>1. CASE view.status \in Admissible
    <3> DEFINE t == WriterPreamble \o Dispatch(Writer, "budget_exhausted")
               whole == Opening(Writer, "budget_exhausted")
    <3>1. Goto(t, "writing")
      BY <1>2, <2>1 DEF WriterAdmitted
    <3>2. IsList(t) /\ Rest(t, whole)
      BY <2>1, WriterOpens
    <3> HIDE DEF t, whole
    <3>3. ProcTypes' /\ proc'.todo = t /\ proc'.next = "writing"
      BY <3>1, <3>2, GotoTypes DEF Core
    <3>4. Shape'
      <4>1. Writes(Opening(Writer, "budget_exhausted"))'
        BY <3>2, <3>3 DEF Writes, whole, Opening, Reserve1
      <4> QED
        BY <1>0, <3>3, <4>1 DEF Shape, Writing
    <3>5. ~Ended
      BY <2>1 DEF Admissible, Ended, TERMINAL
    <3> QED
      BY <1>0, <1>2, <3>3, <3>4, <3>5, NewScript
  <2>2. CASE view.status \notin Admissible
    <3>1. Raise(<<>>, "writer_not_admissible")
      BY <1>2, <2>2 DEF WriterAdmitted
    <3>2. ProcTypes' /\ proc'.todo = <<>> /\ proc'.next = "raise"
          /\ proc'.result = "writer_not_admissible"
      BY <3>1, Lists, RaiseTypes DEF Core
    <3>3. Shape' /\ NoEvent'
      BY <3>2 DEF Shape, Raising, Unexpected, NoEvent
    <3>4. "writer_not_admissible" \notin StageCodes
      BY DEF StageCodes
    <3> QED
      BY <1>0, <1>2, <3>2, <3>3, <3>4, NewScript
  <2> QED
    BY <2>1, <2>2
<1> QED
  BY <1>1, <1>2, NoGraph DEF EnterWriter, Refuse

\* The writer's answer, its validation and its failures.
LEMMA WriterKeepsCore == ASSUME Core, WriterAnswers PROVE Core'
<1>0. /\ Writing /\ ~Ended /\ config.entry # "executor" /\ calls' \in [Ops -> Nat]
      /\ UNCHANGED <<config, stream, view, disk, returned>>
  BY Places, NotEnded, CallsCounted, OpsKnown DEF Core, WriterAnswers, At, Writing
<1>1. ASSUME NEW x, NEW code, Failure(x, {Planner, Writer}), Raise(<<x>> \o FailedTail, code)
      PROVE  Core'
  BY <1>0, <1>1, ProviderFailureKeepsCore
<1>2. ASSUME NEW usage, NEW code,
             Raise(<<OperationFailed(Writer, 1, usage, code)>> \o FailedTail, code)
      PROVE  Core'
  BY <1>1, <1>2 DEF Failure
\* The process returns: what it writes before is one of two scripts.
<1>3. ASSUME NEW t, IsList(t), NEW status,
             proc' = [proc EXCEPT !.todo = t, !.next = "return", !.result = status],
             \/ \E usage : t = WriterSettled(usage, status)
             \/ /\ t = <<OperationUnknown(Writer, 1), Elapsed, Failed, Checkpoint>>
                /\ status = "manual_review_required"
      PROVE  Core'
  <2>1. /\ proc'.todo = t /\ proc'.next = "return" /\ proc'.result = status /\ ProcTypes'
    <3>1. /\ proc'.todo = t /\ proc'.next = "return" /\ proc'.result = status
          /\ proc'.reads = proc.reads /\ proc'.subtask = proc.subtask /\ proc'.last = proc.last
          /\ proc' = [todo |-> proc'.todo, next |-> proc'.next, subtask |-> proc'.subtask,
                  plan |-> proc'.plan, graph |-> proc'.graph, reads |-> proc'.reads,
                  last |-> proc'.last, result |-> proc'.result]
      BY <1>3 DEF Core, ProcTypes
    <3> QED
      BY <1>3, <3>1 DEF Core, ProcTypes
  <2>2. Rest(t, t)
    BY <1>3, RestAll
  <2>3. Written' \/ WriterLost'
    <3>1. ASSUME NEW usage, t = WriterSettled(usage, status) PROVE Written'
      <4>1. Writes(WriterSettled(usage, proc.result))'
        BY <2>1, <2>2, <3>1 DEF Writes
      <4>2. Len(t) = 5
        BY <3>1 DEF WriterSettled
      <4> QED
        BY <1>0, <2>1, <4>1, <4>2 DEF Written
    <3>2. CASE /\ t = <<OperationUnknown(Writer, 1), Elapsed, Failed, Checkpoint>>
               /\ status = "manual_review_required"
      <4>1. Writes(<<OperationUnknown(Writer, 1), Elapsed, Failed, Checkpoint>>)'
        BY <2>1, <2>2, <3>2 DEF Writes
      <4> QED
        BY <1>0, <2>1, <3>2, <4>1 DEF WriterLost
    <3> QED
      BY <1>3, <3>1, <3>2
  <2>4. Shape'
    BY <2>3 DEF Shape
  <2> QED
    BY <1>0, <2>1, <2>4, NewScript
<1>4. CASE WriterFails
  <2>1. CASE \E usage \in Usages :
                 Raise(<<OperationFailed(Writer, 1, usage, "writer_failed")>> \o FailedTail,
                       "writer_failed")
    BY <1>2, <2>1
  <2>2. CASE proc' = [proc EXCEPT !.todo = <<OperationUnknown(Writer, 1)>> \o FailedTail,
                                  !.next = "return", !.result = "manual_review_required"]
    <3> DEFINE x == OperationUnknown(Writer, 1)
               e == Elapsed
               f == Failed
               c == Checkpoint
               t == <<x, e, f, c>>
    <3>1. FailedTail = <<e, f, c>>
      BY DEF FailedTail
    <3> HIDE DEF x, e, f, c
    <3>2. <<x>> \o FailedTail = t /\ IsList(t)
      BY <3>1, Join13, Lists
    <3>3. proc' = [proc EXCEPT !.todo = t, !.next = "return", !.result = "manual_review_required"]
      BY <2>2, <3>2 DEF x
    <3>4. t = <<OperationUnknown(Writer, 1), Elapsed, Failed, Checkpoint>>
      BY DEF x, e, f, c
    <3> HIDE DEF t
    <3> QED
      BY <1>3, <3>2, <3>3, <3>4
  <2> QED
    BY <1>4, <2>1, <2>2 DEF WriterFails
<1>5. ASSUME NEW usage, NEW status,
             proc' = [proc EXCEPT !.todo = WriterSettled(usage, status),
                                  !.next = "return", !.result = status]
      PROVE  Core'
  <2> DEFINE t == WriterSettled(usage, status)
  <2>1. IsList(t)
    BY Lists DEF WriterSettled
  <2>2. \E u : t = WriterSettled(u, status)
    OBVIOUS
  <2>3. proc' = [proc EXCEPT !.todo = t, !.next = "return", !.result = status]
    BY <1>5
  <2> HIDE DEF t
  <2> QED
    BY <1>3, <2>1, <2>2, <2>3
<1>6. CASE WriterReturns
  BY <1>2, <1>5, <1>6 DEF WriterReturns
<1> QED
  BY <1>4, <1>6 DEF WriterAnswers

\* A process that starts at a place: what Run leaves in proc.
LEMMA EntersKeepsCore ==
    ASSUME Core, UNCHANGED <<config, stream, view, disk, calls, returned>>,
           NEW todo, IsList(todo), NEW place, place # "raise", NEW n \in Nat, NEW plan, NEW graph,
           proc' = [todo |-> todo, next |-> place, subtask |-> n, plan |-> plan, graph |-> graph,
                    reads |-> <<>>, last |-> Nothing, result |-> "none"],
           Shape', Ended => place = "writer" /\ todo = <<>>
    PROVE  Core'
<1>1. /\ proc'.todo = todo /\ proc'.next = place /\ proc'.subtask = n /\ proc'.plan = plan
      /\ proc'.graph = graph /\ proc'.reads = <<>> /\ proc'.last = Nothing
      /\ proc'.result = "none"
  OBVIOUS
<1>2. ProcTypes'
  BY <1>1 DEF ProcTypes
<1>3. todo = <<>> => NoEvent'
  BY <1>1 DEF NoEvent
<1>4. calls' \in [Ops -> Nat]
  BY DEF Core, Durable
<1> QED
  BY <1>1, <1>2, <1>3, <1>4, NewScript

\* A call of run() whose stage fails before anything is called.
LEMMA ResumeKeepsCore ==
    ASSUME Core, Idling, IsRunner, UNCHANGED <<config, stream, view, disk, calls>>,
           SucceededIn(Writer) = {}, ResumeAtWriter
    PROVE  Core'
<1>1. CASE Refuse("artifacts_missing")
  BY <1>1, NoGraph, GiveKeepsCore DEF Refuse
<1>2. CASE UNCHANGED returned /\ proc' = [Idle EXCEPT !.next = "writer", !.plan = StoredPlan,
                                                      !.graph = disk["graph"]]
  <2> DEFINE p == StoredPlan
             g == disk["graph"]
  <2>1. proc' = [todo |-> <<>>, next |-> "writer", subtask |-> 0, plan |-> p, graph |-> g,
                 reads |-> <<>>, last |-> Nothing, result |-> "none"]
    BY <1>2 DEF Idle
  <2> HIDE DEF p, g
  <2>2. Shape'
    BY <2>1 DEF Shape, Assessing, IsRunner
  <2> QED
    BY <1>2, <2>1, <2>2, Lists, EntersKeepsCore
<1>3. CASE UNCHANGED returned /\ Stage(<<>>, "cross_paper_source_selection_mismatch")
  <2>1. CASE ~Ended
    BY <1>3, <2>1, StageKeepsCore DEF Core, Durable, IsRunner
  <2>2. CASE Ended
    <3> DEFINE c == Checkpoint
               t == <<c, c>>
               code == "cross_paper_source_selection_mismatch"
    <3>1. view.status = "failed"
      BY <2>2 DEF Core, Statuses, Ended, Conclusions, TERMINAL
    <3>2. Terminalize = t
      BY <2>2, TerminalizeIs DEF Ended, IsRunner
    <3> HIDE DEF c
    <3>3. IsList(t) /\ Len(t) = 2 /\ t[1] = c /\ t[2] = c
      BY Lists
    <3> HIDE DEF t
    <3>4. Raise(t, code)
      BY <1>3, <3>2, <3>3, JoinNone DEF Stage
    <3> HIDE DEF code
    <3>5. ProcTypes' /\ proc'.todo = t /\ proc'.next = "raise" /\ proc'.result = code
      BY <3>3, <3>4, RaiseTypes DEF Core
    <3>6. FailedBefore'
      <4>1. Rest(t, t)
        BY <3>3, RestAll
      <4>2. Writes(<<Checkpoint, Checkpoint>>)'
        BY <3>5, <4>1 DEF Writes, t, c
      <4> QED
        BY <3>1, <4>2 DEF FailedBefore, IsRunner
    <3>7. Shape' /\ Left' = 2
      BY <3>3, <3>5, <3>6 DEF Shape, Raising, Left
    <3>8. NoEvent'
      <4>1. c.type = "reduce"
        BY DEF c, Checkpoint, Reduce
      <4>2. \A i \in 1..Len(t) : t[i] = c
        BY <3>3
      <4> QED
        BY <3>5, <4>1, <4>2 DEF NoEvent
    <3>9. calls' \in [Ops -> Nat]
      BY DEF Core, Durable
    <3> QED
      BY <1>3, <3>5, <3>7, <3>8, <3>9, NewScript
  <2> QED
    BY <2>1, <2>2
<1> QED
  BY <1>1, <1>2, <1>3 DEF ResumeAtWriter

\* A new invocation, fresh or on a stream an earlier one left.
LEMMA RunKeepsCore == ASSUME Core, Run PROVE Core'
<1>0. Idling /\ UNCHANGED <<config, stream, view, disk, calls>> /\ (stream = <<>> => ~Ended)
  BY DEF Run, Idling, Core, Durable, InitialView, Ended, TERMINAL
<1>1. ASSUME NEW answer, Give(answer), answer.kind # "graph" PROVE Core'
  BY <1>0, <1>1, GiveKeepsCore
<1>2. CASE RunComposed
  <2>1. CASE SucceededIn(Planner) # {} /\ SucceededIn(Writer) = {} /\ ResumeAtWriter
    BY <1>0, <1>2, <2>1, ResumeKeepsCore DEF RunComposed, IsRunner
  <2>2. CASE stream = <<>> /\ UNCHANGED returned
             /\ Enter(RunStartedEvents \o Dispatch(Planner, "rejected"), "planning")
    <3> DEFINE r == RunStarted
               a == Approve
               b == Begin
               x == Reserve1(Planner)
               y == Reduce("rejected")
               z == OperationDispatched(Planner, 1)
               t == <<r, a, b, x, y, z>>
    <3>1. /\ Dispatch(Planner, "rejected") = <<x, y, z>> /\ RunStartedEvents = <<r, a, b>>
          /\ Opening(Planner, "rejected") = t
      BY DEF Dispatch, RunStartedEvents, Approve, Begin, Opening
    <3> HIDE DEF r, a, b, x, y, z
    <3>2. RunStartedEvents \o Dispatch(Planner, "rejected") = t
      <4>1. <<r, a, b>> \o <<x, y, z>> = <<r, a, b, x, y, z>>
        BY Join33
      <4> QED
        BY <3>1, <4>1
    <3>3. IsList(t)
      BY Lists
    <3> HIDE DEF t
    <3>4. proc' = [todo |-> t, next |-> "planning", subtask |-> 0, plan |-> <<>>, graph |-> <<>>,
                   reads |-> <<>>, last |-> Nothing, result |-> "none"]
      BY <2>2, <3>2 DEF Enter, Idle
    <3>5. Shape'
      <4>1. Rest(t, t)
        BY <3>3, RestAll
      <4>2. proc'.todo = t /\ proc'.next = "planning"
        BY <3>4
      <4>3. Writes(Opening(Planner, "rejected"))'
        BY <3>1, <4>1, <4>2 DEF Writes, Opening, Reserve1
      <4>4. IsRunner'
        BY <1>0, <1>2 DEF RunComposed, IsRunner
      <4> QED
        BY <4>2, <4>3, <4>4 DEF Shape, Planning
    <3> QED
      BY <1>0, <2>2, <3>3, <3>4, <3>5, EntersKeepsCore
  <2> QED
    BY <1>1, <1>2, <2>1, <2>2, NoGraph DEF RunComposed, Refuse
<1>3. CASE RunExecutor
  <2>1. CASE Executable
    <3> DEFINE t == ExecutionWrites
               p == config.plan
    <3>1. proc' = [todo |-> t, next |-> "subtask", subtask |-> 1, plan |-> p, graph |-> <<>>,
                   reads |-> <<>>, last |-> Nothing, result |-> "none"]
      BY <1>3, <2>1 DEF RunExecutor, Idle
    <3>2. t = <<>> \/ t = <<RunStarted, Approve, Begin>>
      BY DEF ExecutionWrites, RunStartedEvents, Approve, Begin
    <3>3. IsList(t)
      BY <3>2, Lists
    <3>4. IsPlan(p) /\ Len(p) \in Nat
      BY PipelineAssumption DEF Core, Durable, IsPlan, IsList
    <3> HIDE DEF t, p
    <3>5. /\ proc'.todo = t /\ proc'.next = "subtask" /\ proc'.subtask = 1 /\ proc'.plan = p
      BY <3>1
    <3>6. Shape'
      <4>1. Rest(t, t)
        BY <3>3, RestAll
      <4>2. proc'.todo = <<>> \/ Writes(<<RunStarted, Approve, Begin>>)'
        BY <3>2, <3>5, <4>1 DEF Writes
      <4>3. BetweenSubtasks' /\ config'.entry = "executor"
        BY <1>0, <1>3, <3>4, <3>5, <4>2 DEF RunExecutor, BetweenSubtasks
      <4>4. IsPlan(proc.plan)'
        BY <3>4, <3>5 DEF IsPlan
      <4> QED
        BY <4>3, <4>4 DEF Shape, Execution
    <3>7. ~Ended
      BY <1>0, <2>1 DEF Executable, Ended, TERMINAL
    <3>8. UNCHANGED returned
      BY <1>3, <2>1 DEF RunExecutor
    <3> QED
      BY <1>0, <3>1, <3>3, <3>6, <3>7, <3>8, EntersKeepsCore
  <2>2. CASE ~Executable
    BY <1>1, <1>3, <2>2, NoGraph DEF RunExecutor, Refuse
  <2> QED
    BY <2>1, <2>2
<1>4. CASE RunWriter
  <2> DEFINE p == config.plan
             g == config.graph
  <2>1. proc' = [todo |-> <<>>, next |-> "writer", subtask |-> 0, plan |-> p, graph |-> g,
                 reads |-> <<>>, last |-> Nothing, result |-> "none"]
    BY <1>4 DEF RunWriter, Idle
  <2> HIDE DEF p, g
  <2>2. Shape'
    <3>1. config'.entry = "writer"
      BY <1>0, <1>4 DEF RunWriter
    <3> QED
      BY <2>1, <3>1 DEF Shape, Assessing
  <2>3. UNCHANGED returned
    BY <1>4 DEF RunWriter
  <2> QED
    BY <1>0, <2>1, <2>2, <2>3, Lists, EntersKeepsCore
<1> QED
  BY <1>2, <1>3, <1>4 DEF Run

\* A replan is only admitted where an execution has given its graph.
LEMMA ReplanKeepsCore ==
    ASSUME Core, ApplyReplan
    PROVE  /\ Core' /\ Idling /\ config.entry = "executor" /\ proc' = proc
           /\ \E ordinal \in 0..view.ledger.replans :
                 /\ ~Decided(ordinal) /\ CanRecordReplan(view.ledger, config.spec)
                 /\ stream' = Append(stream, ReplanDecided(Planner, ordinal, TRUE))
                 /\ view'.ok /\ view'.status = view.status
                 /\ Stays(view, view') /\ view'.ledger.replans = view.ledger.replans + 1
<1>1. PICK ordinal \in 0..view.ledger.replans :
          /\ ReplanAllowed(ordinal) /\ ~Decided(ordinal)
          /\ CanRecordReplan(view.ledger, config.spec)
          /\ Write(ReplanDecided(Planner, ordinal, TRUE))
  BY DEF ApplyReplan
<1> DEFINE e == ReplanDecided(Planner, ordinal, TRUE)
<1>2. /\ proc = Idle /\ view.ok /\ proc' = proc /\ UNCHANGED <<config, disk, calls, returned>>
      /\ stream' = Append(stream, e) /\ view' = ReduceEvent(view, e, config.spec)
  BY <1>1 DEF ApplyReplan, Write
<1>3. /\ Stays(view, view') /\ view'.ok /\ view'.status = view.status
      /\ view'.ledger.replans = view.ledger.replans + 1
  <2> DEFINE v == view
             w == view'
             spec == config.spec
  <2>1. /\ ViewForm(v) /\ v.ok /\ CanRecordReplan(v.ledger, spec)
        /\ w = ReduceEvent(v, ReplanDecided(Planner, ordinal, TRUE), spec)
    BY <1>1, <1>2 DEF Core, Durable
  <2> HIDE DEF v, w, spec
  <2>2. w = [v EXCEPT !.ledger = RecordReplan(v.ledger)]
    BY <2>1 DEF ReduceEvent, ReduceReplan, ReplanDecided
  <2>3. /\ Stays(v, w) /\ w.ok /\ w.status = v.status
        /\ w.ledger.replans = v.ledger.replans + 1
    BY <2>1, <2>2, ReplanStays
  <2> QED
    BY <2>3 DEF v, w
<1>4. config.entry = "executor"
  BY <1>1 DEF ReplanAllowed, Core, Statuses, Answered
<1> HIDE DEF e
<1>5. Events' = Events \cup {e} /\ IsList(stream') /\ stream' # <<>>
  BY <1>2, EventsGrow DEF Core, Durable
<1>6. ~Ended /\ ~Ended'
  BY <1>3, <1>4 DEF Core, Statuses, Ended
<1>7. Durable' /\ ProcTypes' /\ Shape'
  BY <1>2, <1>3, <1>5 DEF Core, Durable, Stays, ProcTypes, Shape, Idling
<1>8. Statuses'
  <2>1. proc'.next = "idle"
    BY <1>2 DEF Idle
  <2>2. view'.status \notin Conclusions
    BY <1>6 DEF Ended, TERMINAL, Conclusions
  <2>3. config'.entry = "executor"
    BY <1>2, <1>4
  <2> QED
    BY <1>6, <2>1, <2>2, <2>3 DEF Statuses
<1> QED
  BY <1>1, <1>2, <1>3, <1>4, <1>7, <1>8 DEF Core, Idling, e

\* The invariant holds before the first invocation.
LEMMA InitCore == ASSUME Init PROVE Core
<1>1. ViewForm(InitialView)
  BY DEF InitialView, ViewForm, LedgerForm, JournalForm, RecordForm, EmptyLedger, Absent, RunStatus
<1>2. Durable
  BY <1>1, Lists DEF Init, Durable, DiskNames
<1>3. ProcTypes /\ Shape
  BY Lists DEF Init, ProcTypes, Idle, Shape, Idling
<1>4. Statuses
  <2>1. view.status = "brief_pending" /\ proc.next = "idle" /\ Answered("graph") = {}
    BY DEF Init, InitialView, Idle, Answered
  <2>2. ~Ended /\ view.status \notin Conclusions
    BY <2>1 DEF Ended, TERMINAL, Conclusions
  <2> QED
    BY <2>1, <2>2 DEF Statuses
<1> QED
  BY <1>2, <1>3, <1>4 DEF Core

\* Every action keeps the invariant.
LEMMA StepKeepsCore == ASSUME Core, Next PROVE Core'
<1>1. CASE ReduceStream
  <2>1. CASE view.ok
    BY <1>1, <2>1, ReduceKeepsCore
  <2>2. CASE ~view.ok
    BY <1>1, <2>2, NoGraph, GiveKeepsCore DEF ReduceStream
  <2> QED
    BY <2>1, <2>2
<1>2. CASE Return
  BY <1>2, NoGraph, GiveKeepsCore DEF Return
<1>3. CASE Crash
  <2>1. Answered("graph")' = Answered("graph")
    BY <1>3 DEF Crash, Answered
  <2> QED
    BY <1>3, <2>1, IdleKeepsCore DEF Crash, Core, Statuses
<1>4. CASE Step /\ ~ReduceStream /\ ~Return
  BY <1>4, AppendKeepsCore, FileKeepsCore, PlannerKeepsCore, StartExecutionKeepsCore,
     StartSubtaskKeepsCore, SearchKeepsCore, StartReadKeepsCore, ReadKeepsCore, AnchorKeepsCore,
     AssessKeepsCore, EnterWriterKeepsCore, WriterKeepsCore
  DEF Step
<1> QED
  BY <1>1, <1>2, <1>3, <1>4, RunKeepsCore, ReplanKeepsCore DEF Next

\* A step that changes nothing changes no part of the invariant.
LEMMA StutterKeepsCore == ASSUME Core, UNCHANGED vars PROVE Core'
<1>1. calls' \in [Ops -> Nat] /\ UNCHANGED <<config, stream, view, disk, returned, proc>>
  BY DEF Core, Durable, vars
<1>2. Durable' /\ ProcTypes'
  BY <1>1 DEF Core, Durable, ProcTypes
<1>3. Shape'
  <2>0. /\ \A s : Writes(s)' <=> Writes(s)
        /\ IsRunner' <=> IsRunner
        /\ SucceededIn(Writer)' = SucceededIn(Writer) /\ Asked' = Asked
    BY <1>1 DEF Writes, IsRunner, Asked, Reading, SucceededIn, Events
  <2>1. CASE Idling \/ Planning \/ Planned
    BY <1>1, <2>1 DEF Shape, Idling, Planning, Planned, Writes, IsRunner, PlanFile, PlanDone
  <2>2. CASE Execution
    <3>1. Execution'
      BY <1>1, <2>2 DEF Execution, BetweenSubtasks, UsingTool, ToolUsed, Executed, Writes, Asked,
         Reading
    <3> QED
      BY <3>1 DEF Shape
  <2>3. CASE Assessing \/ Writing
    BY <1>1, <2>3 DEF Shape, Assessing, Writing, Writes, IsRunner, GraphFile, Assessment,
       References
  <2>4. CASE Written
    <3>1. PICK usage : Writes(WriterSettled(usage, proc.result))
      BY <2>4 DEF Written
    <3>2. Writes(WriterSettled(usage, proc.result))'
      BY <1>1, <3>1 DEF Writes
    <3> QED
      BY <1>1, <2>0, <2>4, <3>2 DEF Shape, Written
  <2>5. CASE WriterLost
    BY <1>1, <2>5 DEF Shape, WriterLost, Writes
  <2>6. CASE Raising
    <3>1. CASE ProviderFailed
      BY <1>1, <2>6, <3>1 DEF Shape, Raising, ProviderFailed, Writes
    <3>2. CASE StageFailed
      BY <1>1, <2>6, <3>2 DEF Shape, Raising, StageFailed, Writes, IsRunner
    <3>3. CASE FailedBefore \/ ExecutorFailed \/ Unexpected
      BY <1>1, <2>6, <3>3 DEF Shape, Raising, FailedBefore, ExecutorFailed, Unexpected, Writes,
         IsRunner
    <3> QED
      BY <2>6, <3>1, <3>2, <3>3 DEF Raising
  <2> QED
    BY <2>1, <2>2, <2>3, <2>4, <2>5, <2>6 DEF Core, Shape
<1>4. Statuses'
  BY <1>1 DEF Core, Statuses, Ended, NoEvent, Answered, Left, IsRunner, SucceededIn, Events
<1> QED
  BY <1>2, <1>3, <1>4 DEF Core

\* The place of every process, what is left to write there, and what the status says of it.
THEOREM CoreHolds == Spec => []Core
<1>1. Init => Core
  BY InitCore
<1>2. Core /\ [Next]_vars => Core'
  BY StepKeepsCore, StutterKeepsCore
<1> QED
  BY <1>1, <1>2, PTL DEF Spec

---------------------------------------------------------------------------
(* Nothing is written after the end *)

\* In a terminal status no event is left to write, and no replan is asked for.
LEMMA EndIsFinal ==
    ASSUME Core, Ended, Next
    PROVE  UNCHANGED <<config, stream, view>>
<1>1. ~AppendEvent
  <2> SUFFICES ASSUME AppendEvent PROVE FALSE
    OBVIOUS
  <2>1. Work = proc.todo[1] /\ Left \in Nat \ {0}
    BY HeadIsFirst DEF Core, AppendEvent
  <2>2. Work.type # "reduce" /\ 1 \in 1..Len(proc.todo)
    BY <2>1 DEF AppendEvent, Left
  <2> QED
    BY <2>1, <2>2 DEF Core, Statuses, NoEvent
<1>2. ~ApplyReplan
  BY ReplanKeepsCore DEF Core, Statuses
<1> QED
  BY <1>1, <1>2
  DEF Next, Step, Run, WriteArtifact, ReduceStream, Return, PlannerAnswers, StartExecution,
      StartSubtask, SearchAnswers, StartRead, ReadAnswers, Anchor, Assess, EnterWriter,
      WriterAnswers, Crash

\* After Raise the process is on its way out with what it was given to write.
LEMMA RaiseNext ==
    ASSUME ProcTypes, NEW todo, NEW code, Raise(todo, code)
    PROVE  proc'.next = "raise" /\ proc'.todo = todo
BY DEF ProcTypes, Raise

\* After Goto the process stands where it was sent.
LEMMA GotoNext ==
    ASSUME ProcTypes, NEW todo, NEW place, Goto(todo, place)
    PROVE  proc'.next = place /\ proc'.todo = todo
BY DEF ProcTypes, Goto

\* Behind a reservation stands its reduction.
LEMMA ReductionFollows ==
    ASSUME ProcTypes, Shape, proc.next \in Calling, Left = 3
    PROVE  proc.todo[2].type = "reduce"
<1>1. ASSUME NEW op, NEW code, Writes(Opening(op, code)) PROVE proc.todo[2].type = "reduce"
  <2>1. Len(Opening(op, code)) = 6 /\ Opening(op, code)[5] = Reduce(code)
    BY DEF Opening
  <2>2. proc.todo[2] = Opening(op, code)[6 - 3 + 2]
    BY <1>1, <2>1 DEF Writes, Rest, Left
  <2> QED
    BY <2>1, <2>2 DEF Reduce
<1>2. ASSUME NEW op, NEW code, Writes(Asking(op, code)) PROVE proc.todo[2].type = "reduce"
  <2>1. Len(Asking(op, code)) = 3 /\ Asking(op, code)[2] = Reduce(code)
    BY DEF Asking
  <2>2. proc.todo[2] = Asking(op, code)[3 - 3 + 2]
    BY <1>2, <2>1 DEF Writes, Rest, Left
  <2> QED
    BY <2>1, <2>2 DEF Reduce
<1>3. proc # Idle
  BY DEF Idle, Calling
<1>4. Planning \/ Writing \/ UsingTool
  BY <1>3 DEF Calling, Shape, Idling, Planned, Assessing, Written, WriterLost,
     Raising, Execution, BetweenSubtasks, ToolUsed, Executed
<1> QED
  BY <1>1, <1>2, <1>4 DEF Planning, Writing, UsingTool

\* Where a process may be when a reservation was refused: not begun again, about
\* to reduce the stream, or at the writer, which reduces it first.
Halted ==
    \/ proc = Idle
    \/ proc.todo # <<>> /\ Work.type = "reduce"
    \/ At("writer")

\* From none of these places is anything written.
LEMMA HaltedWritesNothing ==
    ASSUME ReservationRefused, Halted, Next
    PROVE  stream' = stream
<1>1. ~AppendEvent
  BY DEF Halted, AppendEvent, Idle, At
<1>2. ~ApplyReplan
  BY DEF ReservationRefused, ApplyReplan
<1> QED
  BY <1>1, <1>2
  DEF Next, Step, Run, WriteArtifact, ReduceStream, Return, PlannerAnswers, StartExecution,
      StartSubtask, SearchAnswers, StartRead, ReadAnswers, Anchor, Assess, EnterWriter,
      WriterAnswers, Crash

\* Each of them leads to another: reducing raises, the writer refuses, a later
\* call is refused, starts at the writer, or fails and reduces first.
LEMMA HaltedLeads ==
    ASSUME Core, ReservationRefused, Halted, Next
    PROVE  Halted'
<1>0. ~view.ok /\ stream # <<>> /\ Idle.next = "idle" /\ Idle.todo = <<>>
  BY DEF ReservationRefused, Idle
<1>1. ASSUME proc' = Idle PROVE Halted'
  BY <1>1 DEF Halted
<1>2. CASE ReduceStream
  BY <1>0, <1>1, <1>2 DEF ReduceStream, Give
<1>3. CASE EnterWriter
  BY <1>0, <1>1, <1>3 DEF EnterWriter, Refuse, Give
<1>4. CASE Run
  <2>1. ASSUME proc'.todo = <<>>, proc'.next = "writer" PROVE Halted'
    BY <2>1 DEF Halted, At
  <2>2. CASE RunComposed
    <3>1. ASSUME NEW code, Stage(<<>>, code), IsRunner PROVE Halted'
      <4> DEFINE t == Terminalize
      <4>1. t = <<Checkpoint, Checkpoint>> \/ t = <<Checkpoint, Elapsed, Failed, Checkpoint>>
        BY <3>1, TerminalizeIs DEF IsRunner
      <4>2. IsList(t) /\ t # <<>> /\ Head(t) = Checkpoint
        BY <4>1, Lists
      <4>3. Raise(<<>> \o t, code)
        BY <3>1 DEF Stage
      <4> HIDE DEF t
      <4>4. <<>> \o t = t
        BY <4>2, JoinNone
      <4>5. proc'.todo = t
        BY <4>3, <4>4, RaiseNext DEF Core
      <4> QED
        BY <4>2, <4>5 DEF Halted, Work, Checkpoint, Reduce
    <3>2. CASE ResumeAtWriter
      <4>1. ASSUME proc' = [Idle EXCEPT !.next = "writer", !.plan = StoredPlan,
                                        !.graph = disk["graph"]]
            PROVE  Halted'
        BY <2>1, <4>1 DEF Idle
      <4> QED
        BY <1>1, <2>2, <3>1, <3>2, <4>1 DEF ResumeAtWriter, RunComposed, Refuse, Give, IsRunner
    <3> QED
      BY <1>0, <1>1, <2>2, <3>2 DEF RunComposed, Refuse, Give
  <2>3. CASE RunExecutor
    BY <1>0, <1>1, <2>3 DEF RunExecutor, Executable, Refuse, Give
  <2>4. CASE RunWriter
    BY <2>1, <2>4 DEF RunWriter, Idle
  <2> QED
    BY <1>4, <2>2, <2>3, <2>4 DEF Run
<1>5. CASE Crash
  BY <1>1, <1>5 DEF Crash
<1>6. ~AppendEvent /\ ~WriteArtifact
  BY <1>0 DEF Halted, AppendEvent, WriteArtifact, At
<1>7. ~Return /\ ~ApplyReplan
  BY <1>0 DEF Halted, Return, ApplyReplan, At
<1>8. /\ ~PlannerAnswers /\ ~StartExecution /\ ~StartSubtask /\ ~SearchAnswers /\ ~StartRead
      /\ ~ReadAnswers /\ ~Anchor /\ ~Assess /\ ~WriterAnswers
  BY <1>0 DEF Halted, At, PlannerAnswers, StartExecution, StartSubtask, SearchAnswers, StartRead,
     ReadAnswers, Anchor, Assess, WriterAnswers
<1> QED
  BY <1>2, <1>3, <1>4, <1>5, <1>6, <1>7, <1>8 DEF Next, Step

\* A reservation is refused by the append that writes it, and its reduction is next.
LEMMA RefusedHalts ==
    ASSUME Core, ~ReservationRefused, Next, ReservationRefused'
    PROVE  Halted'
<1>1. AppendEvent \/ ApplyReplan
  BY DEF ReservationRefused, Next, Step, Run, WriteArtifact, ReduceStream, Return, PlannerAnswers,
     StartExecution, StartSubtask, SearchAnswers, StartRead, ReadAnswers, Anchor, Assess,
     EnterWriter, WriterAnswers, Crash
<1>2. IsList(stream)
  BY DEF Core, Durable
<1>3. ASSUME NEW e, stream' = Append(stream, e) PROVE e.type = "operation_reserved"
  <2>1. PICK S : stream \in Seq(S)
    BY <1>2 DEF IsList
  <2>2. stream'[Len(stream')] = e
    BY <1>3, <2>1
  <2> QED
    BY <2>2 DEF ReservationRefused
<1>4. CASE ApplyReplan
  BY <1>3, <1>4 DEF ApplyReplan, Write, ReplanDecided
<1>5. CASE AppendEvent
  <2>1. Stepped /\ proc.todo # <<>> /\ proc'.todo = Tail(proc.todo)
    BY <1>5, AppendIsDoing DEF Doing, Popping
  <2>2. Work.type = "operation_reserved"
    <3> DEFINE e == Work
    <3>1. stream' = Append(stream, e)
      BY <1>5 DEF AppendEvent, Write
    <3> HIDE DEF e
    <3>2. e.type = "operation_reserved"
      BY <1>3, <3>1
    <3> QED
      BY <3>2 DEF e
  <2>3. proc.next \in Calling /\ Left = 3
    <3>1. ~StartsRun /\ ~Checks /\ ~Dispatches /\ ~Files /\ ~Elapses /\ ~Checkpoints
      BY <2>2 DEF StartsRun, Checks, Dispatches, Files, Elapses, Checkpoints, Checkpoint, Reduce,
         RunStarted, Approve, Begin, Lifecycle, OperationDispatched
    <3>2. ~Settles /\ ~Fails /\ ~Validates /\ ~Concludes
      BY <2>2 DEF Settles, Outcome, OperationUnknown, OperationFailed, OperationSucceeded, Fails,
         Failed, Validates, Concludes, Lifecycle
    <3> QED
      BY <2>1, <3>1, <3>2 DEF Stepped, Due, Reserves
  <2>4. proc.todo[2].type = "reduce"
    BY <2>3, ReductionFollows DEF Core
  <2>5. PICK S : proc.todo \in Seq(S)
    BY DEF Core, ProcTypes, IsList
  <2>6. proc'.todo # <<>> /\ Head(proc'.todo) = proc.todo[2]
    <3>1. Len(Tail(proc.todo)) = 2 /\ Tail(proc.todo)[1] = proc.todo[2]
      BY <2>1, <2>3, HeadIsFirst DEF Core
    <3>2. Tail(proc.todo) \in Seq(S)
      BY <2>1, <2>5
    <3> DEFINE t == Tail(proc.todo)
    <3>3. t \in Seq(S) /\ Len(t) = 2 /\ t[1] = proc.todo[2]
      BY <3>1, <3>2
    <3> HIDE DEF t
    <3>4. t # <<>> /\ Head(t) = proc.todo[2]
      BY <3>3
    <3> QED
      BY <2>1, <3>4 DEF t
  <2> QED
    BY <2>4, <2>6 DEF Halted, Work
<1> QED
  BY <1>1, <1>4, <1>5

RefusedIsHalted == ReservationRefused => Halted

\* A run that is over is never written to again: not by what is left of the
\* script of a failed stage, not by a later call, and not by a replan. Nor is
\* a run that was refused a reservation.
THEOREM StreamEnds == Spec => TerminalStreamIsFinal
<1>1. Init => RefusedIsHalted
  BY DEF Init, RefusedIsHalted, ReservationRefused
<1>2. Core /\ RefusedIsHalted /\ [Next]_vars => RefusedIsHalted'
  <2>1. CASE UNCHANGED vars
    BY <2>1 DEF vars, RefusedIsHalted, ReservationRefused, Halted, At, Work
  <2> QED
    BY <2>1, HaltedLeads, RefusedHalts DEF RefusedIsHalted
<1>3. Core /\ RefusedIsHalted /\ [Next]_vars =>
        [(view.ok /\ view.status \in TERMINAL) \/ ReservationRefused => stream' = stream]_vars
  BY EndIsFinal, HaltedWritesNothing DEF vars, Ended, RefusedIsHalted
<1> QED
  BY <1>1, <1>2, <1>3, CoreHolds, PTL DEF Spec, TerminalStreamIsFinal

---------------------------------------------------------------------------
(* What the caller is told *)

Codes == {"rejected", "budget_exhausted"}
CodesIn(s) == \A i \in 1..Len(s) : s[i].type = "reduce" => s[i].code \in Codes

\* The code a script ends on, when only its reduction is left.
LEMMA NextOfScript ==
    ASSUME ProcTypes, proc.todo # <<>>, NEW s, IsList(s), Writes(s), CodesIn(s),
           Work.type = "reduce"
    PROVE  Work.code \in Codes
<1> DEFINE t == proc.todo
           n == Len(t)
           m == Len(s)
<1>1. n \in 1..m /\ Work = s[m - n + 1] /\ m \in Nat
  <2>1. IsList(t) /\ t # <<>> /\ Rest(t, s)
    BY DEF ProcTypes, Writes
  <2> HIDE DEF t
  <2>2. n \in 1..m /\ Head(t) = s[m - n + 1]
    BY <2>1, RestTail
  <2>3. m \in Nat
    BY DEF IsList
  <2> QED
    BY <2>2, <2>3 DEF Work, t
<1> HIDE DEF n, m
<1>2. m - n + 1 \in 1..m
  BY <1>1
<1> QED
  BY <1>1, <1>2 DEF CodesIn, m

\* Events and files are not reduced, and a reduction raises one of the codes.
Fine(x) == x.type = "reduce" => x.code \in Codes

\* Each write the code makes is fine.
LEMMA FineWrites ==
    /\ Fine(RunStarted) /\ Fine(Approve) /\ Fine(Begin) /\ Fine(Elapsed) /\ Fine(Failed)
    /\ Fine(Checkpoint) /\ Fine(References) /\ Fine(GraphFile) /\ Fine(PlanFile)
    /\ \A code \in Codes : Fine(Reduce(code))
    /\ \A op : Fine(Reserve1(op)) /\ Fine(OperationDispatched(op, 1)) /\ Fine(Found(op))
    /\ \A op : Fine(OperationUnknown(op, 1))
    /\ \A op, u, c : Fine(OperationFailed(op, 1, u, c)) /\ Fine(OperationSucceeded(op, 1, u, c))
    /\ \A u : Fine(PlanDone(u))
    /\ \A from, to : Fine(Lifecycle(from, to))
    /\ \A name, content : Fine(File(name, content))
<1>1. /\ Fine(RunStarted) /\ Fine(Approve) /\ Fine(Begin) /\ Fine(Elapsed) /\ Fine(Failed)
      /\ \A from, to : Fine(Lifecycle(from, to))
      /\ Fine(References)
  BY DEF Fine, RunStarted, Approve, Begin, Elapsed, Failed, Lifecycle, References,
         ArtifactsRecorded, ElapsedRecorded
<1>2. /\ \A code \in Codes : Fine(Reduce(code))
      /\ Fine(Checkpoint)
  BY DEF Fine, Reduce, Checkpoint, Codes
<1>3. /\ \A op : Fine(Reserve1(op)) /\ Fine(OperationDispatched(op, 1)) /\ Fine(Found(op))
      /\ \A op : Fine(OperationUnknown(op, 1))
      /\ \A op, u, c : Fine(OperationFailed(op, 1, u, c))
      /\ \A op, u, c : Fine(OperationSucceeded(op, 1, u, c))
      /\ \A u : Fine(PlanDone(u))
  BY DEF Fine, Reserve1, OperationReserved, OperationDispatched, Found, OperationUnknown,
         OperationFailed, OperationSucceeded, PlanDone
<1>4. /\ \A name, content : Fine(File(name, content))
      /\ Fine(GraphFile) /\ Fine(PlanFile)
  BY DEF Fine, File, GraphFile, PlanFile
<1> QED
  BY <1>1, <1>2, <1>3, <1>4

\* Lists of one to six writes of which none raises another code.
LEMMA ScriptCodes ==
    /\ \A a : Fine(a) => CodesIn(<<a>>)
    /\ \A a, b : Fine(a) /\ Fine(b) => CodesIn(<<a, b>>)
    /\ \A a, b, c : Fine(a) /\ Fine(b) /\ Fine(c) => CodesIn(<<a, b, c>>)
    /\ \A a, b, c, d : Fine(a) /\ Fine(b) /\ Fine(c) /\ Fine(d) => CodesIn(<<a, b, c, d>>)
    /\ \A a, b, c, d, e : Fine(a) /\ Fine(b) /\ Fine(c) /\ Fine(d) /\ Fine(e) =>
          CodesIn(<<a, b, c, d, e>>)
    /\ \A a, b, c, d, e, f : Fine(a) /\ Fine(b) /\ Fine(c) /\ Fine(d) /\ Fine(e) /\ Fine(f) =>
          CodesIn(<<a, b, c, d, e, f>>)
BY DEF CodesIn, Fine

\* Whatever is reduced, wherever the process is, raises one of two codes.
LEMMA ReduceCodes ==
    ASSUME ProcTypes, Shape, proc.todo # <<>>, Work.type = "reduce"
    PROVE  Work.code \in Codes
<1>1. ASSUME NEW s, IsList(s), Writes(s), CodesIn(s) PROVE Work.code \in Codes
  BY <1>1, NextOfScript
<1>2. CASE Planning \/ Writing
  <2>1. ASSUME NEW op, NEW code \in Codes, Writes(Opening(op, code)) PROVE Work.code \in Codes
    <3>1. CodesIn(Opening(op, code)) /\ IsList(Opening(op, code))
      BY FineWrites, ScriptCodes, Lists DEF Opening
    <3> QED
      BY <1>1, <2>1, <3>1
  <2> QED
    BY <1>2, <2>1 DEF Planning, Writing, Codes
<1>3. CASE Planned
  <2>1. PICK usage :
            \/ Writes(<<PlanFile, PlanDone(usage), Elapsed, Checkpoint>>)
            \/ Writes(<<PlanFile, File("routing", proc.plan), PlanDone(usage), Elapsed, Checkpoint>>)
    BY <1>3 DEF Planned
  <2>2. /\ CodesIn(<<PlanFile, PlanDone(usage), Elapsed, Checkpoint>>)
        /\ CodesIn(<<PlanFile, File("routing", proc.plan), PlanDone(usage), Elapsed, Checkpoint>>)
    BY FineWrites, ScriptCodes
  <2> QED
    BY <1>1, <2>1, <2>2, Lists
<1>4. CASE Execution
  <2>1. CASE BetweenSubtasks
    <3>1. CodesIn(<<RunStarted, Approve, Begin>>)
      BY FineWrites, ScriptCodes
    <3> QED
      BY <1>1, <2>1, <3>1, Lists DEF BetweenSubtasks
  <2>2. CASE UsingTool
    <3>1. PICK code \in Codes : Writes(Asking(Asked, code))
      BY <2>2 DEF UsingTool, Codes
    <3>2. CodesIn(Asking(Asked, code)) /\ IsList(Asking(Asked, code))
      BY FineWrites, ScriptCodes, Lists DEF Asking
    <3> QED
      BY <1>1, <3>1, <3>2
  <2>3. CASE ToolUsed
    <3>1. \A op : CodesIn(<<Found(op)>>) /\ IsList(<<Found(op)>>)
      BY FineWrites, ScriptCodes, Lists
    <3> QED
      BY <1>1, <2>3, <3>1 DEF ToolUsed
  <2>4. CASE Executed
    <3>1. CodesIn(<<Checkpoint>>) /\ IsList(<<Checkpoint>>)
      BY FineWrites, ScriptCodes, Lists
    <3> QED
      BY <1>1, <2>4, <3>1 DEF Executed
  <2> QED
    BY <1>4, <2>1, <2>2, <2>3, <2>4 DEF Execution
<1>5. CASE Assessing
  <2>1. CodesIn(<<GraphFile, File("assessment", Assessment), References>>)
    BY FineWrites, ScriptCodes
  <2> QED
    BY <1>1, <1>5, <2>1, Lists DEF Assessing
<1>6. CASE Written
  <2>1. \A usage : /\ CodesIn(WriterSettled(usage, proc.result))
                   /\ IsList(WriterSettled(usage, proc.result))
    BY FineWrites, ScriptCodes, Lists DEF WriterSettled
  <2> QED
    BY <1>1, <1>6, <2>1 DEF Written
<1>7. CASE WriterLost
  <2>1. CodesIn(<<OperationUnknown(Writer, 1), Elapsed, Failed, Checkpoint>>)
    BY FineWrites, ScriptCodes
  <2> QED
    BY <1>1, <1>7, <2>1, Lists DEF WriterLost
<1>8. CASE Raising
  <2>0. \A x, ops : Failure(x, ops) => Fine(x)
    BY FineWrites DEF Failure
  <2>1. CASE ProviderFailed
    <3>1. PICK x : Failure(x, {Planner, Writer}) /\ Writes(<<x, Elapsed, Failed, Checkpoint>>)
      BY <2>1 DEF ProviderFailed
    <3>2. CodesIn(<<x, Elapsed, Failed, Checkpoint>>)
      BY <2>0, <3>1, FineWrites, ScriptCodes
    <3> QED
      BY <1>1, <3>1, <3>2, Lists
  <2>2. CASE StageFailed
    <3>1. PICK x : StageWrite(x) /\ Writes(<<x, Checkpoint, Elapsed, Failed, Checkpoint>>)
      BY <2>2 DEF StageFailed
    <3>2. Fine(x)
      BY <2>0, <3>1, FineWrites DEF StageWrite
    <3>3. CodesIn(<<x, Checkpoint, Elapsed, Failed, Checkpoint>>)
      BY <3>2, FineWrites, ScriptCodes
    <3> QED
      BY <1>1, <3>1, <3>3, Lists
  <2>3. CASE FailedBefore
    <3>1. CodesIn(<<Checkpoint, Checkpoint>>)
      BY FineWrites, ScriptCodes
    <3> QED
      BY <1>1, <2>3, <3>1, Lists DEF FailedBefore
  <2>4. CASE ExecutorFailed
    <3>1. PICK x : ExecutorWrite(x) /\ Writes(<<x>>)
      BY <2>4 DEF ExecutorFailed
    <3>2. Fine(x)
      BY <2>0, <3>1, FineWrites DEF ExecutorWrite
    <3>3. CodesIn(<<x>>)
      BY <3>2, ScriptCodes
    <3> QED
      BY <1>1, <3>1, <3>3, Lists
  <2> QED
    BY <1>8, <2>1, <2>2, <2>3, <2>4 DEF Raising, Unexpected
<1>9. CASE Idling
  BY <1>9 DEF Idling, Idle
<1> QED
  BY <1>2, <1>3, <1>4, <1>5, <1>6, <1>7, <1>8, <1>9 DEF Shape

\* A stage failure is only given by a process that has written all it had to.
Raised(code) == /\ proc.next = "raise" /\ Left = 0 /\ code = proc.result
                /\ UNCHANGED <<config, stream, view>>

Told ==
    \/ UNCHANGED returned
    \/ \E a : /\ returned' = returned \cup {a}
              /\ a.kind = "error" /\ a.value \in StageCodes => Raised(a.value)

\* Whatever a step gives its caller was written down before.
LEMMA WhatIsGiven == ASSUME Core, Next PROVE Told
<1>1. ASSUME NEW code, Refuse(code) \/ Give(Error(code)), code \notin StageCodes PROVE Told
  BY <1>1, NoGraph DEF Refuse, Give, Told
<1>2. ASSUME NEW status, Give(Report(status)) PROVE Told
  BY <1>2, NoGraph DEF Give, Told
<1>0. ASSUME UNCHANGED returned PROVE Told
  BY <1>0 DEF Told
<1>3. /\ \A code \in Codes : code \notin StageCodes
      /\ \A code \in {"artifacts_missing", "outcome_unknown", "unexpected_nonempty_stream",
                      "plan_not_executable"} : code \notin StageCodes
  BY DEF StageCodes, Codes
<1>4. CASE ReduceStream
  <2>1. CASE view.ok
    BY <1>0, <1>4, <2>1 DEF ReduceStream
  <2>2. CASE ~view.ok
    BY <1>1, <1>3, <1>4, <2>2, ReduceCodes DEF ReduceStream, Core
  <2> QED
    BY <2>1, <2>2
<1>5. CASE Return
  <2>1. CASE At("return") /\ Give(Report(proc.result))
    BY <1>2, <2>1
  <2>2. CASE At("raise") /\ Give(Error(proc.result))
    <3>1. Raised(proc.result)
      BY <1>5, <2>2 DEF Return, At, Raised, Left
    <3> QED
      BY <2>2, <3>1, NoGraph DEF Told, Give
  <2> QED
    BY <1>5, <2>1, <2>2 DEF Return
<1>6. CASE Run
  <2>1. CASE RunComposed
    <3>1. CASE ResumeAtWriter
      BY <1>0, <1>1, <1>3, <3>1 DEF ResumeAtWriter
    <3>2. CASE Give(Report(StoredReport))
      BY <1>2, <3>2
    <3>3. CASE Refuse(IF ~view.ok THEN "rejected" ELSE IF NeedsManualReview
                      THEN "outcome_unknown" ELSE "unexpected_nonempty_stream")
      BY <1>1, <1>3, <3>3 DEF Codes
    <3> QED
      BY <1>0, <2>1, <3>1, <3>2, <3>3 DEF RunComposed
  <2>2. CASE RunExecutor
    BY <1>0, <1>1, <1>3, <2>2 DEF RunExecutor, Codes
  <2>3. CASE RunWriter
    BY <1>0, <2>3 DEF RunWriter
  <2> QED
    BY <1>6, <2>1, <2>2, <2>3 DEF Run
<1>7. CASE EnterWriter
  BY <1>0, <1>1, <1>2, <1>3, <1>7 DEF EnterWriter, Codes
<1>8. CASE Assess
  <2>1. CASE Give([kind |-> "graph", value |-> proc.graph])
    BY <2>1 DEF Told, Give
  <2> QED
    BY <1>0, <1>8, <2>1 DEF Assess
<1>9. CASE Crash \/ ApplyReplan
  BY <1>0, <1>9 DEF Crash, ApplyReplan
<1>10. CASE \/ AppendEvent \/ WriteArtifact \/ PlannerAnswers \/ StartExecution \/ StartSubtask
            \/ SearchAnswers \/ StartRead \/ ReadAnswers \/ Anchor \/ WriterAnswers
  BY <1>0, <1>10 DEF AppendEvent, WriteArtifact, PlannerAnswers, StartExecution, StartSubtask,
     SearchAnswers, StartRead, ReadAnswers, Anchor, WriterAnswers
<1> QED
  BY <1>4, <1>5, <1>6, <1>7, <1>8, <1>9, <1>10 DEF Next, Step

\* Once a stage failure is given, the run is over, and stays so.
LEMMA FailureKept ==
    ASSUME Core, StageFailuresPersist, Next
    PROVE  StageFailuresPersist'
<1>1. config' = config
  BY DEF Next, Step, Run, Crash, ApplyReplan, AppendEvent, WriteArtifact, ReduceStream, Return,
     PlannerAnswers, StartExecution, StartSubtask, SearchAnswers, StartRead, ReadAnswers, Anchor,
     Assess, EnterWriter, WriterAnswers
<1> SUFFICES ASSUME IsRunner, NEW b \in returned', b.kind = "error", b.value \in StageCodes
             PROVE  view'.ok /\ view'.status = "failed"
  BY <1>1 DEF StageFailuresPersist, Answered, IsRunner
<1>2. ASSUME view.ok, view.status = "failed" PROVE view'.ok /\ view'.status = "failed"
  BY <1>2, EndIsFinal DEF Ended, TERMINAL
<1>3. CASE b \in returned
  BY <1>2, <1>3 DEF StageFailuresPersist, Answered, IsRunner
<1>4. CASE b \notin returned
  <2>1. Raised(b.value)
    <3>1. PICK a : /\ returned' = returned \cup {a}
                   /\ a.kind = "error" /\ a.value \in StageCodes => Raised(a.value)
      <4>1. Told
        BY WhatIsGiven
      <4> QED
        BY <1>4, <4>1 DEF Told
    <3>2. b = a
      BY <1>4, <3>1
    <3> QED
      BY <3>1, <3>2
  <2>2. view.ok /\ view.status = "failed"
    BY <2>1 DEF Raised, Core, Statuses
  <2> QED
    BY <1>2, <2>2
<1> QED
  BY <1>3, <1>4

\* A process that raises of its own does not raise the code of a refusal.
Honest == proc.next = "raise" => proc.result \notin Codes

\* Every failure of a stage, a provider or a precondition has another code.
LEMMA HonestKept == ASSUME Core, Honest, Next PROVE Honest'
<1>1. ASSUME NEW todo, NEW code, Raise(todo, code), code \notin Codes PROVE Honest'
  BY <1>1 DEF Honest, Raise, Core, ProcTypes
<1>2. ASSUME NEW todo, NEW code, Stage(todo, code), code \notin Codes PROVE Honest'
  BY <1>1, <1>2 DEF Stage
<1>3. ASSUME proc'.next # "raise" PROVE Honest'
  BY <1>3 DEF Honest
<1>4. ASSUME proc' = Idle PROVE Honest'
  BY <1>4 DEF Honest, Idle
<1>5. ASSUME NEW todo, NEW place, Goto(todo, place), place # "raise" PROVE Honest'
  BY <1>3, <1>5, GotoNext DEF Core
<1>6. ASSUME UNCHANGED <<proc.next, proc.result>> PROVE Honest'
  BY <1>6 DEF Honest
<1>7. ASSUME Done PROVE Honest'
  BY <1>6, <1>7 DEF Done, Core, ProcTypes
<1>8. CASE PlannerAnswers
  <2>1. \A code \in {"planner_failed", "outcome_unknown", "cross_paper_source_selection_mismatch"} :
            code \notin Codes
    BY DEF Codes
  <2>2. CASE PlannerFails
    BY <1>1, <2>1, <2>2 DEF PlannerFails
  <2>3. CASE PlannerReturns
    <3>1. PICK plan \in Plans, usage \in Usages :
            \/ Stage(<<File("plan", plan)>>, "cross_paper_source_selection_mismatch")
            \/ \E t : proc' = [proc EXCEPT !.todo = t, !.next = "execute", !.plan = plan]
      BY <2>3 DEF PlannerReturns
    <3>2. ASSUME NEW t, proc' = [proc EXCEPT !.todo = t, !.next = "execute", !.plan = plan]
          PROVE  Honest'
      BY <1>3, <3>2 DEF Core, ProcTypes
    <3> QED
      BY <1>2, <2>1, <3>1, <3>2
  <2> QED
    BY <1>8, <2>2, <2>3 DEF PlannerAnswers
<1>9. ASSUME NEW op, ToolFails(op) PROVE Honest'
  <2>1. "tool_failure" \notin Codes /\ "unknown_outcome" \notin Codes
    BY DEF Codes
  <2> QED
    BY <1>2, <1>9, <2>1 DEF ToolFails
<1>10. CASE SearchAnswers
  <2>1. "source_not_found" \notin Codes /\ "selected_source_evidence_missing" \notin Codes
    BY DEF Codes
  <2>2. ASSUME NEW hits, SearchFinds(hits) PROVE Honest'
    <3>1. ASSUME NEW t, NEW place \in {"anchor", "read"}, NEW reads,
                 proc' = [proc EXCEPT !.todo = t, !.next = place, !.reads = reads]
          PROVE  Honest'
      BY <1>3, <3>1 DEF Core, ProcTypes
    <3> QED
      BY <1>2, <2>1, <2>2, <3>1 DEF SearchFinds
  <2> QED
    BY <1>9, <1>10, <2>2 DEF SearchAnswers
<1>11. CASE ReadAnswers
  <2>1. ASSUME proc' = [proc EXCEPT !.todo = ToolSucceeded(Reading), !.reads = Tail(@),
                              !.last = Head(proc.reads),
                              !.next = IF Len(proc.reads) = 1 THEN "anchor" ELSE "read"]
        PROVE  Honest'
    BY <1>3, <2>1 DEF Core, ProcTypes
  <2> QED
    BY <1>9, <1>11, <2>1 DEF ReadAnswers
<1>12. CASE WriterAnswers
  <2>1. \A draft : DraftCode(draft) \notin Codes
    BY DEF DraftCode, Codes
  <2>2. "writer_failed" \notin Codes
    BY DEF Codes
  <2>3. ASSUME NEW t, NEW status,
               proc' = [proc EXCEPT !.todo = t, !.next = "return", !.result = status]
        PROVE  Honest'
    BY <1>3, <2>3 DEF Core, ProcTypes
  <2>4. CASE WriterFails
    BY <1>1, <2>2, <2>3, <2>4 DEF WriterFails
  <2>5. CASE WriterReturns
    BY <1>1, <2>1, <2>3, <2>5 DEF WriterReturns
  <2> QED
    BY <1>12, <2>4, <2>5 DEF WriterAnswers
<1>13. CASE StartExecution
  <2>1. "plan_not_executable" \notin Codes
    BY DEF Codes
  <2>2. ASSUME proc' = [proc EXCEPT !.next = "subtask", !.subtask = 1] PROVE Honest'
    BY <1>3, <2>2 DEF Core, ProcTypes
  <2> QED
    BY <1>2, <1>13, <2>1, <2>2 DEF StartExecution
<1>14. CASE StartSubtask \/ StartRead
  <2>1. "cancelled" \notin Codes /\ "cross_paper_source_selection_mismatch" \notin Codes
    BY DEF Codes
  <2> QED
    BY <1>2, <1>5, <1>14, <2>1 DEF StartSubtask, StartRead
<1>15. CASE Anchor
  <2>1. "unbound_local" \notin Codes /\ "evidence_anchor_not_found" \notin Codes
    BY DEF Codes
  <2>2. ASSUME proc' = [proc EXCEPT !.next = "subtask", !.subtask = @ + 1,
                                    !.graph = Append(@, Unit(proc.last))]
        PROVE  Honest'
    BY <1>3, <2>2 DEF Core, ProcTypes
  <2> QED
    BY <1>1, <1>2, <1>15, <2>1, <2>2 DEF Anchor
<1>16. CASE Assess
  <2>1. "cross_paper_source_selection_mismatch" \notin Codes /\ "assessment_invalid" \notin Codes
    BY DEF Codes
  <2> QED
    BY <1>2, <1>4, <1>5, <1>16, <2>1 DEF Assess, Give
<1>17. CASE EnterWriter
  <2>1. "writer_not_admissible" \notin Codes
    BY DEF Codes
  <2> QED
    BY <1>1, <1>4, <1>5, <1>17, <2>1 DEF EnterWriter, WriterAdmitted, Refuse, Give
<1>18. CASE Run
  <2>1. "cross_paper_source_selection_mismatch" \notin Codes
    BY DEF Codes
  <2>2. ASSUME NEW todo, NEW place, Enter(todo, place), place # "raise" PROVE Honest'
    BY <1>3, <2>2 DEF Enter, Idle
  <2>3. CASE ResumeAtWriter
    <3>1. ASSUME proc' = [Idle EXCEPT !.next = "writer", !.plan = StoredPlan,
                                      !.graph = disk["graph"]]
          PROVE  Honest'
      BY <1>3, <3>1 DEF Idle
    <3> QED
      BY <1>2, <1>4, <2>1, <2>3, <3>1 DEF ResumeAtWriter, Refuse, Give
  <2>4. CASE RunComposed
    BY <1>4, <2>2, <2>3, <2>4 DEF RunComposed, Refuse, Give
  <2>5. CASE RunExecutor
    <3>1. ASSUME proc' = [Idle EXCEPT !.todo = ExecutionWrites, !.next = "subtask",
                                      !.subtask = 1, !.plan = config.plan]
          PROVE  Honest'
      BY <1>3, <3>1 DEF Idle
    <3> QED
      BY <1>4, <2>5, <3>1 DEF RunExecutor, Refuse, Give
  <2>6. CASE RunWriter
    BY <1>3, <2>6 DEF RunWriter, Idle
  <2> QED
    BY <1>18, <2>4, <2>5, <2>6 DEF Run
<1>19. CASE AppendEvent \/ WriteArtifact \/ ReduceStream \/ Return \/ Crash \/ ApplyReplan
  BY <1>4, <1>6, <1>7, <1>19
  DEF AppendEvent, WriteArtifact, ReduceStream, Return, Crash, ApplyReplan, Give
<1> QED
  BY <1>8, <1>10, <1>11, <1>12, <1>13, <1>14, <1>15, <1>16, <1>17, <1>18, <1>19 DEF Next, Step

\* A refusal is only told of a stream that is refused.
ToldOfRefusal ==
    \/ UNCHANGED returned
    \/ \E a : /\ returned' = returned \cup {a}
              /\ a.kind = "error" /\ a.value \in Codes => ~view.ok

\* Wherever the code of a refusal is given, the stream was reduced and refused.
LEMMA RefusalIsTrue == ASSUME Core, Honest, Next PROVE ToldOfRefusal
<1>1. ASSUME NEW code, Refuse(code) \/ Give(Error(code)), code \in Codes => ~view.ok
      PROVE  ToldOfRefusal
  BY <1>1, NoGraph DEF Refuse, Give, ToldOfRefusal
<1>2. ASSUME NEW status, Give(Report(status)) PROVE ToldOfRefusal
  BY <1>2, NoGraph DEF Give, ToldOfRefusal
<1>0. ASSUME UNCHANGED returned PROVE ToldOfRefusal
  BY <1>0 DEF ToldOfRefusal
<1>3. /\ "artifacts_missing" \notin Codes /\ "outcome_unknown" \notin Codes
      /\ "unexpected_nonempty_stream" \notin Codes /\ "plan_not_executable" \notin Codes
  BY DEF Codes
<1>4. CASE ReduceStream
  <2>1. CASE view.ok
    BY <1>0, <1>4, <2>1 DEF ReduceStream
  <2>2. CASE ~view.ok
    BY <1>1, <1>4, <2>2 DEF ReduceStream
  <2> QED
    BY <2>1, <2>2
<1>5. CASE Return
  <2>1. CASE At("return") /\ Give(Report(proc.result))
    BY <1>2, <2>1
  <2>2. CASE At("raise") /\ Give(Error(proc.result))
    BY <1>1, <2>2 DEF Honest, At
  <2> QED
    BY <1>5, <2>1, <2>2 DEF Return
<1>6. CASE Run
  <2>1. CASE RunComposed
    <3>1. CASE ResumeAtWriter
      BY <1>0, <1>1, <1>3, <3>1 DEF ResumeAtWriter
    <3>2. CASE Give(Report(StoredReport))
      BY <1>2, <3>2
    <3>3. CASE Refuse(IF ~view.ok THEN "rejected" ELSE IF NeedsManualReview
                      THEN "outcome_unknown" ELSE "unexpected_nonempty_stream")
      BY <1>1, <1>3, <3>3
    <3> QED
      BY <1>0, <2>1, <3>1, <3>2, <3>3 DEF RunComposed
  <2>2. CASE RunExecutor
    BY <1>0, <1>1, <1>3, <2>2 DEF RunExecutor
  <2>3. CASE RunWriter
    BY <1>0, <2>3 DEF RunWriter
  <2> QED
    BY <1>6, <2>1, <2>2, <2>3 DEF Run
<1>7. CASE EnterWriter
  BY <1>0, <1>1, <1>2, <1>7 DEF EnterWriter
<1>8. CASE Assess
  <2>1. CASE Give([kind |-> "graph", value |-> proc.graph])
    BY <2>1 DEF ToldOfRefusal, Give
  <2> QED
    BY <1>0, <1>8, <2>1 DEF Assess
<1>9. CASE Crash \/ ApplyReplan
  BY <1>0, <1>9 DEF Crash, ApplyReplan
<1>10. CASE \/ AppendEvent \/ WriteArtifact \/ PlannerAnswers \/ StartExecution \/ StartSubtask
            \/ SearchAnswers \/ StartRead \/ ReadAnswers \/ Anchor \/ WriterAnswers
  BY <1>0, <1>10 DEF AppendEvent, WriteArtifact, PlannerAnswers, StartExecution, StartSubtask,
     SearchAnswers, StartRead, ReadAnswers, Anchor, WriterAnswers
<1> QED
  BY <1>4, <1>5, <1>6, <1>7, <1>8, <1>9, <1>10 DEF Next, Step

\* A stream that does not reduce never does again.
LEMMA RefusedStays == ASSUME Next, ~view.ok PROVE ~view'.ok
<1>1. ASSUME NEW event, Write(event) PROVE ~view'.ok
  BY <1>1 DEF Write, ReduceEvent
<1>2. CASE AppendEvent \/ ApplyReplan
  BY <1>1, <1>2 DEF AppendEvent, ApplyReplan
<1>3. ASSUME UNCHANGED view PROVE ~view'.ok
  BY <1>3
<1> QED
  BY <1>2, <1>3
  DEF Next, Step, Run, WriteArtifact, ReduceStream, Return, PlannerAnswers, StartExecution,
      StartSubtask, SearchAnswers, StartRead, ReadAnswers, Anchor, Assess, EnterWriter,
      WriterAnswers, Crash

\* Once a refusal is given, the stream is refused, and stays so.
LEMMA RefusalKept == ASSUME Core, Honest, RefusalsStand, Next PROVE RefusalsStand'
<1> SUFFICES ASSUME NEW b \in returned', b.kind = "error", b.value \in Codes
             PROVE  ~view'.ok
  BY DEF RefusalsStand, Answered, Codes
<1>1. CASE b \in returned
  BY <1>1, RefusedStays DEF RefusalsStand, Answered, Codes
<1>2. CASE b \notin returned
  <2>1. ToldOfRefusal
    BY RefusalIsTrue
  <2>2. PICK a : /\ returned' = returned \cup {a}
                 /\ a.kind = "error" /\ a.value \in Codes => ~view.ok
    BY <1>2, <2>1 DEF ToldOfRefusal
  <2>3. b = a
    BY <1>2, <2>2
  <2> QED
    BY <2>2, <2>3, RefusedStays
<1> QED
  BY <1>1, <1>2

\* The composed run tells its caller of a stage failure only when the stream
\* says so too, and any caller of a refusal only when the stream is refused;
\* and the stream says so from then on.
THEOREM FailuresPersist == Spec => []FailuresArePersisted
<1>1. Init => StageFailuresPersist /\ RefusalsStand /\ Honest
  BY DEF Init, StageFailuresPersist, RefusalsStand, Answered, Honest, Idle
<1>2. Core /\ StageFailuresPersist /\ [Next]_vars => StageFailuresPersist'
  BY FailureKept DEF vars, StageFailuresPersist, Answered
<1>3. Core /\ Honest /\ [Next]_vars => Honest'
  BY HonestKept DEF vars, Honest
<1>4. Core /\ Honest /\ RefusalsStand /\ [Next]_vars => RefusalsStand'
  BY RefusalKept DEF vars, RefusalsStand, Answered
<1>5. StageFailuresPersist /\ RefusalsStand => FailuresArePersisted
  BY DEF FailuresArePersisted
<1> QED
  BY <1>1, <1>2, <1>3, <1>4, <1>5, CoreHolds, PTL DEF Spec

---------------------------------------------------------------------------
(* Nothing is done twice *)

\* A process at a calling place has its whole script before it, or has just
\* gone on from there.
Fresh == proc'.next \in Calling => Left' >= 3

\* A handler that calls an operation leaves the place it calls it from.
CallsOnce == /\ proc.next \in Calling /\ proc.todo = <<>> /\ Called(Asked)
             /\ proc'.next \notin Calling

\* A tool call that is set up finds its dispatch script unwritten.
LEMMA AskingFresh ==
    ASSUME ProcTypes, NEW op, NEW place, Goto(DispatchTool(op), place)
    PROVE  Fresh
<1> DEFINE t == DispatchTool(op)
<1>1. Len(t) = 3
  BY DEF DispatchTool, Dispatch
<1>2. Goto(t, place)
  OBVIOUS
<1> HIDE DEF t
<1>3. proc'.todo = t
  BY <1>2, GotoNext
<1>4. Left' = 3
  BY <1>1, <1>3 DEF Left
<1> QED
  BY <1>4 DEF Fresh

\* The four steps that call out do it once, for the operation that was dispatched.
LEMMA CallingPlaces ==
    ASSUME Core, \/ PlannerAnswers \/ SearchAnswers \/ ReadAnswers \/ WriterAnswers
    PROVE  CallsOnce /\ UNCHANGED <<config, stream, view>>
<1>0. ASSUME NEW todo, NEW code, Raise(todo, code) PROVE proc'.next \notin Calling
  BY <1>0, RaiseNext DEF Core, Calling
<1>1. CASE PlannerAnswers
  <2>1. proc'.next \notin Calling
    <3>1. CASE PlannerFails
      BY <1>0, <3>1 DEF PlannerFails
    <3>2. CASE PlannerReturns
      <4>1. PICK plan \in Plans, usage \in Usages :
              \/ Stage(<<File("plan", plan)>>, "cross_paper_source_selection_mismatch")
              \/ \E t : proc' = [proc EXCEPT !.todo = t, !.next = "execute", !.plan = plan]
        BY <3>2 DEF PlannerReturns
      <4> QED
        BY <1>0, <4>1 DEF Stage, Core, ProcTypes, Calling
    <3> QED
      BY <1>1, <3>1, <3>2 DEF PlannerAnswers
  <2> QED
    BY <1>1, <2>1 DEF PlannerAnswers, At, CallsOnce, Calling, Asked
<1>2. ASSUME NEW op, ToolFails(op) PROVE proc'.next \notin Calling
  BY <1>0, <1>2 DEF ToolFails, Stage
<1>3. CASE SearchAnswers
  <2>1. proc'.next \notin Calling
    <3>1. CASE ToolFails(Search(proc.subtask))
      BY <1>2, <3>1
    <3>2. ASSUME NEW hits, SearchFinds(hits) PROVE proc'.next \notin Calling
      <4>1. CASE \E t, code : Stage(t, code)
        BY <1>0, <4>1 DEF Stage
      <4>2. ASSUME NEW t, NEW place \in {"anchor", "read"}, NEW reads,
                   proc' = [proc EXCEPT !.todo = t, !.next = place, !.reads = reads]
            PROVE  proc'.next \notin Calling
        BY <4>2 DEF Core, ProcTypes, Calling
      <4> QED
        BY <3>2, <4>1, <4>2 DEF SearchFinds
    <3> QED
      BY <1>3, <3>1, <3>2 DEF SearchAnswers
  <2> QED
    BY <1>3, <2>1 DEF SearchAnswers, At, CallsOnce, Calling, Asked
<1>4. CASE ReadAnswers
  <2>1. proc'.next \notin Calling
    <3>1. CASE ToolFails(Reading)
      BY <1>2, <3>1
    <3>2. ASSUME proc' = [proc EXCEPT !.todo = ToolSucceeded(Reading), !.reads = Tail(@),
                               !.last = Head(proc.reads),
                               !.next = IF Len(proc.reads) = 1 THEN "anchor" ELSE "read"]
          PROVE  proc'.next \notin Calling
      BY <3>2 DEF Core, ProcTypes, Calling
    <3> QED
      BY <1>4, <3>1, <3>2 DEF ReadAnswers
  <2> QED
    BY <1>4, <2>1 DEF ReadAnswers, At, CallsOnce, Calling, Asked
<1>5. CASE WriterAnswers
  <2>1. proc'.next \notin Calling
    <3>1. ASSUME NEW t, NEW status,
                 proc' = [proc EXCEPT !.todo = t, !.next = "return", !.result = status]
          PROVE  proc'.next \notin Calling
      BY <3>1 DEF Core, ProcTypes, Calling
    <3>2. CASE WriterFails
      BY <1>0, <3>1, <3>2 DEF WriterFails
    <3>3. CASE WriterReturns
      BY <1>0, <3>1, <3>3 DEF WriterReturns
    <3> QED
      BY <1>5, <3>2, <3>3 DEF WriterAnswers
  <2> QED
    BY <1>5, <2>1 DEF WriterAnswers, At, CallsOnce, Calling, Asked
<1> QED
  BY <1>1, <1>3, <1>4, <1>5 DEF PlannerAnswers, SearchAnswers, ReadAnswers, WriterAnswers

\* The steps that call nobody leave the counts alone and start only fresh scripts.
LEMMA OtherPlaces ==
    ASSUME Core, \/ StartExecution \/ StartSubtask \/ StartRead \/ Anchor \/ Assess \/ EnterWriter
                 \/ Run \/ Return \/ Crash \/ (ReduceStream /\ ~view.ok)
    PROVE  Fresh /\ UNCHANGED <<config, stream, view, calls>>
<1>a. UNCHANGED <<config, stream, view, calls>>
  BY DEF StartExecution, StartSubtask, StartRead, Anchor, Assess, EnterWriter, Run, Return, Crash,
     ReduceStream
<1> SUFFICES Fresh
  BY <1>a
<1>0. ASSUME NEW todo, NEW code, Raise(todo, code) PROVE Fresh
  BY <1>0, RaiseNext DEF Core, Calling, Fresh
<1>1. ASSUME NEW todo, NEW code, Stage(todo, code) PROVE Fresh
  BY <1>0, <1>1 DEF Stage
<1>2. ASSUME NEW todo, NEW place, place \notin Calling, Goto(todo, place) PROVE Fresh
  BY <1>2, GotoNext DEF Core, Fresh
<1>3. ASSUME proc'.next \notin Calling PROVE Fresh
  BY <1>3 DEF Fresh
<1>4. ASSUME proc' = Idle PROVE Fresh
  BY <1>3, <1>4 DEF Idle, Calling
<1>5. ASSUME NEW answer, Give(answer) PROVE Fresh
  BY <1>4, <1>5 DEF Give
<1>6. CASE StartExecution
  <2>1. ASSUME proc' = [proc EXCEPT !.next = "subtask", !.subtask = 1] PROVE Fresh
    BY <1>3, <2>1 DEF Core, ProcTypes, Calling
  <2> QED
    BY <1>1, <1>6, <2>1 DEF StartExecution
<1>7. CASE StartSubtask
  BY <1>1, <1>2, <1>7, AskingFresh DEF StartSubtask, Calling, Core
<1>8. CASE StartRead
  BY <1>1, <1>8, AskingFresh DEF StartRead, Core
<1>9. CASE Anchor
  <2>1. ASSUME proc' = [proc EXCEPT !.next = "subtask", !.subtask = @ + 1,
                                    !.graph = Append(@, Unit(proc.last))]
        PROVE  Fresh
    BY <1>3, <2>1 DEF Core, ProcTypes, Calling
  <2> QED
    BY <1>0, <1>1, <1>9, <2>1 DEF Anchor
<1>10. CASE Assess
  BY <1>1, <1>2, <1>5, <1>10 DEF Assess, Calling
<1>11. CASE EnterWriter
  <2>1. ASSUME view.status \in Admissible,
               Goto(WriterPreamble \o Dispatch(Writer, "budget_exhausted"), "writing")
        PROVE  Fresh
    <3>1. Len(proc'.todo) >= 3
      BY <2>1, WriterOpens, GotoNext DEF Core
    <3> QED
      BY <3>1 DEF Fresh, Left
  <2> QED
    BY <1>0, <1>5, <1>11, <2>1 DEF EnterWriter, WriterAdmitted, Refuse
<1>12. CASE Run
  <2>1. CASE RunComposed
    <3>1. CASE ResumeAtWriter
      <4>1. ASSUME proc' = [Idle EXCEPT !.next = "writer", !.plan = StoredPlan,
                                        !.graph = disk["graph"]]
            PROVE  Fresh
        BY <1>3, <4>1 DEF Idle, Calling
      <4> QED
        BY <1>1, <1>5, <3>1, <4>1 DEF ResumeAtWriter, Refuse
    <3>2. CASE Enter(RunStartedEvents \o Dispatch(Planner, "rejected"), "planning")
      <4> DEFINE r == RunStarted
                 a == Approve
                 b == Begin
                 x == Reserve1(Planner)
                 y == Reduce("rejected")
                 z == OperationDispatched(Planner, 1)
                 t == <<r, a, b, x, y, z>>
      <4>1. Dispatch(Planner, "rejected") = <<x, y, z>> /\ RunStartedEvents = <<r, a, b>>
        BY DEF Dispatch, RunStartedEvents, Approve, Begin
      <4>2. Len(t) = 6
        OBVIOUS
      <4> HIDE DEF r, a, b, x, y, z
      <4>3. RunStartedEvents \o Dispatch(Planner, "rejected") = t
        <5>1. <<r, a, b>> \o <<x, y, z>> = <<r, a, b, x, y, z>>
          BY Join33
        <5> QED
          BY <4>1, <5>1
      <4> HIDE DEF t
      <4>4. proc'.todo = t
        BY <3>2, <4>3 DEF Enter, Idle
      <4>5. Left' = 6
        BY <4>2, <4>4 DEF Left
      <4> QED
        BY <4>5 DEF Fresh
    <3> QED
      BY <1>5, <2>1, <3>1, <3>2 DEF RunComposed, Refuse
  <2>2. CASE RunExecutor
    <3>1. ASSUME proc' = [Idle EXCEPT !.todo = ExecutionWrites, !.next = "subtask",
                                      !.subtask = 1, !.plan = config.plan]
          PROVE  Fresh
      BY <1>3, <3>1 DEF Idle, Calling
    <3> QED
      BY <1>5, <2>2, <3>1 DEF RunExecutor, Refuse
  <2>3. CASE RunWriter
    <3>1. proc'.next = "writer"
      BY <2>3 DEF RunWriter, Idle
    <3> QED
      BY <1>3, <3>1 DEF Calling
  <2> QED
    BY <1>12, <2>1, <2>2, <2>3 DEF Run
<1>13. CASE Return \/ Crash \/ (ReduceStream /\ ~view.ok)
  BY <1>4, <1>5, <1>13 DEF Return, Crash, ReduceStream
<1> QED
  BY <1>6, <1>7, <1>8, <1>9, <1>10, <1>11, <1>12, <1>13

\* An operation that was called is not one the reducer lets be reserved again.
Consumed == {"started", "succeeded", "failed_known", "outcome_unknown"}
Status(op) == view.journal[op].status
Spent == \A op \in Ops : /\ calls[op] \in {0, 1}
                         /\ view.ok /\ calls[op] = 1 => Status(op) \in Consumed
\* Where an operation is called, it is reserved, dispatched, and not yet called.
Due1 == proc.next \in Calling =>
            /\ Left = 2 /\ view.ok => Status(Asked) = "reserved"
            /\ Left = 1 => view.ok /\ Status(Asked) = "reserved"
            /\ Left = 0 => calls[Asked] = 0 /\ (view.ok => Status(Asked) = "started")
Once == Spent /\ Due1

\* The replans of the stream are the ones the budget has counted.
Admissions == {i \in DOMAIN stream : stream[i].type = "replan_decided"}
Admitted ==
    /\ IsFiniteSet(Admissions) /\ Cardinality(Admissions) <= config.spec.maxReplans
    /\ view.ok => view.ledger.replans = Cardinality(Admissions)
    /\ \A i, j \in Admissions : stream[i].attempt = stream[j].attempt => i = j

\* What a move of one operation does to the statuses of all of them.
LEMMA MovesStatuses ==
    ASSUME NEW op \in Ops, NEW S, NEW t, Moves(view, view', op, S, t), view'.ok
    PROVE  /\ view.ok /\ Status(op) \in S /\ Status(op)' = t
           /\ \A p \in Ops : p # op => Status(p)' = Status(p)
BY DEF Moves, Status

\* An append keeps one dispatch and one outcome for each operation.
LEMMA AppendKeepsOnce ==
    ASSUME Core, Once, AppendEvent
    PROVE  Once'
<1>0. /\ Doing /\ ProcTypes' /\ Stepped /\ Effects /\ SameProc /\ calls' = calls
  BY AppendIsDoing DEF Doing, Popping, AppendEvent
<1>1. Due /\ Left' = Left - 1 /\ Left \in Nat \ {0}
  BY <1>0, HeadIsFirst DEF Stepped, AppendEvent, Core, Left
<1>2. ~Files /\ ~Checks /\ ~Checkpoints
  BY DEF AppendEvent, Files, Checks, Checkpoints, Checkpoint, Reduce
<1>3. Asked' = Asked /\ (proc.next \in Calling => Asked \in Ops) /\ proc'.next = proc.next
  BY <1>0, AskedKnown DEF SameProc, Asked, Reading, Core
<1>4. PipelineOps \subseteq Ops
  BY OpsAssumption
<1>5. Spent'
  <2> SUFFICES ASSUME NEW op \in Ops, view'.ok, calls[op] = 1 PROVE Status(op)' \in Consumed
    BY <1>0 DEF Once, Spent
  <2>0. view.ok /\ Status(op) \in Consumed
    BY <1>0 DEF Effects, Once, Spent
  <2>1. CASE view'.journal = view.journal
    BY <2>0, <2>1 DEF Status
  <2>2. CASE Reserves
    <3>1. /\ Asked \in Ops
          /\ Moves(view, view', Asked, {"absent", "planned", "reserved"}, "reserved")
      BY <1>0, <1>3, <2>2 DEF Effects, Reserves
    <3>2. op # Asked
      BY <2>0, <3>1, MovesStatuses DEF Consumed
    <3> QED
      BY <2>0, <3>1, <3>2, MovesStatuses
  <2>3. CASE Dispatches
    <3>1. Asked \in Ops /\ Moves(view, view', Asked, {"planned", "reserved"}, "started")
      BY <1>0, <1>3, <2>3 DEF Effects, Dispatches
    <3> QED
      BY <2>0, <3>1, MovesStatuses DEF Consumed
  <2>4. CASE Settles
    <3>1. PICK o \in Ops, t \in Settled : Moves(view, view', o, OperationStatus, t)
      BY <1>0, <1>4, <2>4 DEF Effects
    <3>2. Status(o)' \in Consumed /\ (o # op => Status(op)' = Status(op))
      BY <3>1, MovesStatuses DEF Consumed, Settled
    <3> QED
      BY <2>0, <3>2
  <2>5. CASE StartsRun \/ Elapses \/ Fails \/ Validates \/ Concludes
    <3>1. view' = view \/ Stays(view, view')
      BY <1>0, <2>5 DEF Effects
    <3> QED
      BY <2>1, <3>1 DEF Stays
  <2> QED
    BY <1>1, <1>2, <2>2, <2>3, <2>4, <2>5 DEF Due
<1>6. Due1'
  <2> SUFFICES ASSUME proc.next \in Calling
               PROVE  /\ Left' = 2 /\ view'.ok => Status(Asked)' = "reserved"
                      /\ Left' = 1 => view'.ok /\ Status(Asked)' = "reserved"
                      /\ Left' = 0 => calls[Asked] = 0 /\ (view'.ok => Status(Asked)' = "started")
    BY <1>0, <1>3 DEF Due1
  <2>1. StartsRun \/ Reserves \/ Dispatches
    BY <1>1, <1>2 DEF Due, Settles, Elapses, Fails, Validates, Concludes, Calling
  <2>2. CASE StartsRun
    BY <1>1, <2>2 DEF StartsRun, Calling
  <2>3. CASE Reserves
    <3>1. Asked \in Ops /\ Left = 3
          /\ Moves(view, view', Asked, {"absent", "planned", "reserved"}, "reserved")
      BY <1>0, <1>3, <2>3 DEF Effects, Reserves
    <3>2. view'.ok => view'.journal[Asked].status = "reserved"
      BY <3>1 DEF Moves
    <3> QED
      BY <1>1, <1>3, <3>1, <3>2 DEF Status
  <2>4. CASE Dispatches
    <3>1. Asked \in Ops /\ Left = 1 /\ Moves(view, view', Asked, {"planned", "reserved"}, "started")
      BY <1>0, <1>3, <2>4 DEF Effects, Dispatches
    <3>2. view.ok /\ Status(Asked) = "reserved"
      BY <3>1 DEF Once, Due1
    <3>3. calls[Asked] = 0
      BY <3>1, <3>2 DEF Once, Spent, Consumed
    <3>4. view'.ok => view'.journal[Asked].status = "started"
      BY <3>1 DEF Moves
    <3> QED
      BY <1>1, <1>3, <3>1, <3>3, <3>4 DEF Status
  <2> QED
    BY <2>1, <2>2, <2>3, <2>4
<1> QED
  BY <1>5, <1>6 DEF Once

\* The files and the reductions of a script leave everything it relies on.
LEMMA PassingKeepsOnce ==
    ASSUME Core, Once, WriteArtifact \/ (ReduceStream /\ view.ok)
    PROVE  Once' /\ UNCHANGED <<config, stream, view, calls>>
<1>0. UNCHANGED <<config, stream, view, calls>>
  BY DEF WriteArtifact, ReduceStream
<1>1. Doing /\ Stepped /\ SameProc /\ Due /\ Left' = Left - 1 /\ Left \in Nat \ {0}
  BY FileIsDoing, ReduceIsDoing, HeadIsFirst
  DEF Core, Stepped, Doing, Popping, WriteArtifact, ReduceStream, Left
<1>2. Spent'
  BY <1>0 DEF Once, Spent, Status
<1>3. Due1'
  <2> SUFFICES ASSUME proc.next \in Calling, Due1
               PROVE  /\ Left' = 2 /\ view.ok => Status(Asked) = "reserved"
                      /\ Left' = 1 => view.ok /\ Status(Asked) = "reserved"
                      /\ Left' = 0 => calls[Asked] = 0 /\ (view.ok => Status(Asked) = "started")
    <3>1. Asked' = Asked /\ proc'.next = proc.next /\ Status(Asked)' = Status(Asked)
      BY <1>0, <1>1 DEF SameProc, Asked, Reading, Status
    <3> QED
      BY <1>0, <3>1 DEF Once, Due1
  <2>1. Checks /\ view.ok
    <3>1. CASE WriteArtifact
      <4>1. Work.type = "file"
        BY <3>1 DEF WriteArtifact
      <4>2. Files \/ ~Files
        OBVIOUS
      <4>3. ~StartsRun /\ ~Reserves /\ ~Dispatches /\ ~Checks
        BY <4>1 DEF StartsRun, Reserves, Dispatches, Checks, Reduce,
                    RunStarted, Approve, Begin, Lifecycle, Reserve1, OperationReserved,
                    OperationDispatched
      <4> QED
        BY <1>1, <4>3 DEF Due, Settles, Elapses, Fails, Validates, Concludes, Files, Checkpoints,
           Calling
    <3>2. CASE ReduceStream /\ view.ok
      BY <1>1, <3>2, ReduceDue DEF ReduceStream, Checkpoints
    <3> QED
      BY <3>1, <3>2
  <2>2. Left = 2
    BY <2>1 DEF Checks
  <2> QED
    BY <1>1, <2>1, <2>2 DEF Due1
<1> QED
  BY <1>0, <1>2, <1>3 DEF Once

\* Every action keeps one dispatch, one call and one outcome for each operation.
LEMMA StepKeepsOnce ==
    ASSUME Core, Once, Next
    PROVE  Once'
<1>1. CASE AppendEvent
  BY <1>1, AppendKeepsOnce
<1>2. CASE WriteArtifact \/ (ReduceStream /\ view.ok)
  BY <1>2, PassingKeepsOnce
<1>3. CASE ApplyReplan
  <2>1. Idling /\ proc' = proc /\ Stays(view, view') /\ calls' = calls
    BY <1>3, ReplanKeepsCore DEF ApplyReplan
  <2>2. Spent'
    BY <2>1 DEF Once, Spent, Stays, Status
  <2>3. Due1'
    BY <2>1 DEF Due1, Idling, Idle, Calling
  <2> QED
    BY <2>2, <2>3 DEF Once
<1>4. CASE PlannerAnswers \/ SearchAnswers \/ ReadAnswers \/ WriterAnswers
  <2>1. CallsOnce /\ UNCHANGED <<config, stream, view>>
    BY <1>4, CallingPlaces
  <2>2. /\ proc.next \in Calling /\ Left = 0 /\ Called(Asked) /\ Asked \in Ops
        /\ proc'.next \notin Calling
    BY <2>1, AskedKnown DEF CallsOnce, Core, Left
  <2>3. /\ calls[Asked] = 0 /\ (view.ok => Status(Asked) = "started")
        /\ \A p \in Ops : calls'[p] = IF p = Asked THEN calls[p] + 1 ELSE calls[p]
    BY <2>2, CallsCounted DEF Once, Due1
  <2>4. Spent'
    BY <2>1, <2>3 DEF Once, Spent, Consumed, Status
  <2>5. Due1'
    BY <2>2 DEF Due1
  <2> QED
    BY <2>4, <2>5 DEF Once
<1>5. CASE \/ StartExecution \/ StartSubtask \/ StartRead \/ Anchor \/ Assess \/ EnterWriter
           \/ Run \/ Return \/ Crash \/ (ReduceStream /\ ~view.ok)
  <2>1. Fresh /\ UNCHANGED <<config, stream, view, calls>>
    BY <1>5, OtherPlaces
  <2>2. Spent'
    BY <2>1 DEF Once, Spent, Status
  <2>3. Due1'
    <3>1. SUFFICES ASSUME Left' >= 3 PROVE ~(Left' = 2) /\ ~(Left' = 1) /\ ~(Left' = 0)
      BY <2>1 DEF Fresh, Due1
    <3> QED
      BY <3>1
  <2> QED
    BY <2>2, <2>3 DEF Once
<1> QED
  BY <1>1, <1>2, <1>3, <1>4, <1>5 DEF Next, Step

\* An event that is no replan leaves the admissions of the stream.
LEMMA AdmissionsStay ==
    ASSUME IsList(stream), NEW e, stream' = Append(stream, e), e.type # "replan_decided"
    PROVE  Admissions' = Admissions /\ \A i \in Admissions : stream'[i] = stream[i]
<1>1. PICK S : stream \in Seq(S)
  BY DEF IsList
<1>2. stream \in Seq(S \cup {e})
  BY <1>1
<1>3. /\ Len(stream) \in Nat /\ DOMAIN stream = 1..Len(stream)
      /\ DOMAIN stream' = 1..Len(stream) + 1 /\ stream'[Len(stream) + 1] = e
      /\ \A i \in 1..Len(stream) : stream'[i] = stream[i]
  BY <1>2
<1>4. \A i : i \in 1..Len(stream) + 1 <=> i \in 1..Len(stream) \/ i = Len(stream) + 1
  BY <1>3
<1> QED
  BY <1>3, <1>4 DEF Admissions

\* An admission is one more of them, and is told from the earlier ones.
LEMMA AdmissionsGrow ==
    ASSUME IsList(stream), NEW e, stream' = Append(stream, e), e.type = "replan_decided"
    PROVE  \E n : /\ n \notin Admissions /\ Admissions' = Admissions \cup {n}
                  /\ stream'[n] = e /\ \A i \in Admissions : stream'[i] = stream[i]
<1>1. PICK S : stream \in Seq(S)
  BY DEF IsList
<1>2. stream \in Seq(S \cup {e})
  BY <1>1
<1> DEFINE n == Len(stream) + 1
<1>3. /\ Len(stream) \in Nat /\ DOMAIN stream = 1..Len(stream)
      /\ DOMAIN stream' = 1..n /\ stream'[n] = e
      /\ \A i \in 1..Len(stream) : stream'[i] = stream[i]
  BY <1>2
<1>4. /\ \A i : i \in 1..n <=> i \in 1..Len(stream) \/ i = n
      /\ n \notin 1..Len(stream)
  BY <1>3
<1> HIDE DEF n
<1>5. n \notin Admissions /\ Admissions' = Admissions \cup {n}
  BY <1>3, <1>4 DEF Admissions
<1>6. \A i \in Admissions : stream'[i] = stream[i]
  BY <1>3 DEF Admissions
<1> QED
  BY <1>3, <1>5, <1>6

\* Nothing a handler writes is a replan.
LEMMA DueIsNoReplan ==
    ASSUME Due
    PROVE  Work.type # "replan_decided"
<1>1. CASE StartsRun \/ Reserves \/ Checks \/ Dispatches
  BY <1>1 DEF StartsRun, Reserves, Checks, Dispatches, RunStarted, Approve, Begin, Lifecycle,
     Reserve1, OperationReserved, Reduce, OperationDispatched
<1>2. CASE Settles
  BY <1>2 DEF Settles, Outcome, OperationUnknown, OperationFailed, OperationSucceeded
<1>3. CASE Files \/ Elapses \/ Checkpoints \/ Fails \/ Validates \/ Concludes
  BY <1>3 DEF Files, Elapses, Checkpoints, Checkpoint, Reduce, Fails, Failed, Validates,
     Concludes, Lifecycle
<1> QED
  BY <1>1, <1>2, <1>3 DEF Due

\* A decision the stream records was admitted by the limit of replans.
LEMMA AppendKeepsAdmitted ==
    ASSUME Core, Admitted, AppendEvent
    PROVE  Admitted'
<1>0. /\ Due /\ Effects /\ SameProc /\ IsList(stream)
  BY AppendIsDoing DEF Doing, Popping, Stepped, Core, Durable
<1>1. Admissions' = Admissions /\ \A i \in Admissions : stream'[i] = stream[i]
  <2> DEFINE e == Work
  <2>1. stream' = Append(stream, e) /\ e.type # "replan_decided"
    BY <1>0, DueIsNoReplan DEF AppendEvent, Write
  <2> HIDE DEF e
  <2> QED
    BY <1>0, <2>1, AdmissionsStay
<1>2. view'.ok => view.ok /\ view'.ledger.replans = view.ledger.replans
  <2>0. view'.ok => view.ok
    BY <1>0 DEF Effects
  <2>1. CASE StartsRun \/ Fails \/ Validates \/ Concludes
    BY <1>0, <2>0, <2>1 DEF Effects
  <2>2. CASE Reserves \/ Dispatches \/ Settles
    BY <1>0, <2>0, <2>2 DEF Effects, Moves
  <2>3. CASE Elapses
    BY <1>0, <2>0, <2>3 DEF Effects
  <2>4. ~Files /\ ~Checks /\ ~Checkpoints
    BY DEF AppendEvent, Files, Checks, Checkpoints, Checkpoint, Reduce
  <2> QED
    BY <1>0, <2>1, <2>2, <2>3, <2>4 DEF Due
<1>3. config' = config
  BY <1>0 DEF SameProc
<1> QED
  BY <1>1, <1>2, <1>3 DEF Admitted

\* The replan of the writer's entry is recorded once, and within the limit.
LEMMA ReplanKeepsAdmitted ==
    ASSUME Core, Admitted, ApplyReplan
    PROVE  Admitted'
<1>1. PICK ordinal \in 0..view.ledger.replans :
          /\ ~Decided(ordinal) /\ CanRecordReplan(view.ledger, config.spec)
          /\ stream' = Append(stream, ReplanDecided(Planner, ordinal, TRUE))
          /\ view'.ledger.replans = view.ledger.replans + 1
  BY ReplanKeepsCore
<1>2. view.ok /\ config' = config
  BY DEF ApplyReplan
<1> DEFINE e == ReplanDecided(Planner, ordinal, TRUE)
<1>3. e.type = "replan_decided" /\ e.attempt = ordinal
  BY DEF ReplanDecided
<1>4. stream' = Append(stream, e)
  BY <1>1
<1>5. IsList(stream)
  BY DEF Core, Durable
<1> HIDE DEF e
<1>6. PICK n : /\ n \notin Admissions /\ Admissions' = Admissions \cup {n}
               /\ stream'[n] = e /\ \A i \in Admissions : stream'[i] = stream[i]
  BY <1>3, <1>4, <1>5, AdmissionsGrow
<1>7. IsFiniteSet(Admissions') /\ Cardinality(Admissions') = Cardinality(Admissions) + 1
  BY <1>6, FS_AddElement DEF Admitted
<1>8. Cardinality(Admissions') <= config.spec.maxReplans
  <2>1. view.ledger.replans < config.spec.maxReplans
    BY <1>1 DEF CanRecordReplan
  <2>2. Cardinality(Admissions) \in Nat /\ Cardinality(Admissions) < config.spec.maxReplans
    BY <1>2, <2>1, FS_CardinalityType DEF Admitted
  <2>3. config.spec.maxReplans \in Nat
    BY PipelineAssumption DEF Core, Durable
  <2> QED
    BY <1>7, <2>2, <2>3
<1>9. view'.ledger.replans = Cardinality(Admissions')
  BY <1>1, <1>2, <1>7 DEF Admitted
<1>10. \A i \in Admissions : stream[i].attempt # ordinal
  BY <1>1 DEF Decided, Events, Admissions
<1>11. \A i, j \in Admissions' : stream'[i].attempt = stream'[j].attempt => i = j
  BY <1>3, <1>6, <1>10 DEF Admitted
<1> QED
  BY <1>2, <1>7, <1>8, <1>9, <1>11 DEF Admitted

\* Every action keeps the recorded replans within the limit.
LEMMA StepKeepsAdmitted ==
    ASSUME Core, Once, Admitted, Next
    PROVE  Admitted'
<1>0. ASSUME UNCHANGED <<config, stream, view>> PROVE Admitted'
  BY <1>0 DEF Admitted, Admissions
<1>1. CASE AppendEvent
  BY <1>1, AppendKeepsAdmitted
<1>2. CASE ApplyReplan
  BY <1>2, ReplanKeepsAdmitted
<1>3. CASE Next /\ ~AppendEvent /\ ~ApplyReplan
  BY <1>0, <1>3 DEF Next, Step, Run, Crash, WriteArtifact, ReduceStream, Return,
     PlannerAnswers, StartExecution, StartSubtask, SearchAnswers, StartRead, ReadAnswers, Anchor,
     Assess, EnterWriter, WriterAnswers
<1> QED
  BY <1>1, <1>2, <1>3

\* No provider and no tool is called twice, wherever run() dies and however
\* often it is called, and no replan is admitted twice or beyond the spec.
THEOREM NothingTwice == Spec => []NothingDoneTwice
<1>1. Init => Once /\ Admitted
  <2> SUFFICES ASSUME Init PROVE Once /\ Admitted
    OBVIOUS
  <2>1. Once
    BY DEF Init, Once, Spent, Due1, Idle, Calling
  <2>2. Admissions = {} /\ view.ledger.replans = 0
    BY DEF Init, Admissions, InitialView, EmptyLedger
  <2>3. config.spec.maxReplans \in Nat
    BY PipelineAssumption DEF Init
  <2> QED
    BY <2>1, <2>2, <2>3, FS_EmptySet DEF Admitted
<1>2. Core /\ Once /\ Admitted /\ [Next]_vars => (Once /\ Admitted)'
  <2>1. ASSUME Core, Once, Admitted, Next PROVE (Once /\ Admitted)'
    BY <2>1, StepKeepsOnce, StepKeepsAdmitted
  <2>2. ASSUME Once, Admitted, UNCHANGED vars PROVE (Once /\ Admitted)'
    <3>1. Once'
      BY <2>2 DEF vars, Once, Spent, Due1, Status, Asked, Reading, Left
    <3>2. Admitted'
      BY <2>2 DEF vars, Admitted, Admissions
    <3> QED
      BY <3>1, <3>2
  <2> QED
    BY <2>1, <2>2
<1>3. Core /\ Once /\ Admitted => NothingDoneTwice
  BY DEF Once, Spent, Admitted, Admissions, NothingDoneTwice, Core
<1> QED
  BY <1>1, <1>2, <1>3, CoreHolds, PTL DEF Spec

---------------------------------------------------------------------------
(* What is on the books *)

\* Operations the journal has open or failed, and those the script settles.
Loose == {op \in Ops : Status(op) \notin {"absent", "succeeded"}}
OutcomeTypes == {"operation_succeeded", "operation_failed", "operation_unknown"}
Owing(x) == {op \in Ops : x.type \in OutcomeTypes /\ x.op = op}
Owes(t) == {op \in Ops : \E i \in 1..Len(t) : op \in Owing(t[i])}
Owed == Owes(proc.todo)

\* Between the planner's answer and the assessment, the script of a report on
\* its way to a conclusion, and a stream that only the writer may go on with.
Composed == {"execute"} \cup Executing
Closing ==
    proc.next = "return" /\ \E i \in 1..Left, c \in Conclusions :
                                proc.todo[i] = Lifecycle("validating", c)
Bound == config.entry = "writer" \/ ArtifactRefs # {}

\* Whoever goes on with a bound stream has nothing but the writer to settle.
Bounded ==
    /\ ArtifactRefs # {} => IsRunner
    /\ Bound => /\ proc.next \notin {"planning"} \cup Composed
                /\ proc.next = "raise" => Owed \subseteq {Writer}

\* A reservation is held for an operation that is open.
Backed == \A r \in view.ledger.reservations : r.attempt = 1 /\ r.op \in Loose

\* What is open is what the process is about to settle.
Square ==
    /\ Bound => Loose \subseteq {Writer}
    /\ view.status \in Conclusions => Loose = {}
    /\ config.entry # "executor" =>
          /\ proc.next \in Calling => Loose \subseteq {Asked}
          /\ proc.next \in Composed \ Calling => Loose \subseteq Owed
          /\ proc.next \in {"writer", "return"} => Loose \subseteq {Writer}
          /\ Closing => Loose \subseteq Owed
Books == Bounded /\ (view.ok => Backed /\ Square)

\* What is left of a script is made of its writes.
LEMMA ItemsOf ==
    ASSUME ProcTypes, NEW s, IsList(s), Writes(s)
    PROVE  \A i \in 1..Left : \E j \in 1..Len(s) : proc.todo[i] = s[j]
<1> DEFINE n == Len(proc.todo)
           m == Len(s)
<1>1. n \in Nat /\ m \in Nat
  BY DEF ProcTypes, IsList
<1>2. n <= m /\ \A i \in 1..n : proc.todo[i] = s[m - n + i]
  BY DEF Writes, Rest
<1> HIDE DEF n, m
<1>3. \A i \in 1..n : m - n + i \in 1..m
  BY <1>1, <1>2
<1>4. \A i \in 1..n : \E j \in 1..m : proc.todo[i] = s[j]
  BY <1>2, <1>3
<1> QED
  BY <1>4 DEF n, m, Left

\* Lists of one to six writes: what is left of them is some of these.
LEMMA EachItem ==
    ASSUME ProcTypes
    PROVE  /\ \A a : Writes(<<a>>) => \A i \in 1..Left : proc.todo[i] = a
           /\ \A a, b : Writes(<<a, b>>) => \A i \in 1..Left : proc.todo[i] \in {a, b}
           /\ \A a, b, c : Writes(<<a, b, c>>) => \A i \in 1..Left : proc.todo[i] \in {a, b, c}
           /\ \A a, b, c, d : Writes(<<a, b, c, d>>) =>
                 \A i \in 1..Left : proc.todo[i] \in {a, b, c, d}
           /\ \A a, b, c, d, e : Writes(<<a, b, c, d, e>>) =>
                 \A i \in 1..Left : proc.todo[i] \in {a, b, c, d, e}
           /\ \A a, b, c, d, e, f : Writes(<<a, b, c, d, e, f>>) =>
                 \A i \in 1..Left : proc.todo[i] \in {a, b, c, d, e, f}
<1>1. ASSUME NEW S, NEW s \in Seq(S), Writes(s) PROVE \A i \in 1..Left : proc.todo[i] \in S
  <2>1. IsList(s) /\ \A j \in 1..Len(s) : s[j] \in S
    BY DEF IsList
  <2> QED
    BY <1>1, <2>1, ItemsOf
<1>2. /\ \A a : <<a>> \in Seq({a})
      /\ \A a, b : <<a, b>> \in Seq({a, b})
      /\ \A a, b, c : <<a, b, c>> \in Seq({a, b, c})
      /\ \A a, b, c, d : <<a, b, c, d>> \in Seq({a, b, c, d})
      /\ \A a, b, c, d, e : <<a, b, c, d, e>> \in Seq({a, b, c, d, e})
      /\ \A a, b, c, d, e, f : <<a, b, c, d, e, f>> \in Seq({a, b, c, d, e, f})
  OBVIOUS
<1>3. \A a : Writes(<<a>>) => \A i \in 1..Left : proc.todo[i] = a
  <2> SUFFICES ASSUME NEW a, Writes(<<a>>) PROVE \A i \in 1..Left : proc.todo[i] \in {a}
    OBVIOUS
  <2> QED
    BY <1>1, <1>2
<1> QED
  BY <1>1, <1>2, <1>3

\* Writes that settle nothing and record no artifacts.
Mute(x) == x.type \notin OutcomeTypes /\ x.type # "elapsed_recorded"

\* The types of the writes.
LEMMA WriteTypes ==
    /\ Mute(RunStarted) /\ Mute(Approve) /\ Mute(Begin) /\ Mute(Failed) /\ Mute(Checkpoint)
    /\ Mute(PlanFile) /\ Mute(GraphFile)
    /\ \A name, content : Mute(File(name, content))
    /\ \A from, to : Mute(Lifecycle(from, to))
    /\ \A code : Mute(Reduce(code))
    /\ \A op : Mute(Reserve1(op)) /\ Mute(OperationDispatched(op, 1))
    /\ Elapsed.type = "elapsed_recorded" /\ References.type = "elapsed_recorded"
<1>1. /\ Mute(RunStarted) /\ Mute(Approve) /\ Mute(Begin) /\ Mute(Failed)
      /\ \A from, to : Mute(Lifecycle(from, to))
  BY DEF Mute, OutcomeTypes, RunStarted, Approve, Begin, Failed, Lifecycle
<1>2. /\ Mute(Checkpoint) /\ \A code : Mute(Reduce(code))
      /\ Mute(PlanFile) /\ Mute(GraphFile) /\ \A name, content : Mute(File(name, content))
  BY DEF Mute, OutcomeTypes, Checkpoint, Reduce, PlanFile, GraphFile, File
<1>3. \A op : Mute(Reserve1(op)) /\ Mute(OperationDispatched(op, 1))
  BY DEF Mute, OutcomeTypes, Reserve1, OperationReserved, OperationDispatched
<1>4. Elapsed.type = "elapsed_recorded" /\ References.type = "elapsed_recorded"
  BY DEF Elapsed, ElapsedRecorded, References, ArtifactsRecorded
<1> QED
  BY <1>1, <1>2, <1>3, <1>4

\* The types of the outcomes.
LEMMA OutcomesTyped ==
    /\ \A op, u, c : /\ OperationSucceeded(op, 1, u, c).type = "operation_succeeded"
                     /\ OperationSucceeded(op, 1, u, c).op = op
    /\ \A op, u, c : /\ OperationFailed(op, 1, u, c).type = "operation_failed"
                     /\ OperationFailed(op, 1, u, c).op = op
    /\ \A op : /\ OperationUnknown(op, 1).type = "operation_unknown"
               /\ OperationUnknown(op, 1).op = op
BY DEF OperationSucceeded, OperationFailed, OperationUnknown

\* What may be left to write at each place.
Settling(x) == x.type \in OutcomeTypes
Wins(x) == Settling(x) => x.type = "operation_succeeded"
Ticks(x) == x.type = "elapsed_recorded" => x = Elapsed
Items ==
    \A i \in 1..Left : LET x == proc.todo[i] IN
        /\ proc.next \in Calling \cup {"subtask", "graph"} => Mute(x)
        /\ proc.next \in Composed => Wins(x) /\ Ticks(x)
        /\ proc.next = "writer" => IsRunner /\ ~Settling(x) /\ (Mute(x) \/ x = References)
        /\ proc.next = "return" => /\ Ticks(x) /\ (Settling(x) => x.op = Writer)
                                   /\ Closing => Wins(x)
        /\ proc.next = "raise" => Ticks(x)

\* Every script has its writes where they are expected.
LEMMA ItemsHold == ASSUME ProcTypes, Shape PROVE Items
<1>0. \A x : Mute(x) => ~Settling(x) /\ Wins(x) /\ Ticks(x)
  BY DEF Mute, Settling, Wins, Ticks
<1>a. Wins(Elapsed) /\ Ticks(Elapsed) /\ ~Settling(Elapsed) /\ ~Settling(References)
  BY WriteTypes DEF Wins, Ticks, Settling, OutcomeTypes
<1>b. \A x : x.type \in OutcomeTypes => Ticks(x)
  BY DEF Ticks, OutcomeTypes
<1>1. CASE Planning \/ Writing
  <2>1. \E op, code : Writes(<<RunStarted, Approve, Begin, Reserve1(op), Reduce(code),
                               OperationDispatched(op, 1)>>)
    BY <1>1 DEF Planning, Writing, Opening
  <2>2. \A i \in 1..Left : Mute(proc.todo[i])
    BY <2>1, EachItem, WriteTypes
  <2>3. proc.next \in {"planning", "writing"}
    BY <1>1 DEF Planning, Writing
  <2> QED
    BY <2>2, <2>3 DEF Items, Composed, Executing
<1>2. CASE Planned
  <2>1. PICK usage :
            \/ Writes(<<PlanFile, PlanDone(usage), Elapsed, Checkpoint>>)
            \/ Writes(<<PlanFile, File("routing", proc.plan), PlanDone(usage), Elapsed, Checkpoint>>)
    BY <1>2 DEF Planned
  <2>2. \A i \in 1..Left : \/ Mute(proc.todo[i]) \/ proc.todo[i] = Elapsed
                           \/ proc.todo[i] = PlanDone(usage)
    BY <2>1, EachItem, WriteTypes
  <2>3. Wins(PlanDone(usage)) /\ Ticks(PlanDone(usage))
    BY OutcomesTyped DEF Wins, Ticks, PlanDone
  <2>4. proc.next = "execute"
    BY <1>2 DEF Planned
  <2> QED
    BY <1>0, <1>a, <2>2, <2>3, <2>4 DEF Items, Calling
<1>3. CASE Execution
  <2>1. CASE BetweenSubtasks
    <3>1. \A i \in 1..Left : Mute(proc.todo[i])
      <4>1. CASE proc.todo = <<>>
        BY <4>1 DEF Left
      <4>2. CASE Writes(<<RunStarted, Approve, Begin>>)
        BY <4>2, EachItem, WriteTypes
      <4> QED
        BY <2>1, <4>1, <4>2 DEF BetweenSubtasks
    <3> QED
      BY <1>0, <2>1, <3>1 DEF Items, BetweenSubtasks
  <2>2. CASE UsingTool
    <3>1. PICK code : Writes(<<Reserve1(Asked), Reduce(code), OperationDispatched(Asked, 1)>>)
      BY <2>2 DEF UsingTool, Asking
    <3>2. \A i \in 1..Left : Mute(proc.todo[i])
      BY <3>1, EachItem, WriteTypes
    <3> QED
      BY <1>0, <2>2, <3>2 DEF Items, UsingTool
  <2>3. CASE ToolUsed
    <3>1. PICK op : Writes(<<Found(op)>>)
      BY <2>3 DEF ToolUsed
    <3>2. \A i \in 1..Left : proc.todo[i] = Found(op)
      BY <3>1, EachItem
    <3>3. Wins(Found(op)) /\ Ticks(Found(op))
      BY OutcomesTyped DEF Wins, Ticks, Found
    <3> QED
      BY <2>3, <3>2, <3>3 DEF Items, ToolUsed, Calling
  <2>4. CASE Executed
    <3>1. \A i \in 1..Left : Mute(proc.todo[i])
      BY <2>4, EachItem, WriteTypes DEF Executed
    <3> QED
      BY <1>0, <2>4, <3>1 DEF Items, Executed
  <2> QED
    BY <1>3, <2>1, <2>2, <2>3, <2>4 DEF Execution
<1>4. CASE Assessing
  <2>1. CASE proc.todo = <<>>
    BY <2>1 DEF Items, Left
  <2>2. CASE IsRunner /\ Writes(<<GraphFile, File("assessment", Assessment), References>>)
    <3>1. \A i \in 1..Left : Mute(proc.todo[i]) \/ proc.todo[i] = References
      BY <2>2, EachItem, WriteTypes
    <3>2. proc.next = "writer"
      BY <1>4 DEF Assessing
    <3> QED
      BY <1>0, <1>a, <2>2, <3>1, <3>2 DEF Items, Calling, Composed, Executing
  <2> QED
    BY <1>4, <2>1, <2>2 DEF Assessing
<1>5. CASE Written
  <2>1. PICK usage : Writes(WriterSettled(usage, proc.result))
    BY <1>5 DEF Written
  <2>2. \A i \in 1..Left : \/ Mute(proc.todo[i]) \/ proc.todo[i] = Elapsed
                           \/ proc.todo[i] = OperationSucceeded(Writer, 1, usage, proc.result)
    BY <2>1, EachItem, WriteTypes DEF WriterSettled
  <2>3. \A x : x = OperationSucceeded(Writer, 1, usage, proc.result) =>
                  Wins(x) /\ Ticks(x) /\ x.op = Writer
    BY OutcomesTyped DEF Wins, Ticks
  <2>4. proc.next = "return"
    BY <1>5 DEF Written
  <2> QED
    BY <1>0, <1>a, <2>2, <2>3, <2>4 DEF Items, Calling, Composed, Executing
<1>6. CASE WriterLost
  <2>1. Writes(<<OperationUnknown(Writer, 1), Elapsed, Failed, Checkpoint>>) /\ proc.next = "return"
    BY <1>6 DEF WriterLost
  <2>2. \A i \in 1..Left : proc.todo[i] \in {OperationUnknown(Writer, 1), Elapsed, Failed, Checkpoint}
    BY <2>1, EachItem
  <2>3. \A c \in Conclusions :
            Lifecycle("validating", c) \notin {OperationUnknown(Writer, 1), Elapsed, Failed, Checkpoint}
    BY DEF Lifecycle, OperationUnknown, Elapsed, ElapsedRecorded, Failed, Checkpoint, Reduce
  <2>4. ~Closing
    BY <2>2, <2>3 DEF Closing
  <2>5. \A x : x = OperationUnknown(Writer, 1) => Ticks(x) /\ x.op = Writer
    BY OutcomesTyped DEF Ticks
  <2>6. \A i \in 1..Left : Ticks(proc.todo[i]) /\ (Settling(proc.todo[i]) => proc.todo[i].op = Writer)
    BY <1>0, <1>a, <2>2, <2>5, WriteTypes
  <2> QED
    BY <2>1, <2>4, <2>6 DEF Items, Calling, Composed, Executing
<1>7. CASE Raising
  <2>0. \A x, ops : Failure(x, ops) => Ticks(x)
    BY <1>b, OutcomesTyped DEF Failure, OutcomeTypes
  <2>1. \A i \in 1..Left : Ticks(proc.todo[i])
    <3>1. CASE ProviderFailed
      <4>1. PICK x : Failure(x, {Planner, Writer}) /\ Writes(<<x, Elapsed, Failed, Checkpoint>>)
        BY <3>1 DEF ProviderFailed
      <4>2. \A i \in 1..Left : proc.todo[i] \in {x, Elapsed, Failed, Checkpoint}
        BY <4>1, EachItem
      <4> QED
        BY <1>0, <1>a, <2>0, <4>1, <4>2, WriteTypes
    <3>2. CASE StageFailed
      <4>1. PICK x : StageWrite(x) /\ Writes(<<x, Checkpoint, Elapsed, Failed, Checkpoint>>)
        BY <3>2 DEF StageFailed
      <4>2. \A i \in 1..Left : proc.todo[i] \in {x, Checkpoint, Elapsed, Failed}
        BY <4>1, EachItem
      <4>3. Ticks(x)
        BY <1>0, <1>b, <2>0, <4>1, WriteTypes, OutcomesTyped DEF StageWrite, Found, OutcomeTypes
      <4> QED
        BY <1>0, <1>a, <4>2, <4>3, WriteTypes
    <3>3. CASE FailedBefore
      BY <1>0, <3>3, EachItem, WriteTypes DEF FailedBefore
    <3>4. CASE ExecutorFailed
      <4>1. CASE proc.todo = <<>>
        BY <4>1 DEF Left
      <4>2. CASE \E x : ExecutorWrite(x) /\ Writes(<<x>>)
        BY <1>b, <2>0, <4>2, EachItem, OutcomesTyped DEF ExecutorWrite, Found, OutcomeTypes
      <4> QED
        BY <3>4, <4>1, <4>2 DEF ExecutorFailed
    <3>5. CASE Unexpected
      BY <3>5 DEF Unexpected, Left
    <3> QED
      BY <1>7, <3>1, <3>2, <3>3, <3>4, <3>5 DEF Raising
  <2>2. proc.next = "raise"
    BY <1>7 DEF Raising
  <2> QED
    BY <2>1, <2>2 DEF Items, Calling, Composed, Executing
<1>8. CASE Idling
  BY <1>8 DEF Idling, Idle, Items, Left
<1> QED
  BY <1>1, <1>2, <1>3, <1>4, <1>5, <1>6, <1>7, <1>8 DEF Shape

\* What a script owes is what its writes settle.
LEMMA OwesItem == \A op \in Ops : op \in Owed <=> \E i \in 1..Left : op \in Owing(proc.todo[i])
BY DEF Owed, Owes, Left

\* A write takes from what is owed what it settles, and brings no conclusion near.
LEMMA OwedShrinks ==
    ASSUME ProcTypes, ProcTypes', proc.todo # <<>>, proc'.todo = Tail(proc.todo),
           proc'.next = proc.next
    PROVE  /\ Owed' \subseteq Owed
           /\ \A op \in Owed : op \in Owed' \/ op \in Owing(Work)
           /\ Closing' => Closing
           /\ Owing(Work) \subseteq Owed
<1>1. /\ Work = proc.todo[1] /\ Left \in Nat \ {0} /\ Left' = Left - 1
      /\ \A i \in 1..Left - 1 : proc'.todo[i] = proc.todo[i + 1]
  BY HeadIsFirst DEF Left
<1>a. /\ \A i \in 1..Left' : i + 1 \in 1..Left /\ i \in 1..Left - 1
      /\ \A j \in 1..Left : j # 1 =>
            j - 1 \in 1..Left' /\ j - 1 \in 1..Left - 1 /\ (j - 1) + 1 = j
  <2> DEFINE n == Left
             m == Left'
  <2>1. n \in Nat \ {0} /\ m = n - 1
    BY <1>1
  <2> HIDE DEF n, m
  <2>2. /\ \A i \in 1..m : i + 1 \in 1..n /\ i \in 1..n - 1
        /\ \A j \in 1..n : j # 1 => j - 1 \in 1..m /\ j - 1 \in 1..n - 1 /\ (j - 1) + 1 = j
    BY <2>1
  <2> QED
    BY <2>2 DEF n, m
<1>2. Owed' \subseteq Owed
  <2> SUFFICES ASSUME NEW op \in Ops, NEW i \in 1..Left', op \in Owing(proc'.todo[i])
               PROVE  \E j \in 1..Left : op \in Owing(proc.todo[j])
    BY OwesItem DEF Owed, Owes, Left
  <2>1. i + 1 \in 1..Left /\ proc'.todo[i] = proc.todo[i + 1]
    BY <1>1, <1>a
  <2> QED
    BY <2>1
<1>3. \A op \in Owed : op \in Owed' \/ op \in Owing(Work)
  <2> SUFFICES ASSUME NEW op \in Ops, NEW j \in 1..Left, op \in Owing(proc.todo[j]), j # 1
               PROVE  \E i \in 1..Left' : op \in Owing(proc'.todo[i])
    BY <1>1, OwesItem DEF Owed, Owes, Left
  <2>1. j - 1 \in 1..Left' /\ proc'.todo[j - 1] = proc.todo[j]
    <3>1. j - 1 \in 1..Left' /\ j - 1 \in 1..Left - 1 /\ (j - 1) + 1 = j
      BY <1>a
    <3>2. proc'.todo[j - 1] = proc.todo[(j - 1) + 1]
      BY <1>1, <3>1
    <3> QED
      BY <3>1, <3>2
  <2> QED
    BY <2>1
<1>4. Closing' => Closing
  <2> SUFFICES ASSUME NEW i \in 1..Left', NEW c \in Conclusions,
                      proc'.todo[i] = Lifecycle("validating", c)
               PROVE  \E j \in 1..Left : proc.todo[j] = Lifecycle("validating", c)
    BY DEF Closing
  <2>1. i + 1 \in 1..Left /\ proc'.todo[i] = proc.todo[i + 1]
    BY <1>1, <1>a
  <2> QED
    BY <2>1
<1>5. Owing(Work) \subseteq Owed
  BY <1>1, OwesItem DEF Owing
<1> QED
  BY <1>2, <1>3, <1>4, <1>5

\* An event without artifacts leaves the references of the stream.
LEMMA RefsStay ==
    ASSUME NEW e, Events' = Events \cup {e}, "artifacts" \notin DOMAIN e
    PROVE  ArtifactRefs' = ArtifactRefs
BY DEF ArtifactRefs

\* Only the event that records them refers to the artifacts.
LEMMA RefsRecorded ==
    ASSUME Core, AppendEvent
    PROVE  \/ ArtifactRefs' = ArtifactRefs
           \/ /\ IsRunner /\ proc.next = "writer" /\ Work = References
              /\ ArtifactRefs' = ArtifactRefs \cup {References.artifacts}
<1>1. Events' = Events \cup {Work} /\ Due /\ Work = proc.todo[1] /\ Left \in Nat \ {0} /\ Items
  BY AppendIsDoing, HeadIsFirst, ItemsHold DEF Stepped, Core, AppendEvent
<1>2. "artifacts" \notin DOMAIN Work => ArtifactRefs' = ArtifactRefs
  BY <1>1, RefsStay
<1>3. CASE ~Elapses
  <2>1. CASE StartsRun \/ Reserves \/ Dispatches
    <3>1. "artifacts" \notin DOMAIN Work
      BY <2>1 DEF StartsRun, Reserves, Dispatches, RunStarted, Approve, Begin, Lifecycle, Reserve1,
         OperationReserved, OperationDispatched
    <3> QED
      BY <1>2, <3>1
  <2>2. CASE Settles
    <3>1. "artifacts" \notin DOMAIN Work
      BY <2>2 DEF Settles, Outcome, OperationUnknown, OperationFailed, OperationSucceeded
    <3> QED
      BY <1>2, <3>1
  <2>3. CASE Fails \/ Validates \/ Concludes
    <3>1. "artifacts" \notin DOMAIN Work
      BY <2>3 DEF Fails, Validates, Concludes, Failed, Lifecycle
    <3> QED
      BY <1>2, <3>1
  <2>4. ~Files /\ ~Checks /\ ~Checkpoints
    BY DEF AppendEvent, Files, Checks, Checkpoints, Checkpoint, Reduce
  <2> QED
    BY <1>1, <1>3, <2>1, <2>2, <2>3, <2>4 DEF Due
<1>4. CASE Elapses
  <2>1. Work = Elapsed \/ (IsRunner /\ proc.next = "writer" /\ Work = References)
    <3>1. Shape /\ Work.type = "elapsed_recorded" /\ 1 \in 1..Left
      BY <1>1, <1>4 DEF Core, Elapses
    <3>2. proc.next \in Composed \cup {"writer", "return", "raise"}
      BY <1>4, <3>1, HeadIsFirst
      DEF Shape, Elapses, Idling, Idle, Planning, Planned, Execution, BetweenSubtasks, UsingTool, ToolUsed,
          Executed, Assessing, Writing, Written, WriterLost, Raising, Composed, Executing, Calling,
          AppendEvent
    <3> QED
      BY <1>1, <3>1, <3>2 DEF Items, Ticks, Mute
  <2>2. "artifacts" \notin DOMAIN Elapsed
    BY DEF Elapsed, ElapsedRecorded
  <2>3. ASSUME Work = References, IsRunner, proc.next = "writer"
        PROVE  ArtifactRefs' = ArtifactRefs \cup {References.artifacts}
    <3>1. "artifacts" \in DOMAIN References
      BY DEF References, ArtifactsRecorded
    <3> HIDE DEF References
    <3> QED
      BY <1>1, <2>3, <3>1 DEF ArtifactRefs
  <2> QED
    BY <1>2, <2>1, <2>2, <2>3
<1> QED
  BY <1>3, <1>4

\* The books after the status of one operation has moved.
LEMMA MoveKeepsBacked ==
    ASSUME NEW op \in Ops, NEW S, NEW t, Moves(view, view', op, S, t), view'.ok, Backed,
           t \in {"reserved", "started"} \cup Settled
    PROVE  /\ Backed'
           /\ Loose' = IF t = "succeeded" THEN Loose \ {op} ELSE Loose \cup {op}
<1>1. Status(op)' = t /\ \A p \in Ops : p # op => Status(p)' = Status(p)
  BY MovesStatuses
<1>2. Loose' = IF t = "succeeded" THEN Loose \ {op} ELSE Loose \cup {op}
  BY <1>1 DEF Loose, Settled
<1>3. Backed'
  <2> SUFFICES ASSUME NEW r \in view'.ledger.reservations
               PROVE  r.attempt = 1 /\ r.op \in Loose'
    BY DEF Backed
  <2>1. r \in view.ledger.reservations \/ (t = "reserved" /\ r.op = op /\ r.attempt = 1)
    BY DEF Moves
  <2>2. t = "succeeded" => ~(r.op = op /\ r.attempt = 1)
    BY DEF Moves
  <2> QED
    BY <1>2, <2>1, <2>2 DEF Backed
<1> QED
  BY <1>2, <1>3

\* The books survive an append: a reservation and a dispatch open what is
\* asked for, an outcome settles what is owed, nothing else touches them.
LEMMA AppendKeepsBooks ==
    ASSUME Core, Books, AppendEvent
    PROVE  Books'
<1>0. /\ Doing /\ ProcTypes' /\ Stepped /\ Effects /\ SameProc /\ config' = config
      /\ proc'.todo = Tail(proc.todo) /\ proc.todo # <<>> /\ ProcTypes
  BY AppendIsDoing DEF Doing, Popping, AppendEvent, Core
<1>1. /\ Due /\ Left' = Left - 1 /\ Left \in Nat \ {0} /\ Work = proc.todo[1] /\ Items
      /\ \A i \in 1..Left' : proc'.todo[i] = proc.todo[i + 1]
  <2>1. \A i \in 1..Left - 1 : Tail(proc.todo)[i] = proc.todo[i + 1]
    BY <1>0, HeadIsFirst
  <2> QED
    BY <1>0, <2>1, HeadIsFirst, ItemsHold DEF Stepped, Core, Left
<1>2. ~Files /\ ~Checks /\ ~Checkpoints
  BY DEF AppendEvent, Files, Checks, Checkpoints, Checkpoint, Reduce
<1>3. Asked' = Asked /\ (proc.next \in Calling => Asked \in Ops) /\ proc'.next = proc.next
  BY <1>0, AskedKnown DEF SameProc, Asked, Reading, Core
<1>4. /\ Owed' \subseteq Owed /\ \A op \in Owed : op \in Owed' \/ op \in Owing(Work)
      /\ Closing' => Closing
      /\ Owing(Work) \subseteq Owed
  BY <1>0, <1>3, OwedShrinks
<1>5. \/ ArtifactRefs' = ArtifactRefs
      \/ IsRunner /\ proc.next = "writer" /\ ArtifactRefs' # {}
  BY RefsRecorded
<1>6. /\ IsRunner' <=> IsRunner
      /\ Bound' => Bound \/ proc.next = "writer"
  BY <1>0, <1>5 DEF Bound, IsRunner
<1>7. Bounded'
  BY <1>0, <1>3, <1>4, <1>5, <1>6 DEF Books, Bounded, Composed, Executing
<1> SUFFICES ASSUME view'.ok PROVE Backed' /\ Square'
  BY <1>7 DEF Books
<1>8. view.ok /\ Backed /\ Square /\ Bounded
  BY <1>0 DEF Effects, Books
<1>9. view.status \notin Conclusions
  <2> SUFFICES ASSUME view.status \in Conclusions PROVE FALSE
    OBVIOUS
  <2>1. Ended /\ 1 \in 1..Len(proc.todo)
    BY <1>1 DEF Ended, TERMINAL, Conclusions, Left
  <2>2. proc.todo[1].type = "reduce"
    BY <2>1 DEF Core, Statuses, NoEvent
  <2> QED
    BY <1>1, <2>2 DEF AppendEvent
<1>10. PipelineOps \subseteq Ops /\ Writer \in Ops
  BY OpsAssumption DEF PipelineOps
<1>11. ASSUME view' = view \/ Stays(view, view'), Mute(Work) \/ Elapses,
              view'.status \in Conclusions => Loose = {}
       PROVE  Backed' /\ Square'
  <2>1. Loose' = Loose /\ Backed'
    BY <1>8, <1>11 DEF Stays, Loose, Status, Backed
  <2>2. Owing(Work) = {}
    BY <1>11 DEF Mute, Elapses, Owing, OutcomeTypes
  <2>3. Owed' = Owed
    BY <1>4, <2>2
  <2>4. Bound' /\ ~Bound => Loose \subseteq {Writer}
    <3>1. CASE config.entry # "executor"
      BY <1>6, <1>8, <3>1 DEF Square
    <3>2. CASE config.entry = "executor"
      BY <1>0, <1>5, <3>2 DEF Bound, IsRunner
    <3> QED
      BY <3>1, <3>2
  <2> QED
    BY <1>0, <1>3, <1>4, <1>8, <1>11, <2>1, <2>3, <2>4 DEF Square
<1>12. CASE StartsRun
  <2>1. view' = view \/ Stays(view, view')
    BY <1>0, <1>12 DEF Effects
  <2>2. Mute(Work)
    BY <1>12, WriteTypes DEF StartsRun
  <2>3. view'.status \notin Conclusions
    BY <1>0, <1>9, <1>12 DEF Effects, Conclusions
  <2> QED
    BY <1>11, <2>1, <2>2, <2>3
<1>13. CASE Elapses
  BY <1>0, <1>9, <1>11, <1>13 DEF Effects
<1>14. CASE Fails \/ Validates
  <2>1. Stays(view, view') /\ view'.status \notin Conclusions
    BY <1>0, <1>14 DEF Effects, StatusMoves, Conclusions
  <2>2. Mute(Work)
    BY <1>14, WriteTypes DEF Fails, Validates
  <2> QED
    BY <1>11, <2>1, <2>2
<1>15. CASE Concludes
  <2>1. Stays(view, view') /\ Mute(Work)
    BY <1>0, <1>15, WriteTypes DEF Effects, Concludes
  <2>2. Closing /\ config.entry # "executor"
    <3>1. PICK c \in Conclusions : proc.todo[1] = Lifecycle("validating", c)
      BY <1>1, <1>15 DEF Concludes
    <3>2. 1 \in 1..Left /\ proc.next = "return" /\ config.entry # "executor"
      BY <1>1, <1>15 DEF Concludes
    <3> QED
      BY <3>1, <3>2 DEF Closing
  <2>3. proc'.todo[1] = Checkpoint /\ Left' = 1
    BY <1>0, <1>1, <1>15 DEF Stepped, Concludes
  <2>4. Owed' = {}
    BY <2>3, WriteTypes DEF Owed, Owes, Owing, Mute, Left
  <2>5. Owed = {}
    BY <1>4, <2>1, <2>4 DEF Mute, Owing
  <2> QED
    BY <1>8, <1>11, <2>1, <2>2, <2>5 DEF Square
<1>16. CASE Reserves \/ Dispatches
  <2>1. PICK S \in {{"absent", "planned", "reserved"}, {"planned", "reserved"}},
             t \in {"reserved", "started"} :
          Asked \in Ops /\ proc.next \in Calling /\ Moves(view, view', Asked, S, t)
    <3>1. CASE Reserves
      <4>1. Asked \in Ops /\ proc.next \in Calling
            /\ Moves(view, view', Asked, {"absent", "planned", "reserved"}, "reserved")
        BY <1>0, <1>3, <3>1 DEF Effects, Reserves
      <4> QED
        BY <4>1
    <3>2. CASE Dispatches
      <4>1. Asked \in Ops /\ proc.next \in Calling
            /\ Moves(view, view', Asked, {"planned", "reserved"}, "started")
        BY <1>0, <1>3, <3>2 DEF Effects, Dispatches
      <4> QED
        BY <4>1
    <3> QED
      BY <1>16, <3>1, <3>2
  <2>2. Backed' /\ Loose' = Loose \cup {Asked}
    BY <1>8, <2>1, MoveKeepsBacked
  <2>3. view'.status \notin Conclusions
    BY <1>9, <2>1 DEF Moves
  <2>4. Bound' => Bound
    BY <1>6, <2>1 DEF Calling
  <2>5. Bound => Asked = Writer
    BY <1>8, <2>1 DEF Bounded, Composed, Executing, Calling, Asked
  <2>6. ~Closing'
    BY <1>3, <2>1 DEF Closing, Calling
  <2> QED
    BY <1>0, <1>3, <1>8, <2>1, <2>2, <2>3, <2>4, <2>5, <2>6 DEF Square, Calling
<1>17. CASE Settles
  <2>1. PICK op \in PipelineOps, t \in Settled :
          /\ Outcome(Work, op) /\ Moves(view, view', op, OperationStatus, t)
          /\ Work.type = "operation_succeeded" <=> t = "succeeded"
    BY <1>0, <1>17 DEF Effects
  <2>2. op \in Ops /\ Work.op = op /\ Settling(Work)
    BY <1>10, <2>1, OutcomesTyped DEF Outcome, Settling, OutcomeTypes
  <2>3. Backed' /\ Loose' = IF t = "succeeded" THEN Loose \ {op} ELSE Loose \cup {op}
    BY <1>8, <2>1, <2>2, MoveKeepsBacked
  <2>4. view'.status \notin Conclusions
    BY <1>9, <2>1 DEF Moves
  <2>5. Owing(Work) = {op} /\ op \in Owed
    BY <1>4, <2>2 DEF Owing, Settling
  <2>6. 1 \in 1..Left
    BY <1>1
  <2>7. /\ proc.next \in Composed \/ Closing => t = "succeeded"
        /\ proc.next = "return" => op = Writer
        /\ proc.next # "writer" /\ proc.next \notin Calling
    BY <1>1, <1>17, <2>1, <2>2, <2>6 DEF Items, Wins, Closing, Settles
  <2>8. Bound' => Bound
    BY <1>6, <2>7
  <2>9. Bound => op = Writer
    <3>1. proc.next \in Composed \cup {"return", "raise"}
      <4>1. Shape /\ proc.todo # <<>>
        BY <1>0 DEF Core
      <4> QED
        BY <2>7, <4>1
        DEF Shape, Idling, Idle, Planning, Planned, Execution, BetweenSubtasks, UsingTool, ToolUsed,
            Executed, Assessing, Writing, Written, WriterLost, Raising, Composed, Executing, Calling
    <3> QED
      BY <1>8, <2>5, <2>7, <3>1 DEF Bounded
  <2>10. \A p \in Owed : p # op => p \in Owed'
    BY <1>4, <2>5
  <2>11. /\ Bound' => Loose' \subseteq {Writer}
         /\ config.entry # "executor" =>
               /\ proc.next \in Composed \ Calling => Loose' \subseteq Owed'
               /\ proc.next = "return" => Loose' \subseteq {Writer}
               /\ Closing => Loose' \subseteq Owed'
    BY <1>8, <2>3, <2>7, <2>8, <2>9, <2>10 DEF Square
  <2> QED
    BY <1>0, <1>3, <1>4, <2>3, <2>4, <2>7, <2>11 DEF Square
<1> QED
  BY <1>1, <1>2, <1>12, <1>13, <1>14, <1>15, <1>16, <1>17 DEF Due

\* The files and the reductions of a script touch nothing the books speak of.
LEMMA PassingKeepsBooks ==
    ASSUME Core, Books, WriteArtifact \/ (ReduceStream /\ view.ok)
    PROVE  Books'
<1>0. UNCHANGED <<config, stream, view>>
  BY DEF WriteArtifact, ReduceStream
<1>1. /\ Doing /\ SameProc /\ ProcTypes' /\ ProcTypes /\ proc.todo # <<>>
      /\ proc'.todo = Tail(proc.todo) /\ Work.type \in {"file", "reduce"}
  BY FileIsDoing, ReduceIsDoing DEF Core, Doing, Popping, WriteArtifact, ReduceStream
<1>2. Asked' = Asked /\ proc'.next = proc.next
  BY <1>1 DEF SameProc, Asked, Reading
<1>3. /\ Owed' \subseteq Owed /\ \A op \in Owed : op \in Owed' \/ op \in Owing(Work)
      /\ Closing' => Closing
  BY <1>1, <1>2, OwedShrinks
<1>4. Owing(Work) = {}
  BY <1>1 DEF Owing, OutcomeTypes
<1>5. Owed' = Owed
  BY <1>3, <1>4
<1>6. ArtifactRefs' = ArtifactRefs /\ Loose' = Loose
  BY <1>0 DEF ArtifactRefs, Events, Loose, Status
<1>7. Bounded' /\ (Bound' <=> Bound)
  BY <1>0, <1>2, <1>5, <1>6 DEF Books, Bounded, Bound, IsRunner
<1>8. Backed => Backed'
  BY <1>0, <1>6 DEF Backed
<1>9. Square => Square'
  BY <1>0, <1>2, <1>3, <1>5, <1>6, <1>7 DEF Square
<1> QED
  BY <1>0, <1>7, <1>8, <1>9 DEF Books

\* What short lists and the concatenation of two lists owe.
LEMMA OwesLists ==
    /\ Owes(<<>>) = {}
    /\ \A a : Owes(<<a>>) = Owing(a)
    /\ \A a, b : Owes(<<a, b>>) = Owing(a) \cup Owing(b)
    /\ \A a, b, c : Owes(<<a, b, c>>) = Owing(a) \cup Owing(b) \cup Owing(c)
BY DEF Owes, Owing

\* Of the concatenation of two lists.
LEMMA OwesJoin ==
    ASSUME NEW s, IsList(s), NEW t, IsList(t)
    PROVE  IsList(s \o t) /\ Owes(s \o t) = Owes(s) \cup Owes(t)
<1>1. PICK S : s \in Seq(S)
  BY DEF IsList
<1>2. PICK T : t \in Seq(T)
  BY DEF IsList
<1> DEFINE U == S \cup T
           n == Len(s)
           m == Len(t)
           u == s \o t
<1>3. s \in Seq(U) /\ t \in Seq(U)
  BY <1>1, <1>2
<1>4. /\ n \in Nat /\ m \in Nat /\ u \in Seq(U) /\ Len(u) = n + m
      /\ \A i \in 1..n + m : u[i] = IF i <= n THEN s[i] ELSE t[i - n]
  BY <1>3
<1> HIDE DEF n, m, u
<1>5. /\ \A i \in 1..n : i \in 1..n + m /\ u[i] = s[i]
      /\ \A i \in 1..m : n + i \in 1..n + m /\ u[n + i] = t[i]
      /\ \A i \in 1..n + m : \/ i \in 1..n /\ u[i] = s[i]
                             \/ i - n \in 1..m /\ u[i] = t[i - n]
  BY <1>4
<1>6. \A op \in Ops : /\ op \in Owes(u) <=> \E i \in 1..n + m : op \in Owing(u[i])
                      /\ op \in Owes(s) <=> \E i \in 1..n : op \in Owing(s[i])
                      /\ op \in Owes(t) <=> \E i \in 1..m : op \in Owing(t[i])
  BY <1>4 DEF Owes, n, m
<1>7. \A op \in Ops : op \in Owes(u) <=> op \in Owes(s) \/ op \in Owes(t)
  <2> SUFFICES ASSUME NEW op \in Ops
               PROVE  (\E i \in 1..n + m : op \in Owing(u[i])) <=>
                        (\E i \in 1..n : op \in Owing(s[i])) \/ (\E i \in 1..m : op \in Owing(t[i]))
    BY <1>6
  <2> QED
    BY <1>5
<1>8. Owes(u) = Owes(s) \cup Owes(t)
  BY <1>7 DEF Owes
<1> QED
  BY <1>4, <1>8 DEF IsList, u

\* The lists that end a stage settle nothing.
LEMMA NothingOwed ==
    /\ IsList(Terminalize) /\ Owes(Terminalize) = {}
    /\ IsList(FailedTail) /\ Owes(FailedTail) = {}
<1>1. Owing(Elapsed) = {} /\ \A x : Mute(x) => Owing(x) = {}
  BY WriteTypes DEF Owing, Mute, OutcomeTypes
<1>2. IsList(FailedTail) /\ Owes(FailedTail) = {}
  <2>1. Owes(FailedTail) = Owing(Elapsed) \cup Owing(Failed) \cup Owing(Checkpoint)
    BY OwesLists DEF FailedTail
  <2> QED
    BY <1>1, <2>1, WriteTypes, Lists DEF FailedTail
<1>3. IsList(Terminalize) /\ Owes(Terminalize) = {}
  <2> DEFINE a == <<Reduce("rejected")>>
             b == IF view.status \in TERMINAL THEN <<>> ELSE <<Elapsed, Failed>>
             c == <<Checkpoint>>
  <2>1. Terminalize = IF config.entry # "runner" THEN <<>> ELSE (a \o b) \o c
    BY DEF Terminalize
  <2>2. Owes(a) = {} /\ Owes(b) = {} /\ Owes(c) = {} /\ IsList(a) /\ IsList(b) /\ IsList(c)
    <3>1. /\ Owes(<<Reduce("rejected")>>) = {} /\ Owes(<<Checkpoint>>) = {}
          /\ Owes(<<Elapsed, Failed>>) = {} /\ Owes(<<>>) = {}
      BY <1>1, OwesLists, WriteTypes
    <3> QED
      BY <3>1, Lists
  <2> HIDE DEF a, b, c
  <2>3. IsList(a \o b) /\ Owes(a \o b) = {}
    BY <2>2, OwesJoin
  <2>4. IsList((a \o b) \o c) /\ Owes((a \o b) \o c) = {}
    BY <2>2, <2>3, OwesJoin
  <2> QED
    BY <2>1, <2>4, OwesLists, Lists
<1> QED
  BY <1>2, <1>3

\* A step that writes nothing keeps the books if the place it goes to suits them.
LEMMA NewPlace ==
    ASSUME Books, UNCHANGED <<config, stream, view>>,
           Bound => /\ proc'.next \notin {"planning"} \cup Composed
                    /\ proc'.next = "raise" => Owed' \subseteq {Writer},
           view.ok /\ config.entry # "executor" =>
               /\ proc'.next \in Calling => Loose \subseteq {Asked'}
               /\ proc'.next \in Composed \ Calling => Loose \subseteq Owed'
               /\ proc'.next \in {"writer", "return"} => Loose \subseteq {Writer}
               /\ Closing' => Loose \subseteq Owed'
    PROVE  Books'
<1>1. ArtifactRefs' = ArtifactRefs /\ Loose' = Loose
  BY DEF ArtifactRefs, Events, Loose, Status
<1>2. Bounded' /\ (Bound' <=> Bound)
  BY <1>1 DEF Books, Bounded, Bound, IsRunner
<1>3. Backed => Backed'
  BY <1>1 DEF Backed
<1>4. view.ok /\ Square => Square'
  BY <1>1, <1>2 DEF Square
<1> QED
  BY <1>2, <1>3, <1>4 DEF Books

\* A process that ends leaves its books as they are.
LEMMA EndKeepsBooks ==
    ASSUME Books, UNCHANGED <<config, stream, view>>, proc' = Idle
    PROVE  Books'
<1>1. proc'.next = "idle"
  BY DEF Idle
<1> QED
  BY <1>1, NewPlace DEF Closing, Composed, Executing, Calling

\* Between two operations of the composed run nothing is open.
LEMMA ComposedKeepsBooks ==
    ASSUME Core, Books, UNCHANGED <<config, stream, view>>,
           proc.next \in Composed \ Calling, proc.todo = <<>>
    PROVE  Books'
<1>1. ~Bound
  BY DEF Books, Bounded
<1>2. view.ok /\ config.entry # "executor" => Loose = {}
  BY OwesLists DEF Books, Square, Owed
<1> QED
  BY <1>1, <1>2, NewPlace

\* The planner's answer.
LEMMA PlannerKeepsBooks == ASSUME Core, Books, PlannerAnswers PROVE Books'
<1>0. /\ UNCHANGED <<config, stream, view>> /\ proc.next = "planning" /\ ProcTypes
      /\ Planner \in Ops
  BY OpsAssumption DEF PlannerAnswers, At, Core, PipelineOps
<1>1. ~Bound
  BY <1>0 DEF Books, Bounded
<1>2. view.ok /\ config.entry # "executor" => Loose \subseteq {Planner}
  BY <1>0 DEF Books, Square, Calling, Asked
<1>3. ASSUME NEW t, NEW code, Raise(t, code) PROVE Books'
  <2>1. proc'.next = "raise"
    BY <1>0, <1>3, RaiseNext
  <2> QED
    BY <1>0, <1>1, <2>1, NewPlace DEF Calling, Composed, Executing, Closing
<1>4. CASE PlannerFails
  BY <1>3, <1>4 DEF PlannerFails
<1>5. CASE PlannerReturns
  <2>1. PICK plan \in Plans, usage \in Usages :
          \/ Stage(<<File("plan", plan)>>, "cross_paper_source_selection_mismatch")
          \/ proc' = [proc EXCEPT
                !.todo = <<File("plan", plan)>>
                         \o (IF config.allowed = {} THEN <<>> ELSE <<File("routing", plan)>>)
                         \o <<OperationSucceeded(Planner, 1, usage, plan), Elapsed, Checkpoint>>,
                !.next = "execute", !.plan = plan]
    BY <1>5 DEF PlannerReturns
  <2> DEFINE a == <<File("plan", plan)>>
             b == IF config.allowed = {} THEN <<>> ELSE <<File("routing", plan)>>
             c == <<OperationSucceeded(Planner, 1, usage, plan), Elapsed, Checkpoint>>
  <2>2. CASE Stage(a, "cross_paper_source_selection_mismatch")
    BY <1>3, <2>2 DEF Stage
  <2>3. CASE proc' = [proc EXCEPT !.todo = a \o b \o c, !.next = "execute", !.plan = plan]
    <3>1. IsList(a) /\ IsList(b) /\ IsList(c)
      BY Lists
    <3>2. Planner \in Owes(c)
      BY <1>0, OwesLists, OutcomesTyped DEF Owing, OutcomeTypes
    <3> HIDE DEF a, b, c
    <3>3. Planner \in Owes(a \o b \o c)
      BY <3>1, <3>2, OwesJoin
    <3>4. proc'.next = "execute" /\ proc'.todo = a \o b \o c
      BY <1>0, <2>3 DEF ProcTypes
    <3>5. Planner \in Owed'
      BY <3>3, <3>4 DEF Owed
    <3> QED
      BY <1>0, <1>1, <1>2, <3>4, <3>5, NewPlace DEF Calling, Closing
  <2> QED
    BY <2>1, <2>2, <2>3
<1> QED
  BY <1>4, <1>5 DEF PlannerAnswers

\* The answer of a tool: the search of a subtask or a read.
LEMMA ToolKeepsBooks == ASSUME Core, Books, SearchAnswers \/ ReadAnswers PROVE Books'
<1>0. /\ UNCHANGED <<config, stream, view>> /\ proc.next \in {"search", "reading"} /\ ProcTypes
      /\ Asked \in Ops
  BY AskedKnown DEF SearchAnswers, ReadAnswers, At, Core, Calling
<1>1. ~Bound
  BY <1>0 DEF Books, Bounded, Composed, Executing
<1>2. view.ok /\ config.entry # "executor" => Loose \subseteq {Asked}
  BY <1>0 DEF Books, Square, Calling
<1>3. ASSUME NEW t, NEW code, Stage(t, code) PROVE Books'
  <2>1. proc'.next = "raise"
    BY <1>0, <1>3, RaiseNext DEF Stage
  <2> QED
    BY <1>0, <1>1, <2>1, NewPlace DEF Calling, Composed, Executing, Closing
<1>4. ASSUME NEW op, ToolFails(op) PROVE Books'
  BY <1>3, <1>4 DEF ToolFails
<1>5. ASSUME proc'.todo = ToolSucceeded(Asked), proc'.next \in {"anchor", "read"} PROVE Books'
  <2>1. Asked \in Owed'
    BY <1>0, <1>5, OwesLists, OutcomesTyped DEF Owed, ToolSucceeded, Owing, OutcomeTypes
  <2> QED
    BY <1>0, <1>1, <1>2, <1>5, <2>1, NewPlace DEF Calling, Closing
<1>6. CASE SearchAnswers
  <2>1. Asked = Search(proc.subtask)
    BY <1>6 DEF SearchAnswers, At, Asked
  <2>2. ASSUME NEW hits, SearchFinds(hits) PROVE Books'
    <3>1. CASE \E t, code : Stage(t, code)
      BY <1>3, <3>1
    <3>2. ASSUME NEW place \in {"anchor", "read"}, NEW reads,
                 proc' = [proc EXCEPT !.todo = ToolSucceeded(Search(proc.subtask)),
                                      !.next = place, !.reads = reads]
          PROVE  Books'
      <4>1. proc'.todo = ToolSucceeded(Asked) /\ proc'.next = place
        BY <1>0, <2>1, <3>2 DEF ProcTypes
      <4> QED
        BY <1>5, <4>1
    <3> QED
      BY <2>2, <3>1, <3>2 DEF SearchFinds
  <2> QED
    BY <1>4, <1>6, <2>2 DEF SearchAnswers
<1>7. CASE ReadAnswers
  <2>1. Asked = Reading
    BY <1>7 DEF ReadAnswers, At, Asked
  <2>2. ASSUME NEW place \in {"anchor", "read"},
               proc' = [proc EXCEPT !.todo = ToolSucceeded(Reading), !.reads = Tail(@),
                                    !.last = Head(proc.reads), !.next = place]
        PROVE  Books'
    <3>1. proc'.todo = ToolSucceeded(Asked) /\ proc'.next = place
      BY <1>0, <2>1, <2>2 DEF ProcTypes
    <3> QED
      BY <1>5, <3>1
  <2> QED
    BY <1>4, <1>7, <2>2 DEF ReadAnswers
<1> QED
  BY <1>6, <1>7

\* The writer's answer.
LEMMA WriterKeepsBooks == ASSUME Core, Books, WriterAnswers PROVE Books'
<1>0. /\ UNCHANGED <<config, stream, view>> /\ proc.next = "writing" /\ ProcTypes
      /\ Writer \in Ops
  BY OpsAssumption DEF WriterAnswers, At, Core, PipelineOps
<1>1. view.ok /\ config.entry # "executor" => Loose \subseteq {Writer}
  BY <1>0 DEF Books, Square, Calling, Asked
<1>2. ASSUME NEW usage, NEW code,
             Raise(<<OperationFailed(Writer, 1, usage, code)>> \o FailedTail, code)
      PROVE  Books'
  <2> DEFINE a == <<OperationFailed(Writer, 1, usage, code)>>
  <2>1. IsList(a) /\ Owes(a) \subseteq {Writer}
    BY OwesLists, OutcomesTyped, Lists DEF Owing
  <2>2. Raise(a \o FailedTail, code)
    BY <1>2
  <2> HIDE DEF a
  <2>3. Owes(a \o FailedTail) \subseteq {Writer}
    BY <2>1, OwesJoin, NothingOwed
  <2>4. proc'.next = "raise" /\ proc'.todo = a \o FailedTail
    BY <1>0, <2>2, RaiseNext
  <2>5. Owed' \subseteq {Writer}
    BY <2>3, <2>4 DEF Owed
  <2> QED
    BY <1>0, <2>4, <2>5, NewPlace DEF Calling, Composed, Executing, Closing
<1>3. ASSUME NEW t, IsList(t), Writer \in Owes(t), NEW status,
             proc' = [proc EXCEPT !.todo = t, !.next = "return", !.result = status]
      PROVE  Books'
  <2>1. proc'.next = "return" /\ Writer \in Owed'
    BY <1>0, <1>3 DEF ProcTypes, Owed
  <2> QED
    BY <1>0, <1>1, <2>1, NewPlace DEF Calling, Composed, Executing, Closing
<1>4. CASE WriterFails
  <2> DEFINE a == <<OperationUnknown(Writer, 1)>>
  <2>1. IsList(a) /\ Writer \in Owes(a)
    BY <1>0, OwesLists, OutcomesTyped, Lists DEF Owing, OutcomeTypes
  <2>2. \/ \E usage, code : Raise(<<OperationFailed(Writer, 1, usage, code)>> \o FailedTail, code)
        \/ \E status : proc' = [proc EXCEPT !.todo = a \o FailedTail, !.next = "return",
                                            !.result = status]
    BY <1>4 DEF WriterFails
  <2> HIDE DEF a
  <2>3. IsList(a \o FailedTail) /\ Writer \in Owes(a \o FailedTail)
    BY <2>1, OwesJoin, NothingOwed
  <2> QED
    BY <1>2, <1>3, <2>2, <2>3
<1>5. CASE WriterReturns
  <2>1. \A usage, status :
            /\ IsList(WriterSettled(usage, status))
            /\ Writer \in Owes(WriterSettled(usage, status))
    <3> SUFFICES ASSUME NEW usage, NEW status
                 PROVE  LET t == WriterSettled(usage, status)
                        IN  IsList(t) /\ Writer \in Owes(t)
      OBVIOUS
    <3> DEFINE t == WriterSettled(usage, status)
    <3>1. IsList(t) /\ 1 \in 1..Len(t) /\ t[1] = OperationSucceeded(Writer, 1, usage, status)
      BY Lists DEF WriterSettled
    <3>2. Writer \in Owing(t[1])
      BY <1>0, <3>1, OutcomesTyped DEF Owing, OutcomeTypes
    <3> HIDE DEF t
    <3>3. Writer \in Owes(t)
      BY <1>0, <3>1, <3>2 DEF Owes
    <3> QED
      BY <3>1, <3>3 DEF t
  <2> QED
    BY <1>2, <1>3, <1>5, <2>1 DEF WriterReturns
<1> QED
  BY <1>4, <1>5 DEF WriterAnswers

\* The writer's entry opens nothing but the writer.
LEMMA EnterWriterKeepsBooks == ASSUME Core, Books, EnterWriter PROVE Books'
<1>0. UNCHANGED <<config, stream, view>> /\ proc.next = "writer" /\ ProcTypes
  BY DEF EnterWriter, At, Core
<1>1. view.ok /\ config.entry # "executor" => Loose \subseteq {Writer}
  BY <1>0 DEF Books, Square
<1>2. ASSUME NEW answer, Give(answer) PROVE Books'
  BY <1>0, <1>2, EndKeepsBooks DEF Give
<1>3. ASSUME NEW t, Goto(t, "writing") PROVE Books'
  <2>1. proc'.next = "writing"
    BY <1>0, <1>3, GotoNext
  <2>2. Asked' = Writer
    BY <2>1 DEF Asked
  <2> QED
    BY <1>0, <1>1, <2>1, <2>2, NewPlace DEF Calling, Composed, Executing, Closing
<1>4. ASSUME NEW code, Raise(<<>>, code) PROVE Books'
  <2>1. proc'.next = "raise" /\ Owed' = {}
    BY <1>0, <1>4, RaiseNext, OwesLists DEF Owed
  <2> QED
    BY <1>0, <2>1, NewPlace DEF Calling, Composed, Executing, Closing
<1> QED
  BY <1>2, <1>3, <1>4 DEF EnterWriter, WriterAdmitted, Refuse

\* A new call begins with an empty stream or goes on with a bound one.
LEMMA RunKeepsBooks == ASSUME Core, Books, Run PROVE Books'
<1>0. UNCHANGED <<config, stream, view>> /\ ProcTypes
  BY DEF Run, Core
<1>1. view.ok /\ Bound => Loose \subseteq {Writer}
  BY DEF Books, Square
<1>2. ASSUME NEW answer, Give(answer) PROVE Books'
  BY <1>0, <1>2, EndKeepsBooks DEF Give
<1>3. ASSUME proc'.next = "writer", Bound PROVE Books'
  BY <1>0, <1>1, <1>3, NewPlace DEF Calling, Composed, Executing, Closing
<1>4. CASE RunComposed
  <2>1. CASE ResumeAtWriter
    <3>1. ASSUME ArtifactRefs # {}, proc' = [Idle EXCEPT !.next = "writer", !.plan = StoredPlan,
                                                         !.graph = disk["graph"]]
          PROVE  Books'
      <4>1. proc'.next = "writer"
        BY <3>1 DEF Idle
      <4> QED
        BY <1>3, <3>1, <4>1 DEF Bound
    <3>2. ASSUME NEW code, Stage(<<>>, code) PROVE Books'
      <4>1. <<>> \o Terminalize = Terminalize
        BY NothingOwed, JoinNone
      <4>2. proc'.next = "raise" /\ proc'.todo = Terminalize
        BY <1>0, <3>2, <4>1, RaiseNext DEF Stage
      <4>3. Owed' = {}
        BY <4>2, NothingOwed DEF Owed
      <4> QED
        BY <1>0, <4>2, <4>3, NewPlace DEF Calling, Composed, Executing, Closing
    <3> QED
      BY <1>2, <2>1, <3>1, <3>2 DEF ResumeAtWriter, Refuse
  <2>2. CASE stream = <<>> /\ Enter(RunStartedEvents \o Dispatch(Planner, "rejected"), "planning")
    <3>1. ArtifactRefs = {}
      BY <2>2 DEF ArtifactRefs, Events
    <3>2. Loose = {}
      <4>1. view = InitialView
        BY <2>2 DEF Core, Durable
      <4> QED
        BY <4>1 DEF Loose, Status, InitialView, Absent
    <3>3. ~Bound
      BY <1>4, <3>1 DEF RunComposed, Bound
    <3> QED
      BY <1>0, <3>2, <3>3, NewPlace
  <2> QED
    BY <1>2, <1>4, <2>1, <2>2 DEF RunComposed, Refuse
<1>5. CASE RunExecutor
  <2>1. ~Bound
    BY <1>5 DEF RunExecutor, Books, Bounded, Bound, IsRunner
  <2> QED
    BY <1>0, <1>5, <2>1, NewPlace DEF RunExecutor
<1>6. CASE RunWriter
  <2>1. Bound /\ proc'.next = "writer"
    BY <1>6 DEF RunWriter, Bound, Idle
  <2> QED
    BY <1>3, <2>1
<1> QED
  BY <1>4, <1>5, <1>6 DEF Run

\* A replan opens nothing and refers to no artifacts.
LEMMA ReplanKeepsBooks == ASSUME Core, Books, ApplyReplan PROVE Books'
<1>1. /\ Idling /\ proc' = proc /\ config' = config
      /\ Stays(view, view') /\ view'.status = view.status
  BY ReplanKeepsCore DEF ApplyReplan
<1>2. ArtifactRefs' = ArtifactRefs
  <2>1. PICK ordinal : stream' = Append(stream, ReplanDecided(Planner, ordinal, TRUE))
    BY ReplanKeepsCore
  <2> DEFINE e == ReplanDecided(Planner, ordinal, TRUE)
  <2>2. "artifacts" \notin DOMAIN e
    BY DEF ReplanDecided
  <2>3. IsList(stream) /\ stream' = Append(stream, e)
    BY <2>1 DEF Core, Durable
  <2> HIDE DEF e
  <2>4. Events' = Events \cup {e}
    BY <2>3, EventsGrow
  <2> QED
    BY <2>2, <2>4, RefsStay
<1>3. Loose' = Loose /\ (Bound' <=> Bound) /\ Owed' = Owed
  BY <1>1, <1>2 DEF Loose, Status, Stays, Bound, Owed
<1>4. Bounded'
  BY <1>1, <1>2, <1>3 DEF Books, Bounded, IsRunner
<1>5. Backed => Backed'
  BY <1>1, <1>3 DEF Backed, Stays
<1>6. Square => Square'
  BY <1>1, <1>3 DEF Square, Idling, Idle, Calling, Composed, Executing, Closing
<1> QED
  BY <1>1, <1>4, <1>5, <1>6 DEF Books, Stays

\* Every action keeps the books.
LEMMA StepKeepsBooks ==
    ASSUME Core, Books, Next
    PROVE  Books'
<1>1. CASE AppendEvent
  BY <1>1, AppendKeepsBooks
<1>2. CASE WriteArtifact \/ (ReduceStream /\ view.ok)
  BY <1>2, PassingKeepsBooks
<1>3. CASE StartExecution \/ StartSubtask \/ StartRead \/ Anchor \/ Assess
  BY <1>3, ComposedKeepsBooks
  DEF StartExecution, StartSubtask, StartRead, Anchor, Assess, At, Composed, Executing, Calling
<1>4. CASE Return \/ Crash \/ (ReduceStream /\ ~view.ok)
  BY <1>4, EndKeepsBooks DEF Return, Crash, ReduceStream, Give
<1> QED
  BY <1>1, <1>2, <1>3, <1>4, PlannerKeepsBooks, ToolKeepsBooks, WriterKeepsBooks,
     EnterWriterKeepsBooks, RunKeepsBooks, ReplanKeepsBooks
  DEF Next, Step

\* The books of a run balance at every moment.
THEOREM BooksHold == Spec => []Books
<1>1. Init => Books
  <2> SUFFICES ASSUME Init PROVE Books
    OBVIOUS
  <2>1. ArtifactRefs = {} /\ Loose = {} /\ proc.next = "idle"
    BY DEF Init, ArtifactRefs, Events, Loose, Status, InitialView, Absent, Idle
  <2>2. Backed
    BY DEF Init, InitialView, EmptyLedger, Backed
  <2> QED
    BY <2>1, <2>2
    DEF Books, Bounded, Square, Composed, Executing, Calling, Closing
<1>2. Books /\ UNCHANGED vars => Books'
  <2> SUFFICES ASSUME Books, UNCHANGED vars PROVE Books'
    OBVIOUS
  <2>1. /\ UNCHANGED <<config, stream, view, proc>> /\ ArtifactRefs' = ArtifactRefs /\ Loose' = Loose
        /\ Owed' = Owed /\ Asked' = Asked /\ (Closing' <=> Closing)
    BY DEF vars, ArtifactRefs, Events, Loose, Status, Owed, Asked, Reading, Closing, Left
  <2> QED
    BY <2>1 DEF Books, Bounded, Square, Backed, Bound, IsRunner
<1>3. Core /\ Books /\ [Next]_vars => Books'
  BY <1>2, StepKeepsBooks
<1> QED
  BY <1>1, <1>3, CoreHolds, PTL DEF Spec

\* A run that has concluded owes nothing: every reservation was released and
\* every operation that was begun has succeeded.
THEOREM ConclusionsSettled == Spec => []ConcludedIsSettled
<1>1. Core /\ Books => ConcludedIsSettled
  <2> SUFFICES ASSUME Core, Books, view.ok, view.status \in Conclusions
               PROVE  /\ view.ledger.reservations = {}
                      /\ \A op \in Ops : view.journal[op].status \in {"absent", "succeeded"}
    BY DEF ConcludedIsSettled, Conclusions
  <2>1. Loose = {}
    BY DEF Books, Square
  <2> QED
    BY <2>1 DEF Books, Backed, Loose, Status
<1> QED
  BY <1>1, CoreHolds, BooksHold, PTL
=============================================================================
