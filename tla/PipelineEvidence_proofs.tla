----------------------- MODULE PipelineEvidence_proofs -----------------------
(***************************************************************************)
(* What the report of a composed run rests on, for every plan, every draft *)
(* and every order of crashes and later calls: the writer is given what    *)
(* the stream says was read, the artifacts the stream refers to are on     *)
(* disk as it says, and the callers of one run are given one report. Both  *)
(* arguments speak of what is promised: of the stream as it will be once   *)
(* the writes that are left of the process's script are done.              *)
(***************************************************************************)
EXTENDS ResearchPipeline_proofs

---------------------------------------------------------------------------
(* What the report rests on *)

\* What is left to write, and the successes of an operation that the stream
\* holds once that is written.
Script == {proc.todo[i] : i \in 1..Left}
Succeeds(x, op) == x.type = "operation_succeeded" /\ x.op = op
Promised(op) == SucceededIn(op) \cup {x \in Script : Succeeds(x, op)}

PlanIs(plan) ==
    /\ Promised(Planner) # {}
    /\ \A e \in Promised(Planner) : e.status = plan
ReadFor(s) == {p \in Passages : Promised(Read(s, p)) # {}}
Unread == \A s \in 1..MaxSubtasks : ReadFor(s) = {}
Whole(plan, graph) ==
    /\ DOMAIN graph = DOMAIN plan /\ DOMAIN plan \subseteq 1..MaxSubtasks
    /\ \A s \in DOMAIN plan : graph[s] = ReadFor(s)

\* What a file holds once the script is written.
Filing(name, content) ==
    /\ disk[name] = content \/ File(name, content) \in Script
    /\ \A x \in Script : x.type = "file" /\ x.name = name => x.content = content

\* The executor has read, for every subtask behind it, what the graph says, and
\* nothing for those before it.
Chooses ==
    proc.next \in {"read", "reading"} =>
        \E p \in Passages : proc.reads = <<Candidate(p, TRUE)>>
Anchored ==
    proc.next = "anchor" =>
        \E p \in Passages :
            /\ proc.last = Candidate(p, TRUE)
            /\ \A s \in 1..MaxSubtasks : s = proc.subtask => ReadFor(s) = {p}
Gathered ==
    /\ IsList(proc.graph) /\ Len(proc.graph) = proc.subtask - 1
    /\ \A s \in 1..proc.subtask - 1 : proc.graph[s] = ReadFor(s)
    /\ \A s \in 1..MaxSubtasks :
          s > proc.subtask \/ (s = proc.subtask /\ proc.next # "anchor") => ReadFor(s) = {}
    /\ Chooses /\ Anchored

\* The artifacts the stream refers to are those of its plan and its reads.
Recorded ==
    \A refs \in ArtifactRefs :
        /\ \A x \in Script : x.type # "file"
        /\ disk["graph"] = refs.graph /\ disk["assessment"] = refs.assessment
        /\ PlanIs(disk["plan"]) /\ Whole(disk["plan"], refs.graph)

AllRead ==
    IsRunner =>
        /\ proc.next = "planning" => Promised(Planner) = {}
        /\ proc.next \in {"planning", "execute"} => Unread /\ proc.graph = <<>>
        /\ proc.next \in Composed \cup {"writer", "writing"} =>
              PlanIs(proc.plan) /\ Filing("plan", proc.plan)
        /\ proc.next \in Executing => Gathered
        /\ proc.next \in {"writer", "writing"} => Whole(proc.plan, proc.graph)
        /\ proc.next = "writer" /\ proc.todo # <<>> =>
              Filing("graph", proc.graph) /\ Filing("assessment", Assessment)
        /\ Recorded

\* A write leaves the script, and nothing joins it.
LEMMA ScriptShrinks ==
    ASSUME ProcTypes, proc.todo # <<>>, proc'.todo = Tail(proc.todo)
    PROVE  /\ Script = {Work} \cup Script'
           /\ Left = 1 => Script' = {}
<1>1. /\ Work = proc.todo[1] /\ Left \in Nat \ {0} /\ Left' = Left - 1
      /\ \A i \in 1..Left - 1 : proc'.todo[i] = proc.todo[i + 1]
  BY HeadIsFirst DEF Left
<1> DEFINE n == Left
           m == Left'
<1>2. n \in Nat \ {0} /\ m = n - 1 /\ \A i \in 1..m : proc'.todo[i] = proc.todo[i + 1]
  BY <1>1
<1>3. Script = {proc.todo[i] : i \in 1..n} /\ Script' = {proc'.todo[i] : i \in 1..m}
  BY DEF Script
<1> HIDE DEF n, m
<1>4. /\ \A i \in 1..m : i + 1 \in 1..n
      /\ \A j \in 1..n : j = 1 \/ (j - 1 \in 1..m /\ (j - 1) + 1 = j)
      /\ 1 \in 1..n
  BY <1>2
<1>5. \A j \in 1..n : j = 1 \/ (j - 1 \in 1..m /\ proc'.todo[j - 1] = proc.todo[j])
  <2> SUFFICES ASSUME NEW j \in 1..n, j # 1 PROVE j - 1 \in 1..m /\ proc'.todo[j - 1] = proc.todo[j]
    OBVIOUS
  <2>1. j - 1 \in 1..m /\ (j - 1) + 1 = j
    BY <1>4
  <2>2. proc'.todo[j - 1] = proc.todo[(j - 1) + 1]
    BY <1>2, <2>1
  <2> QED
    BY <2>1, <2>2
<1>6. Script \subseteq {Work} \cup Script'
  <2> SUFFICES ASSUME NEW j \in 1..n PROVE proc.todo[j] \in {Work} \cup Script'
    BY <1>3
  <2>1. CASE j = 1
    BY <1>1, <2>1
  <2>2. CASE j # 1
    BY <1>3, <1>5, <2>2
  <2> QED
    BY <2>1, <2>2
<1>7. {Work} \cup Script' \subseteq Script
  <2>1. proc.todo[1] \in Script
    BY <1>3, <1>4
  <2>2. ASSUME NEW i \in 1..m PROVE proc'.todo[i] \in Script
    BY <1>2, <1>3, <1>4
  <2>3. Script' \subseteq Script
    BY <1>3, <2>2
  <2> QED
    BY <1>1, <2>1, <2>3
<1>8. n = 1 => Script' = {}
  <2> SUFFICES ASSUME n = 1 PROVE Script' = {}
    OBVIOUS
  <2>1. 1..m = {}
    BY <1>2
  <2> QED
    BY <1>3, <2>1
<1> QED
  BY <1>6, <1>7, <1>8 DEF n

\* An event that is appended was promised.
LEMMA AppendPromises ==
    ASSUME Core, AppendEvent
    PROVE  \A op : Promised(op)' = Promised(op)
<1>1. /\ ProcTypes /\ proc.todo # <<>> /\ proc'.todo = Tail(proc.todo)
      /\ Events' = Events \cup {Work}
  BY AppendIsDoing DEF Core, AppendEvent, Doing, Popping
<1>2. Script = {Work} \cup Script'
  BY <1>1, ScriptShrinks
<1> SUFFICES ASSUME NEW op PROVE Promised(op)' = Promised(op)
  OBVIOUS
<1>3. Promised(op) = {x \in Events \cup Script : Succeeds(x, op)}
  BY DEF Promised, SucceededIn, Succeeds
<1>4. Promised(op)' = {x \in Events' \cup Script' : Succeeds(x, op)}
  BY DEF Promised, SucceededIn, Succeeds
<1> QED
  BY <1>1, <1>2, <1>3, <1>4

\* Files and reductions promise nothing.
LEMMA PassingPromises ==
    ASSUME Core, WriteArtifact \/ (ReduceStream /\ view.ok)
    PROVE  /\ \A op : Promised(op)' = Promised(op)
           /\ Script = {Work} \cup Script' /\ SameProc /\ UNCHANGED <<config, stream, view>>
<1>1. /\ ProcTypes /\ proc.todo # <<>> /\ proc'.todo = Tail(proc.todo) /\ SameProc
      /\ UNCHANGED <<config, stream, view>> /\ Work.type \in {"file", "reduce"}
  BY FileIsDoing, ReduceIsDoing DEF Core, Doing, Popping, WriteArtifact, ReduceStream
<1>2. Script = {Work} \cup Script'
  BY <1>1, ScriptShrinks
<1>3. \A op : ~Succeeds(Work, op)
  BY <1>1 DEF Succeeds
<1>4. \A op : SucceededIn(op)' = SucceededIn(op)
  BY <1>1 DEF SucceededIn, Events
<1>5. ASSUME NEW op PROVE Promised(op)' = Promised(op)
  <2>1. Promised(op)' = SucceededIn(op)' \cup {x \in Script' : Succeeds(x, op)}
    BY DEF Promised, Succeeds
  <2> QED
    BY <1>2, <1>3, <1>4, <2>1 DEF Promised
<1> QED
  BY <1>1, <1>2, <1>5

\* A process with nothing left to write promises no more than is in the stream.
LEMMA NothingPromised ==
    /\ proc.todo = <<>> => Script = {} /\ \A op : Promised(op) = SucceededIn(op)
    /\ Script = {} => \A op : Promised(op) = SucceededIn(op)
<1>1. proc.todo = <<>> => Script = {}
  <2> SUFFICES ASSUME proc.todo = <<>> PROVE Script = {}
    OBVIOUS
  <2>1. Left = 0
    BY DEF Left
  <2>2. 1..Left = {}
    BY <2>1
  <2> QED
    BY <2>2 DEF Script
<1>2. Script = {} => \A op : Promised(op) = SucceededIn(op)
  BY DEF Promised
<1> QED
  BY <1>1, <1>2

\* A script that is begun promises the successes in it.
LEMMA NewPromises ==
    ASSUME stream' = stream, proc.todo = <<>>
    PROVE  \A op : Promised(op)' = Promised(op) \cup {x \in Script' : Succeeds(x, op)}
<1> SUFFICES ASSUME NEW op
             PROVE  Promised(op)' = Promised(op) \cup {x \in Script' : Succeeds(x, op)}
  OBVIOUS
<1>1. SucceededIn(op)' = SucceededIn(op) /\ Promised(op) = SucceededIn(op)
  BY NothingPromised DEF SucceededIn, Events
<1>2. Promised(op)' = SucceededIn(op)' \cup {x \in Script' : Succeeds(x, op)}
  BY DEF Promised, Succeeds
<1> QED
  BY <1>1, <1>2

\* Every process has the writes of its place.
LEMMA CoreItems == Core => Items
BY ItemsHold DEF Core

\* Most scripts promise nothing: those of the places where an operation is
\* called, of the executor's loop, of the assessment.
LEMMA NothingNew ==
    ASSUME stream' = stream, proc.todo = <<>>, Core',
           proc'.next \in Calling \cup {"subtask", "graph", "writer"}
    PROVE  \A op : Promised(op)' = Promised(op)
<1>1. Items'
  <2>1. (Core => Items)'
    BY CoreItems, PTL
  <2> QED
    BY <2>1
<1>2. \A i \in 1..Left' : ~Settling(proc'.todo[i])
  BY <1>1 DEF Items, Mute, Settling
<1>3. \A x \in Script' : \A op : ~Succeeds(x, op)
  BY <1>2 DEF Script, Settling, Succeeds, OutcomeTypes
<1> QED
  BY <1>3, NewPromises

\* A file comes to hold what its script says.
LEMMA FilingKept ==
    ASSUME disk = [name \in DiskNames |-> disk[name]], Script = {Work} \cup Script',
           \/ disk' = disk /\ Work.type # "file"
           \/ disk' = [disk EXCEPT ![Work.name] = Work.content] /\ Work.type = "file",
           NEW name \in DiskNames, NEW content, Filing(name, content)
    PROVE  Filing(name, content)'
<1> DEFINE f == File(name, content)
<1>1. f.type = "file" /\ f.name = name /\ f.content = content
  BY DEF File
<1> HIDE DEF f
<1>2. /\ disk[name] = content \/ f \in Script
      /\ \A x \in Script : x.type = "file" /\ x.name = name => x.content = content
  BY DEF Filing, f
<1>3. \A x \in Script' : x.type = "file" /\ x.name = name => x.content = content
  BY <1>2
<1>4. disk'[name] = content \/ f \in Script'
  <2>1. CASE disk' = disk /\ Work.type # "file"
    BY <1>1, <1>2, <2>1
  <2>2. CASE disk' = [disk EXCEPT ![Work.name] = Work.content] /\ Work.type = "file"
    <3>1. CASE Work.name = name
      <4>1. Work.content = content
        BY <1>2, <2>2, <3>1
      <4>2. name \in DOMAIN disk
        OBVIOUS
      <4> QED
        BY <2>2, <3>1, <4>1, <4>2
    <3>2. CASE Work.name # name
      <4>1. disk'[name] = disk[name]
        BY <2>2, <3>2
      <4> QED
        BY <1>1, <1>2, <3>2, <4>1
    <3> QED
      BY <3>1, <3>2
  <2> QED
    BY <2>1, <2>2
<1>5. Filing(name, content)' <=>
        /\ disk'[name] = content \/ f \in Script'
        /\ \A x \in Script' : x.type = "file" /\ x.name = name => x.content = content
  BY DEF Filing, f, File
<1> QED
  BY <1>3, <1>4, <1>5

\* Where files are still to be written.
LEMMA FilePlaces ==
    ASSUME ProcTypes, Shape, NEW x \in Script, x.type = "file"
    PROVE  \/ proc.next \in {"execute", "writer"}
           \/ proc.next = "raise" /\ Left = 5
<1>1. PICK k \in 1..Left : x = proc.todo[k]
  BY DEF Script
<1>a. /\ RunStarted.type # "file" /\ Checkpoint.type # "file" /\ Elapsed.type # "file"
      /\ \A from, to : Lifecycle(from, to).type # "file"
      /\ \A code : Reduce(code).type # "file"
  BY DEF RunStarted, Checkpoint, Reduce, Elapsed, ElapsedRecorded, Lifecycle
<1>b. \A op : Reserve1(op).type # "file" /\ OperationDispatched(op, 1).type # "file"
              /\ OperationUnknown(op, 1).type # "file"
  BY DEF Reserve1, OperationReserved, OperationDispatched, OperationUnknown
<1>c. \A op, u, c : /\ OperationSucceeded(op, 1, u, c).type # "file"
                    /\ OperationFailed(op, 1, u, c).type # "file"
  BY DEF OperationSucceeded, OperationFailed
<1>d. Approve.type # "file" /\ Begin.type # "file" /\ Failed.type # "file"
  BY <1>a DEF Approve, Begin, Failed
<1>e. \A y, ops : Failure(y, ops) => y.type # "file"
  BY <1>b, <1>c DEF Failure
<1>2. ASSUME Planning \/ Writing PROVE FALSE
  <2>1. \E op, code : Writes(<<RunStarted, Approve, Begin, Reserve1(op), Reduce(code),
                               OperationDispatched(op, 1)>>)
    BY <1>2 DEF Planning, Writing, Opening
  <2> QED
    BY <1>1, <1>a, <1>b, <1>d, <2>1, EachItem
<1>3. ASSUME Execution PROVE FALSE
  <2>1. CASE BetweenSubtasks
    <3>1. proc.todo = <<>> \/ Writes(<<RunStarted, Approve, Begin>>)
      BY <2>1 DEF BetweenSubtasks
    <3>2. proc.todo # <<>>
      <4>1. proc.todo = <<>> => 1..Left = {}
        BY DEF Left
      <4> QED
        BY <1>1, <4>1
    <3> QED
      BY <1>1, <1>a, <1>d, <3>1, <3>2, EachItem
  <2>2. CASE UsingTool
    <3>1. \E op, code : Writes(<<Reserve1(op), Reduce(code), OperationDispatched(op, 1)>>)
      BY <2>2 DEF UsingTool, Asking
    <3> QED
      BY <1>1, <1>a, <1>b, <3>1, EachItem
  <2>3. CASE ToolUsed
    <3>1. \E op : Writes(<<OperationSucceeded(op, 1, NoUsage, "success")>>)
      BY <2>3 DEF ToolUsed, Found
    <3> QED
      BY <1>1, <1>c, <3>1, EachItem
  <2>4. CASE Executed
    BY <1>1, <1>a, <2>4, EachItem DEF Executed
  <2> QED
    BY <1>3, <2>1, <2>2, <2>3, <2>4 DEF Execution
<1>4. ASSUME Written \/ WriterLost PROVE FALSE
  <2>1. CASE Written
    <3>1. \E usage, from, to : Writes(<<OperationSucceeded(Writer, 1, usage, proc.result), Elapsed,
                                  Lifecycle("researching", "validating"), Lifecycle(from, to),
                                  Checkpoint>>)
      BY <2>1 DEF Written, WriterSettled
    <3> QED
      BY <1>1, <1>a, <1>c, <3>1, EachItem
  <2>2. CASE WriterLost
    BY <1>1, <1>a, <1>b, <1>d, <2>2, EachItem DEF WriterLost
  <2> QED
    BY <1>4, <2>1, <2>2
<1>5. CASE Raising
  <2>1. CASE ProviderFailed
    <3>1. PICK y : Failure(y, {Planner, Writer}) /\ Writes(<<y, Elapsed, Failed, Checkpoint>>)
      BY <2>1 DEF ProviderFailed
    <3>2. y.type # "file" /\ proc.todo[k] \in {y, Elapsed, Failed, Checkpoint}
      BY <1>e, <3>1, EachItem
    <3> QED
      BY <1>1, <1>a, <1>d, <3>2
  <2>2. CASE StageFailed
    <3>1. PICK y : Writes(<<y, Checkpoint, Elapsed, Failed, Checkpoint>>)
      BY <2>2 DEF StageFailed
    <3> DEFINE s == <<y, Checkpoint, Elapsed, Failed, Checkpoint>>
               n == Left
    <3>2. \A j \in 2..5 : s[j].type # "file"
      BY <1>a, <1>d
    <3>3. Len(s) = 5
      OBVIOUS
    <3>4. Writes(s)
      BY <3>1
    <3>5. n \in Nat
      BY DEF ProcTypes, IsList, Left
    <3> HIDE DEF s
    <3>6. n <= 5 /\ proc.todo[k] = s[5 - n + k]
      BY <1>1, <3>3, <3>4 DEF Writes, Rest, Left
    <3>7. n = 5
      <4>1. k \in 1..n
        BY <1>1
      <4> HIDE DEF n
      <4>2. 5 - n + k \in 1..5
        BY <3>5, <3>6, <4>1
      <4>3. 5 - n + k \notin 2..5
        BY <1>1, <3>2, <3>6
      <4> QED
        BY <3>5, <3>6, <4>1, <4>2, <4>3
    <3> QED
      BY <1>5, <3>7 DEF Raising
  <2>3. CASE FailedBefore
    BY <1>1, <1>a, <2>3, EachItem DEF FailedBefore
  <2>4. CASE ExecutorFailed \/ Unexpected
    <3>1. proc.todo # <<>>
      <4>1. proc.todo = <<>> => 1..Left = {}
        BY DEF Left
      <4> QED
        BY <1>1, <4>1
    <3>2. PICK y : ExecutorWrite(y) /\ Writes(<<y>>)
      BY <2>4, <3>1 DEF ExecutorFailed, Unexpected
    <3>3. y.type # "file"
      BY <1>c, <1>e, <3>2 DEF ExecutorWrite, Found
    <3> QED
      BY <1>1, <3>2, <3>3, EachItem
  <2> QED
    BY <1>5, <2>1, <2>2, <2>3, <2>4 DEF Raising
<1>6. CASE Idling
  <2>1. 1..Left = {}
    BY <1>6 DEF Idling, Idle, Left
  <2> QED
    BY <1>1, <2>1
<1> QED
  BY <1>2, <1>3, <1>4, <1>5, <1>6 DEF Shape, Planned, Assessing

\* Once artifacts are recorded, only the writer may still succeed.
LEMMA BoundPromises ==
    ASSUME Core, Books, Bound, NEW op \in Ops, op # Writer
    PROVE  Promised(op) = SucceededIn(op)
<1>1. ~\E x \in Script : Succeeds(x, op)
  <2> SUFFICES ASSUME NEW x \in Script, Succeeds(x, op) PROVE FALSE
    OBVIOUS
  <2>1. PICK i \in 1..Left : x = proc.todo[i]
    BY DEF Script
  <2>2. op \in Owing(proc.todo[i]) /\ Settling(proc.todo[i]) /\ proc.todo[i].op = op
    BY <2>1 DEF Succeeds, Owing, Settling, OutcomeTypes
  <2>3. op \in Owed
    BY <2>2, OwesItem
  <2>4. Items /\ Shape /\ Bounded
    BY CoreItems DEF Core, Books
  <2>5. proc.next \notin Calling \cup {"writer", "return", "raise", "planning"} \cup Composed
    <3>1. proc.next \notin Calling \cup {"writer", "return"}
      BY <2>2, <2>4 DEF Items, Mute, Settling
    <3>2. proc.next # "raise"
      BY <2>3, <2>4 DEF Bounded
    <3> QED
      BY <2>4, <3>1, <3>2 DEF Bounded
  <2>6. proc = Idle
    BY <2>4, <2>5
    DEF Shape, Idling, Planning, Planned, Execution, BetweenSubtasks, UsingTool, ToolUsed,
       Executed, Assessing, Writing, Written, WriterLost, Raising, Calling, Composed, Executing
  <2>7. 1..Left = {}
    BY <2>6 DEF Idle, Left
  <2> QED
    BY <2>1, <2>7
<1> QED
  BY <1>1 DEF Promised

\* The same as an implication, which holds of the next state as well.
LEMMA OnlyTheWriter ==
    Core /\ Books /\ Bound => \A op \in Ops \ {Writer} : Promised(op) = SucceededIn(op)
BY BoundPromises

\* What is recorded when a process begins a script, or ends, stays so.
LEMMA RecordedStays ==
    ASSUME Core, Books, Core', Books', Recorded, UNCHANGED <<config, stream, disk>>,
           ArtifactRefs # {} => \A x \in Script' : x.type # "file"
    PROVE  Recorded'
<1>1. ArtifactRefs' = ArtifactRefs /\ \A op : SucceededIn(op)' = SucceededIn(op)
  BY DEF ArtifactRefs, SucceededIn, Events
<1>2. CASE ArtifactRefs = {}
  BY <1>1, <1>2 DEF Recorded
<1>3. CASE ArtifactRefs # {}
  <2>1. Bound /\ Bound'
    BY <1>1, <1>3 DEF Bound
  <2>2. (Core /\ Books /\ Bound => \A op \in Ops \ {Writer} : Promised(op) = SucceededIn(op))'
    BY OnlyTheWriter, PTL
  <2>3. \A op \in Ops \ {Writer} : Promised(op) = SucceededIn(op)
    BY <2>1, OnlyTheWriter
  <2>4. \A op \in Ops \ {Writer} : Promised(op)' = Promised(op)
    BY <1>1, <2>1, <2>2, <2>3
  <2>5. Planner \in Ops \ {Writer} /\ \A s \in 1..MaxSubtasks, p \in Passages :
            Read(s, p) \in Ops \ {Writer}
    BY OpsKnown DEF ToolOps
  <2>7. \A s \in 1..MaxSubtasks : ReadFor(s)' = ReadFor(s)
    BY <2>4, <2>5 DEF ReadFor
  <2> SUFFICES ASSUME NEW refs \in ArtifactRefs
               PROVE  /\ \A x \in Script' : x.type # "file"
                      /\ disk["graph"] = refs.graph /\ disk["assessment"] = refs.assessment
                      /\ PlanIs(disk["plan"])' /\ Whole(disk["plan"], refs.graph)'
    BY <1>1 DEF Recorded
  <2> DEFINE plan == disk["plan"]
  <2>9. plan' = plan /\ PlanIs(plan) /\ Whole(plan, refs.graph)
    BY DEF Recorded
  <2> HIDE DEF plan
  <2>10. PlanIs(plan)' /\ Whole(plan, refs.graph)'
    <3>1. PlanIs(plan)'
      BY <2>4, <2>5, <2>9 DEF PlanIs
    <3>2. Whole(plan, refs.graph)'
      BY <2>7, <2>9 DEF Whole
    <3> QED
      BY <3>1, <3>2
  <2> QED
    BY <1>3, <2>10 DEF Recorded, plan
<1> QED
  BY <1>2, <1>3

\* A process that goes on with its script, with the same promises, keeps what
\* is known of what was read.
LEMMA GoingOnKeepsRead ==
    ASSUME AllRead, ProcTypes, SameProc, \A op : Promised(op)' = Promised(op),
           \A name \in DiskNames : \A content : Filing(name, content) => Filing(name, content)',
           proc.todo # <<>>, IsRunner => Recorded'
    PROVE  AllRead'
<1> SUFFICES ASSUME IsRunner PROVE AllRead'
  BY DEF AllRead, SameProc, IsRunner
<1>1. /\ proc'.next = proc.next /\ proc'.subtask = proc.subtask /\ proc'.plan = proc.plan
      /\ proc'.graph = proc.graph /\ proc'.reads = proc.reads /\ proc'.last = proc.last
      /\ config' = config
  BY DEF SameProc
<1>2. \A s : ReadFor(s)' = ReadFor(s)
  BY DEF ReadFor
<1>3. Unread => Unread'
  BY <1>2 DEF Unread
<1>4. PlanIs(proc.plan) => PlanIs(proc.plan)'
  BY <1>1 DEF PlanIs
<1>5. Whole(proc.plan, proc.graph) => Whole(proc.plan, proc.graph)'
  BY <1>1, <1>2 DEF Whole
<1>6. Gathered => Gathered'
  BY <1>1, <1>2 DEF Gathered, Chooses, Anchored
<1>7. Assessment' = Assessment
  BY <1>1 DEF Assessment
<1>8. "plan" \in DiskNames /\ "graph" \in DiskNames /\ "assessment" \in DiskNames
  BY DEF DiskNames
<1>9. \A name \in DiskNames : \A content : Filing(name, content) =>
          /\ disk'[name] = content \/ File(name, content) \in Script'
          /\ \A x \in Script' : x.type = "file" /\ x.name = name => x.content = content
  BY DEF Filing, File
<1>10. /\ Filing("plan", proc.plan) => Filing("plan", proc.plan)'
       /\ Filing("graph", proc.graph) => Filing("graph", proc.graph)'
       /\ Filing("assessment", Assessment) => Filing("assessment", Assessment)'
  <2> DEFINE a == proc.plan
             b == proc.graph
             c == Assessment
  <2>1. a' = a /\ b' = b /\ c' = c
    BY <1>1, <1>7
  <2> HIDE DEF a, b, c
  <2>2. Filing("plan", a) => Filing("plan", a)'
    BY <1>8, <1>9, <2>1 DEF Filing, File
  <2>3. Filing("graph", b) => Filing("graph", b)'
    BY <1>8, <1>9, <2>1 DEF Filing, File
  <2>4. Filing("assessment", c) => Filing("assessment", c)'
    BY <1>8, <1>9, <2>1 DEF Filing, File
  <2> QED
    BY <2>2, <2>3, <2>4 DEF a, b, c
<1> QED
  BY <1>1, <1>3, <1>4, <1>5, <1>6, <1>10 DEF AllRead, IsRunner

\* The references are appended when their files are written.
LEMMA ReferencesAreLast ==
    ASSUME Core, AppendEvent, proc.next = "writer", Work = References
    PROVE  Left = 1 /\ Script' = {}
<1>1. Doing /\ Shape /\ Popping /\ proc.todo # <<>>
  BY AppendIsDoing DEF Core, Doing, AppendEvent
<1>2. IsRunner /\ Writes(<<GraphFile, File("assessment", Assessment), References>>)
  BY <1>1
  DEF Shape, Idling, Idle, Planning, Planned, Execution, BetweenSubtasks, UsingTool, ToolUsed,
     Executed, Assessing, Writing, Written, WriterLost, Raising
<1>3. /\ Left = 3 => Work = GraphFile
      /\ Left = 2 => Work = File("assessment", Assessment)
      /\ Left \in 1..3
  BY <1>1, <1>2, AssessingPops
<1>4. /\ References.type # "file" /\ GraphFile.type = "file"
      /\ File("assessment", Assessment).type = "file"
  BY DEF References, ArtifactsRecorded, GraphFile, File
<1>5. Left = 1
  BY <1>3, <1>4
<1> QED
  BY <1>1, <1>5, ScriptShrinks DEF Popping

\* An append, of the references among others, records what was read.
LEMMA AppendKeepsRead == ASSUME Core, Books, AllRead, AppendEvent PROVE AllRead'
<1>0. /\ Doing /\ ProcTypes /\ SameProc /\ proc.todo # <<>> /\ proc'.todo = Tail(proc.todo)
      /\ disk' = disk /\ Work.type # "file"
      /\ disk = [name \in DiskNames |-> disk[name]]
  BY AppendIsDoing DEF Doing, Popping, AppendEvent, Core, Durable
<1>1. Script = {Work} \cup Script' /\ (Left = 1 => Script' = {})
  BY <1>0, ScriptShrinks
<1>2. \A op : Promised(op)' = Promised(op)
  BY AppendPromises
<1>3. \A name \in DiskNames : \A content : Filing(name, content) => Filing(name, content)'
  BY <1>0, <1>1, FilingKept
<1>4. ASSUME IsRunner PROVE Recorded'
  <2> DEFINE plan == disk["plan"]
  <2>1. plan' = plan
    BY <1>0
  <2>2. PlanIs(plan) => PlanIs(plan)'
    <3> HIDE DEF plan
    <3> QED
      BY <1>2, <2>1 DEF PlanIs
  <2>3. \A graph : Whole(plan, graph) => Whole(plan, graph)'
    <3> HIDE DEF plan
    <3>1. \A s : ReadFor(s)' = ReadFor(s)
      BY <1>2 DEF ReadFor
    <3> QED
      BY <2>1, <3>1 DEF Whole
  <2> SUFFICES ASSUME NEW refs \in ArtifactRefs'
               PROVE  /\ \A x \in Script' : x.type # "file"
                      /\ disk["graph"] = refs.graph /\ disk["assessment"] = refs.assessment
                      /\ PlanIs(plan) /\ Whole(plan, refs.graph)
    BY <1>0, <2>1, <2>2, <2>3 DEF Recorded
  <2>4. CASE refs \in ArtifactRefs
    BY <1>1, <1>4, <2>4 DEF AllRead, Recorded
  <2>5. CASE refs \notin ArtifactRefs
    <3>1. proc.next = "writer" /\ Work = References /\ refs = References.artifacts
      BY <2>5, RefsRecorded
    <3>2. Left = 1 /\ Script' = {}
      BY <3>1, ReferencesAreLast
    <3>3. refs.graph = proc.graph /\ refs.assessment = Assessment
      BY <3>1 DEF References, ArtifactsRecorded
    <3>4. /\ Filing("plan", proc.plan) /\ Filing("graph", proc.graph)
          /\ Filing("assessment", Assessment)
          /\ PlanIs(proc.plan) /\ Whole(proc.plan, proc.graph)
      BY <1>0, <1>4, <3>1 DEF AllRead
    <3>5. \A x \in Script : x.type # "file"
      BY <1>0, <1>1, <3>2
    <3>6. \A name, content : Filing(name, content) => disk[name] = content
      BY <3>5 DEF Filing, File
    <3>7. plan = proc.plan /\ disk["graph"] = refs.graph /\ disk["assessment"] = refs.assessment
      BY <3>3, <3>4, <3>6
    <3> HIDE DEF plan
    <3> QED
      BY <3>2, <3>3, <3>4, <3>7
  <2> QED
    BY <2>4, <2>5
<1> QED
  BY <1>0, <1>2, <1>3, <1>4, GoingOnKeepsRead

\* A file is written once it is known what it holds, and before it is referred to.
LEMMA PassingKeepsRead ==
    ASSUME Core, Books, AllRead, WriteArtifact \/ (ReduceStream /\ view.ok)
    PROVE  AllRead'
<1>0. /\ \A op : Promised(op)' = Promised(op)
      /\ Script = {Work} \cup Script' /\ SameProc /\ UNCHANGED <<config, stream, view>>
      /\ ProcTypes /\ proc.todo # <<>>
      /\ disk = [name \in DiskNames |-> disk[name]]
  BY PassingPromises DEF Core, Durable, WriteArtifact, ReduceStream
<1>1. \/ disk' = disk /\ Work.type # "file"
      \/ disk' = [disk EXCEPT ![Work.name] = Work.content] /\ Work.type = "file"
  BY DEF WriteArtifact, ReduceStream
<1>2. \A name \in DiskNames : \A content : Filing(name, content) => Filing(name, content)'
  BY <1>0, <1>1, FilingKept
<1>3. ASSUME IsRunner PROVE Recorded'
  <2>1. ArtifactRefs' = ArtifactRefs
    BY <1>0 DEF ArtifactRefs, Events
  <2> DEFINE plan == disk["plan"]
  <2> SUFFICES ASSUME NEW refs \in ArtifactRefs
               PROVE  /\ \A x \in Script' : x.type # "file"
                      /\ disk'["graph"] = refs.graph /\ disk'["assessment"] = refs.assessment
                      /\ PlanIs(plan)' /\ Whole(plan, refs.graph)'
    BY <2>1 DEF Recorded
  <2>2. /\ \A x \in Script : x.type # "file"
        /\ disk["graph"] = refs.graph /\ disk["assessment"] = refs.assessment
        /\ PlanIs(plan) /\ Whole(plan, refs.graph)
    BY <1>3 DEF AllRead, Recorded
  <2>3. disk' = disk
    BY <1>0, <1>1, <2>2
  <2>4. \A s : ReadFor(s)' = ReadFor(s)
    BY <1>0 DEF ReadFor
  <2>5. plan' = plan
    BY <2>3
  <2> HIDE DEF plan
  <2> QED
    BY <1>0, <2>2, <2>3, <2>4, <2>5 DEF PlanIs, Whole
<1> QED
  BY <1>0, <1>2, <1>3, GoingOnKeepsRead

\* The places of files, as an implication that holds of the next state as well.
LEMMA FilesWhere ==
    Core => \A x \in Script : x.type = "file" =>
                \/ proc.next \in {"execute", "writer"}
                \/ proc.next = "raise" /\ Left = 5
BY FilePlaces DEF Core

\* A process that ends, returns or raises leaves only what is recorded.
LEMMA EndKeepsRead ==
    ASSUME Core, Books, Core', Books', AllRead, UNCHANGED <<config, stream, disk>>,
           \/ proc'.next \in {"idle", "return"}
           \/ proc'.next = "raise" /\ (Left' # 5 \/ ~Bound)
    PROVE  AllRead'
<1>1. (Core => \A x \in Script : x.type = "file" =>
                \/ proc.next \in {"execute", "writer"}
                \/ proc.next = "raise" /\ Left = 5)'
  BY FilesWhere, PTL
<1>2. ArtifactRefs # {} => \A x \in Script' : x.type # "file"
  BY <1>1 DEF Bound
<1>3. IsRunner => Recorded'
  BY <1>2, RecordedStays DEF AllRead
<1> QED
  BY <1>3 DEF AllRead, IsRunner, Composed, Executing

\* The plan's file stays what it is while no other is written in its place.
LEMMA PlanStaysFiled ==
    ASSUME disk' = disk, proc.todo = <<>>, proc'.plan = proc.plan, Filing("plan", proc.plan),
           \A x \in Script' : x.type = "file" => x.name # "plan"
    PROVE  Filing("plan", proc.plan)'
<1>1. disk["plan"] = proc.plan
  BY NothingPromised DEF Filing
<1> QED
  BY <1>1 DEF Filing

\* A step of the executor keeps what is known if the graph keeps up with the reads.
LEMMA ExecutorKeepsRead ==
    ASSUME Core, Books, AllRead, UNCHANGED <<config, stream, disk>>, proc.todo = <<>>,
           proc.next \in Composed, proc'.next \in Executing, proc'.plan = proc.plan,
           IsRunner => Gathered', IsRunner => Promised(Planner)' = Promised(Planner),
           \A x \in Script' : x.type # "file"
    PROVE  AllRead'
<1> SUFFICES ASSUME IsRunner PROVE AllRead'
  BY DEF AllRead, IsRunner
<1>1. PlanIs(proc.plan) /\ Filing("plan", proc.plan)
  BY DEF AllRead
<1>2. PlanIs(proc.plan)'
  BY <1>1 DEF PlanIs
<1>3. Filing("plan", proc.plan)'
  BY <1>1, PlanStaysFiled
<1>4. ArtifactRefs = {}
  BY DEF Books, Bounded, Bound
<1>5. ArtifactRefs' = {}
  BY <1>4 DEF ArtifactRefs, Events
<1> QED
  BY <1>2, <1>3, <1>5 DEF AllRead, Recorded, IsRunner, Executing

\* The steps of the executor that begin no success, from what they leave.
LEMMA QuietKeepsRead ==
    ASSUME Core, Books, Core', AllRead, UNCHANGED <<config, stream, disk>>, proc.todo = <<>>,
           proc.next \in Composed, proc'.next \in {"subtask", "search", "reading", "graph"},
           proc'.plan = proc.plan, IsRunner => Gathered'
    PROVE  AllRead'
<1>1. \A op : Promised(op)' = Promised(op)
  BY NothingNew DEF Calling
<1>2. (Core => \A x \in Script : x.type = "file" =>
                \/ proc.next \in {"execute", "writer"}
                \/ proc.next = "raise" /\ Left = 5)'
  BY FilesWhere, PTL
<1> QED
  BY <1>1, <1>2, ExecutorKeepsRead DEF Executing

\* StartExecution, StartSubtask and StartRead change no promise.
LEMMA StartKeepsRead ==
    ASSUME Core, Books, Core', Books', AllRead, StartExecution \/ StartSubtask \/ StartRead
    PROVE  AllRead'
<1>0. /\ UNCHANGED <<config, stream, disk>> /\ proc.todo = <<>> /\ ProcTypes
      /\ proc.next \in Composed
  BY DEF StartExecution, StartSubtask, StartRead, At, Core, Composed, Executing
<1>1. ~Bound
  BY <1>0 DEF Books, Bounded
<1>2. ASSUME NEW todo, NEW code, Stage(todo, code) PROVE AllRead'
  <2>1. proc'.next = "raise"
    BY <1>0, <1>2, RaiseNext DEF Stage
  <2> QED
    BY <1>0, <1>1, <2>1, EndKeepsRead
<1>3. ASSUME NEW todo, NEW place \in {"search", "reading", "graph"}, Goto(todo, place),
             proc.next \in {"subtask", "read"}, place = "reading" => proc.next = "read"
      PROVE  AllRead'
  <2>1. /\ proc'.next = place /\ proc'.plan = proc.plan /\ proc'.graph = proc.graph
        /\ proc'.subtask = proc.subtask /\ proc'.reads = proc.reads
    BY <1>0, <1>3 DEF Goto, ProcTypes
  <2>2. \A op : Promised(op)' = Promised(op)
    BY <1>0, <2>1, NothingNew DEF Calling
  <2>3. \A s : ReadFor(s)' = ReadFor(s)
    BY <2>2 DEF ReadFor
  <2>4. IsRunner => Gathered
    BY <1>3 DEF AllRead, Executing
  <2>5. IsRunner => Gathered'
    BY <1>3, <2>1, <2>3, <2>4 DEF Gathered, Chooses, Anchored
  <2> QED
    BY <1>0, <2>1, <2>5, QuietKeepsRead
<1>4. CASE StartExecution
  <2>1. CASE Executable
    <3>1. /\ proc'.next = "subtask" /\ proc'.subtask = 1 /\ proc'.plan = proc.plan
          /\ proc'.graph = proc.graph
      BY <1>0, <1>4, <2>1 DEF StartExecution, ProcTypes
    <3>2. \A op : Promised(op)' = Promised(op)
      BY <1>0, <3>1, NothingNew
    <3>3. \A s : ReadFor(s)' = ReadFor(s)
      BY <3>2 DEF ReadFor
    <3>4. IsRunner => Unread /\ proc.graph = <<>>
      BY <1>4 DEF StartExecution, At, AllRead
    <3>5. IsRunner => Gathered'
      <4> SUFFICES ASSUME IsRunner PROVE Gathered'
        OBVIOUS
      <4>1. proc'.graph = <<>> /\ IsList(<<>>) /\ Len(proc'.graph) = proc'.subtask - 1
        BY <3>1, <3>4, Lists
      <4>2. 1..proc'.subtask - 1 = {}
        BY <3>1
      <4>3. \A s \in 1..MaxSubtasks : ReadFor(s)' = {}
        BY <3>3, <3>4 DEF Unread
      <4> QED
        BY <3>1, <4>1, <4>2, <4>3 DEF Gathered, Chooses, Anchored
    <3> QED
      BY <1>0, <3>1, <3>5, QuietKeepsRead
  <2>2. CASE ~Executable
    BY <1>2, <1>4, <2>2 DEF StartExecution
  <2> QED
    BY <2>1, <2>2
<1>5. CASE StartSubtask
  BY <1>2, <1>3, <1>5 DEF StartSubtask, At
<1>6. CASE StartRead
  BY <1>2, <1>3, <1>6 DEF StartRead, At
<1> QED
  BY <1>4, <1>5, <1>6

\* Reads are told apart by their subtask and their passage.
LEMMA ReadsDiffer ==
    \A s, p : /\ \A t, q : Read(s, p) = Read(t, q) => s = t /\ p = q
              /\ \A t : Read(s, p) # Search(t)
              /\ Read(s, p) # Planner /\ Read(s, p) # Writer
<1>1. \A s, p, t, q : Read(s, p) = Read(t, q) => s = t /\ p = q
  BY DEF Read
<1>2. \A s, p, t : Read(s, p) # Search(t)
  BY DEF Read, Search
<1>3. \A s, p : Read(s, p) # Planner /\ Read(s, p) # Writer
  BY DEF Read, Planner, Writer
<1> QED
  BY <1>1, <1>2, <1>3

\* The success of a tool is promised for its operation only.
LEMMA FoundPromises ==
    ASSUME stream' = stream, proc.todo = <<>>, NEW op, proc'.todo = ToolSucceeded(op)
    PROVE  /\ \A o : o # op => Promised(o)' = Promised(o)
           /\ Promised(op)' # {}
           /\ \A x \in Script' : x.type # "file"
<1> DEFINE x == OperationSucceeded(op, 1, NoUsage, "success")
<1>1. x.type = "operation_succeeded" /\ x.op = op
  BY OutcomesTyped
<1>2. Script' = {x}
  <2>1. proc'.todo = <<x>>
    BY DEF ToolSucceeded
  <2> HIDE DEF x
  <2> QED
    BY <2>1 DEF Script, Left
<1> HIDE DEF x
<1>3. \A o : Succeeds(x, o) <=> o = op
  BY <1>1 DEF Succeeds
<1>4. \A o : Promised(o)' = Promised(o) \cup {y \in Script' : Succeeds(y, o)}
  BY NewPromises
<1>5. ASSUME NEW o, o # op PROVE Promised(o)' = Promised(o)
  BY <1>2, <1>3, <1>4, <1>5
<1>6. Promised(op)' # {}
  BY <1>2, <1>3, <1>4
<1> QED
  BY <1>1, <1>2, <1>5, <1>6

\* A search chooses what is read, and reads nothing.
LEMMA SearchKeepsRead ==
    ASSUME Core, Books, Core', Books', AllRead, SearchAnswers
    PROVE  AllRead'
<1>0. /\ UNCHANGED <<config, stream, disk>> /\ proc.todo = <<>> /\ ProcTypes
      /\ proc.next = "search" /\ proc.next \in Composed
  BY DEF SearchAnswers, At, Core, Composed, Executing
<1>1. ~Bound
  BY <1>0 DEF Books, Bounded
<1>2. ASSUME NEW todo, NEW code, Stage(todo, code) PROVE AllRead'
  <2>1. proc'.next = "raise"
    BY <1>0, <1>2, RaiseNext DEF Stage
  <2> QED
    BY <1>0, <1>1, <2>1, EndKeepsRead
<1>3. ASSUME NEW hits \in SUBSET InScope, NEW hit \in Kept(hits),
             proc' = [proc EXCEPT !.todo = ToolSucceeded(Search(proc.subtask)),
                                  !.next = IF Chosen(hit) = <<>> THEN "anchor" ELSE "read",
                                  !.reads = Chosen(hit)]
      PROVE  AllRead'
  <2> DEFINE op == Search(proc.subtask)
  <2>1. /\ proc'.todo = ToolSucceeded(op) /\ proc'.plan = proc.plan /\ proc'.graph = proc.graph
        /\ proc'.subtask = proc.subtask /\ proc'.reads = Chosen(hit)
        /\ proc'.next = IF Chosen(hit) = <<>> THEN "anchor" ELSE "read"
    BY <1>0, <1>3 DEF ProcTypes
  <2>2. hit \in Passages
    <3>1. Kept(hits) \subseteq hits /\ hits \subseteq Passages
      BY DEF Kept, InScope
    <3> QED
      BY <3>1
  <2>3. IsRunner => Chosen(hit) = <<Candidate(hit, TRUE)>>
    BY PipelineAssumption DEF Chosen, IsRunner, Core, Durable
  <2>4. /\ \A o : o # op => Promised(o)' = Promised(o)
        /\ \A x \in Script' : x.type # "file"
    <3> HIDE DEF op
    <3> QED
      BY <1>0, <2>1, FoundPromises
  <2>5. \A s : ReadFor(s)' = ReadFor(s)
    BY <2>4, ReadsDiffer DEF ReadFor
  <2>6. Promised(Planner)' = Promised(Planner)
    <3>1. Planner # op
      BY DEF Planner, Search
    <3> QED
      BY <2>4, <3>1
  <2>7. IsRunner => Gathered'
    <3> SUFFICES ASSUME IsRunner PROVE Gathered'
      OBVIOUS
    <3>1. Gathered
      BY <1>0 DEF AllRead, Executing
    <3>2. proc'.next = "read" /\ proc'.reads = <<Candidate(hit, TRUE)>>
      <4> DEFINE c == Candidate(hit, TRUE)
      <4>1. <<c>> # <<>>
        OBVIOUS
      <4>2. Chosen(hit) = <<c>>
        BY <2>3
      <4> HIDE DEF c
      <4>3. proc'.next = "read" /\ proc'.reads = <<c>>
        BY <2>1, <4>1, <4>2
      <4> QED
        BY <4>3 DEF c
    <3> QED
      BY <1>0, <2>1, <2>2, <2>5, <3>1, <3>2 DEF Gathered, Chooses, Anchored
  <2>8. proc'.next \in Executing
    BY <2>1 DEF Executing
  <2> QED
    BY <1>0, <2>1, <2>4, <2>6, <2>7, <2>8, ExecutorKeepsRead
<1> QED
  BY <1>2, <1>3 DEF SearchAnswers, ToolFails, SearchFinds

\* A read adds its passage to what was read for its subtask.
LEMMA ReadKeepsRead ==
    ASSUME Core, Books, Core', Books', AllRead, ReadAnswers
    PROVE  AllRead'
<1>0. /\ UNCHANGED <<config, stream, disk>> /\ proc.todo = <<>> /\ ProcTypes
      /\ proc.next = "reading" /\ proc.next \in Composed
  BY DEF ReadAnswers, At, Core, Composed, Executing
<1>1. ~Bound
  BY <1>0 DEF Books, Bounded
<1>2. ASSUME NEW todo, NEW code, Stage(todo, code) PROVE AllRead'
  <2>1. proc'.next = "raise"
    BY <1>0, <1>2, RaiseNext DEF Stage
  <2> QED
    BY <1>0, <1>1, <2>1, EndKeepsRead
<1>3. ASSUME proc' = [proc EXCEPT !.todo = ToolSucceeded(Reading), !.reads = Tail(@),
                                  !.last = Head(proc.reads),
                                  !.next = IF Len(proc.reads) = 1 THEN "anchor" ELSE "read"]
      PROVE  AllRead'
  <2>1. /\ proc'.todo = ToolSucceeded(Reading) /\ proc'.plan = proc.plan /\ proc'.graph = proc.graph
        /\ proc'.subtask = proc.subtask /\ proc'.last = Head(proc.reads)
        /\ proc'.next = IF Len(proc.reads) = 1 THEN "anchor" ELSE "read"
    BY <1>0, <1>3 DEF ProcTypes
  <2>2. PICK s, p : s = proc.subtask /\ p = Head(proc.reads).passage
    OBVIOUS
  <2> DEFINE op == Read(s, p)
  <2>3. Reading = op /\ op # Planner
    BY <2>2, ReadsDiffer DEF Reading
  <2>4. proc'.todo = ToolSucceeded(op)
    BY <2>1, <2>3
  <2>5. /\ \A o : o # op => Promised(o)' = Promised(o)
        /\ Promised(op)' # {}
        /\ \A x \in Script' : x.type # "file"
    <3> HIDE DEF op
    <3> QED
      BY <1>0, <2>4, FoundPromises
  <2>6. IsRunner => Gathered'
    <3> SUFFICES ASSUME IsRunner PROVE Gathered'
      OBVIOUS
    <3>1. Gathered
      BY <1>0 DEF AllRead, Executing
    <3>2. PICK q \in Passages : proc.reads = <<Candidate(q, TRUE)>>
      BY <1>0, <3>1 DEF Gathered, Chooses
    <3>3. Head(proc.reads) = Candidate(q, TRUE) /\ Len(proc.reads) = 1
      <4> DEFINE c == Candidate(q, TRUE)
      <4> HIDE DEF c
      <4>1. proc.reads = <<c>>
        BY <3>2 DEF c
      <4>2. Head(proc.reads) = c /\ Len(proc.reads) = 1
        BY <4>1
      <4> QED
        BY <4>2 DEF c
    <3>4. p = q
      BY <2>2, <3>3 DEF Candidate
    <3>5. proc'.next = "anchor" /\ proc'.last = Candidate(q, TRUE)
      BY <2>1, <3>3
    <3>6. \A t : t # s => ReadFor(t)' = ReadFor(t)
      <4>1. \A t, r : t # s => Read(t, r) # op
        BY ReadsDiffer
      <4>2. \A t, r : t # s => Promised(Read(t, r))' = Promised(Read(t, r))
        BY <2>5, <4>1
      <4> QED
        BY <4>2 DEF ReadFor
    <3>7. s \in 1..MaxSubtasks => ReadFor(s)' = {q}
      <4> SUFFICES ASSUME s \in 1..MaxSubtasks PROVE ReadFor(s)' = {q}
        OBVIOUS
      <4>1. ReadFor(s) = {}
        BY <1>0, <2>2, <3>1 DEF Gathered
      <4>2. \A r : r # p => Promised(Read(s, r))' = Promised(Read(s, r))
        <5>1. \A r : r # p => Read(s, r) # op
          BY ReadsDiffer
        <5> QED
          BY <2>5, <5>1
      <4>3. \A r \in Passages : r # p => Promised(Read(s, r))' = {}
        BY <4>1, <4>2 DEF ReadFor
      <4>4. Promised(Read(s, p))' # {}
        BY <2>5
      <4> QED
        BY <3>2, <3>4, <4>3, <4>4 DEF ReadFor
    <3>8. proc.subtask \in Nat /\ s \in Nat
      BY <1>0, <2>2 DEF ProcTypes
    <3>9. /\ IsList(proc'.graph) /\ Len(proc'.graph) = proc'.subtask - 1
          /\ \A t \in 1..s - 1 : proc'.graph[t] = ReadFor(t)
          /\ \A t \in 1..s - 1 : t # s
          /\ \A t \in 1..MaxSubtasks : t > s => t # s /\ ReadFor(t) = {}
      BY <2>1, <2>2, <3>1, <3>8 DEF Gathered
    <3>10. /\ \A t \in 1..s - 1 : proc'.graph[t] = ReadFor(t)'
           /\ \A t \in 1..MaxSubtasks : t > s => ReadFor(t)' = {}
      BY <3>6, <3>9
    <3> HIDE DEF op
    <3> QED
      BY <2>1, <2>2, <3>5, <3>7, <3>9, <3>10 DEF Gathered, Chooses, Anchored
  <2>7. IsRunner => Promised(Planner)' = Promised(Planner)
    BY <2>3, <2>5
  <2>8. proc'.next \in Executing
    BY <2>1 DEF Executing
  <2> QED
    BY <1>0, <2>1, <2>5, <2>6, <2>7, <2>8, ExecutorKeepsRead
<1> QED
  BY <1>2, <1>3 DEF ReadAnswers, ToolFails

\* The planner's answer: its plan is filed and promised, and nothing is read yet.
LEMMA PlannerKeepsRead ==
    ASSUME Core, Books, Core', Books', AllRead, PlannerAnswers
    PROVE  AllRead'
<1>0. /\ UNCHANGED <<config, stream, disk>> /\ proc.todo = <<>> /\ ProcTypes
      /\ proc.next = "planning"
  BY DEF PlannerAnswers, At, Core
<1>1. ~Bound
  BY <1>0 DEF Books, Bounded
<1>2. ASSUME NEW todo, NEW code, Raise(todo, code) PROVE AllRead'
  <2>1. proc'.next = "raise"
    BY <1>0, <1>2, RaiseNext
  <2> QED
    BY <1>0, <1>1, <2>1, EndKeepsRead
<1>3. ASSUME NEW plan, NEW usage,
             proc' = [proc EXCEPT
                !.todo = <<File("plan", plan)>>
                         \o (IF config.allowed = {} THEN <<>> ELSE <<File("routing", plan)>>)
                         \o <<OperationSucceeded(Planner, 1, usage, plan), Elapsed, Checkpoint>>,
                !.next = "execute", !.plan = plan]
      PROVE  AllRead'
  <2> DEFINE f == File("plan", plan)
             g == File("routing", plan)
             x == OperationSucceeded(Planner, 1, usage, plan)
             b == IF config.allowed = {} THEN <<>> ELSE <<g>>
  <2>1. /\ proc'.todo = <<f>> \o b \o <<x, Elapsed, Checkpoint>>
        /\ proc'.next = "execute" /\ proc'.plan = plan /\ proc'.graph = proc.graph
    BY <1>0, <1>3 DEF ProcTypes
  <2>2. /\ f.type = "file" /\ f.name = "plan" /\ f.content = plan
        /\ g.type = "file" /\ g.name = "routing"
        /\ x.type = "operation_succeeded" /\ x.op = Planner /\ x.status = plan
        /\ Elapsed.type = "elapsed_recorded" /\ Checkpoint.type = "reduce"
    BY DEF File, OperationSucceeded, Elapsed, ElapsedRecorded, Checkpoint, Reduce
  <2> HIDE DEF f, g, x
  <2>3. Script' = {f, x, Elapsed, Checkpoint} \/ Script' = {f, g, x, Elapsed, Checkpoint}
    <3>1. CASE config.allowed = {}
      <4>1. <<f>> \o b = <<f>>
        BY <3>1
      <4>2. proc'.todo = <<f, x, Elapsed, Checkpoint>>
        BY <2>1, <4>1, Join13
      <4>3. Left' = 4 /\ proc'.todo[1] = f /\ proc'.todo[2] = x /\ proc'.todo[3] = Elapsed
            /\ proc'.todo[4] = Checkpoint /\ 1..4 = {1, 2, 3, 4}
        BY <4>2 DEF Left
      <4> QED
        BY <4>3 DEF Script
    <3>2. CASE config.allowed # {}
      <4>1. <<f>> \o b = <<f, g>>
        BY <3>2, Join11
      <4>2. proc'.todo = <<f, g, x, Elapsed, Checkpoint>>
        <5>1. <<f, g>> \o <<x, Elapsed, Checkpoint>> = <<f, g, x, Elapsed, Checkpoint>>
          BY Join23
        <5> QED
          BY <2>1, <4>1, <5>1
      <4>3. Left' = 5 /\ proc'.todo[1] = f /\ proc'.todo[2] = g /\ proc'.todo[3] = x
            /\ proc'.todo[4] = Elapsed /\ proc'.todo[5] = Checkpoint /\ 1..5 = {1, 2, 3, 4, 5}
        BY <4>2 DEF Left
      <4> QED
        BY <4>3 DEF Script
    <3> QED
      BY <3>1, <3>2
  <2>4. \A op : Promised(op)' = Promised(op) \cup {y \in Script' : Succeeds(y, op)}
    BY <1>0, NewPromises
  <2>5. x \in Script' /\ \A y \in Script' : \A op : Succeeds(y, op) <=> y = x /\ op = Planner
    BY <2>2, <2>3 DEF Succeeds
  <2> SUFFICES ASSUME IsRunner PROVE AllRead'
    BY <1>0 DEF AllRead, IsRunner
  <2>6. Promised(Planner) = {} /\ Unread /\ proc.graph = <<>>
    BY <1>0 DEF AllRead
  <2>7. Promised(Planner)' = {x}
    BY <2>4, <2>5, <2>6
  <2>8. PlanIs(proc.plan)'
    BY <2>1, <2>2, <2>7 DEF PlanIs
  <2>9. Unread'
    <3>1. \A s, p : Read(s, p) # Planner
      BY ReadsDiffer
    <3>a. ASSUME NEW op, op # Planner PROVE Promised(op)' = Promised(op)
      BY <2>4, <2>5, <3>a
    <3>2. \A s, p : Promised(Read(s, p))' = Promised(Read(s, p))
      BY <3>a, <3>1
    <3> QED
      BY <2>6, <3>2 DEF Unread, ReadFor
  <2>10. Filing("plan", proc.plan)'
    <3>1. f \in Script' /\ \A y \in Script' : y.type = "file" /\ y.name = "plan" => y = f
      BY <2>2, <2>3
    <3> QED
      BY <2>1, <2>2, <3>1 DEF Filing, f
  <2>11. ArtifactRefs' = {}
    BY <1>0, <1>1 DEF Bound, ArtifactRefs, Events
  <2> QED
    BY <2>1, <2>6, <2>8, <2>9, <2>10, <2>11 DEF AllRead, Recorded, Executing
<1> QED
  BY <1>2, <1>3 DEF PlannerAnswers, PlannerFails, PlannerReturns, Stage

\* The evidence of the subtask is what was read for it.
LEMMA AnchorKeepsRead ==
    ASSUME Core, Books, Core', Books', AllRead, Anchor
    PROVE  AllRead'
<1>0. /\ UNCHANGED <<config, stream, disk>> /\ proc.todo = <<>> /\ ProcTypes
      /\ proc.next = "anchor" /\ proc.next \in Composed
  BY DEF Anchor, At, Core, Composed, Executing
<1>1. ~Bound
  BY <1>0 DEF Books, Bounded
<1>2. ASSUME NEW todo, NEW code, Raise(todo, code) PROVE AllRead'
  <2>1. proc'.next = "raise"
    BY <1>0, <1>2, RaiseNext
  <2> QED
    BY <1>0, <1>1, <2>1, EndKeepsRead
<1>3. ASSUME proc' = [proc EXCEPT !.next = "subtask", !.subtask = @ + 1,
                                  !.graph = Append(@, Unit(proc.last))]
      PROVE  AllRead'
  <2>1. /\ proc'.next = "subtask" /\ proc'.plan = proc.plan
        /\ proc'.subtask = proc.subtask + 1 /\ proc'.graph = Append(proc.graph, Unit(proc.last))
    BY <1>0, <1>3 DEF ProcTypes
  <2>2. \A op : Promised(op)' = Promised(op)
    BY <1>0, <2>1, NothingNew
  <2>3. \A s : ReadFor(s)' = ReadFor(s)
    BY <2>2 DEF ReadFor
  <2>4. IsRunner => Gathered'
    <3> SUFFICES ASSUME IsRunner PROVE Gathered'
      OBVIOUS
    <3>1. Gathered
      BY <1>0 DEF AllRead, Executing
    <3>2. PICK q \in Passages : /\ proc.last = Candidate(q, TRUE)
                                /\ \A s \in 1..MaxSubtasks : s = proc.subtask => ReadFor(s) = {q}
      BY <1>0, <3>1 DEF Gathered, Anchored
    <3>3. proc'.graph = Append(proc.graph, {q})
      BY <2>1, <3>2 DEF Unit, Candidate
    <3>4. proc.subtask \in 1..MaxSubtasks
      <4>1. Execution
        BY <1>0, Places DEF Core, Executing
      <4>2. proc.subtask \in 1..Len(proc.plan)
        BY <1>0, <4>1 DEF Execution, BetweenSubtasks, UsingTool, ToolUsed, Executed
      <4>3. Len(proc.plan) \in Nat /\ Len(proc.plan) <= MaxSubtasks /\ MaxSubtasks \in Nat
        BY <4>1, PipelineAssumption DEF Execution, IsPlan, IsList
      <4> QED
        BY <4>2, <4>3
    <3> DEFINE n == proc.subtask
               G == proc.graph
    <3>5. /\ n \in 1..MaxSubtasks /\ IsList(G) /\ Len(G) = n - 1
          /\ \A s \in 1..n - 1 : G[s] = ReadFor(s)
          /\ \A s \in 1..MaxSubtasks : s > n => ReadFor(s) = {}
          /\ ReadFor(n) = {q} /\ MaxSubtasks \in Nat
      BY <1>0, <3>1, <3>2, <3>4, PipelineAssumption DEF Gathered
    <3>6. proc'.subtask = n + 1 /\ proc'.graph = Append(G, {q}) /\ proc'.next = "subtask"
      BY <2>1, <3>3
    <3> HIDE DEF n, G
    <3>7. /\ IsList(Append(G, {q})) /\ Len(Append(G, {q})) = n
          /\ \A s \in 1..n - 1 : Append(G, {q})[s] = G[s]
          /\ Append(G, {q})[n] = {q}
      <4>1. PICK S : G \in Seq(S)
        BY <3>5 DEF IsList
      <4>2. G \in Seq(S \cup {{q}})
        BY <4>1
      <4>3. /\ Append(G, {q}) \in Seq(S \cup {{q}}) /\ Len(Append(G, {q})) = Len(G) + 1
            /\ \A s \in 1..Len(G) : Append(G, {q})[s] = G[s]
            /\ Append(G, {q})[Len(G) + 1] = {q}
        BY <4>2
      <4>4. Len(G) + 1 = n /\ Len(G) = n - 1
        BY <3>5
      <4> QED
        BY <4>3, <4>4 DEF IsList
    <3>8. \A s \in 1..n : Append(G, {q})[s] = ReadFor(s)
      <4> SUFFICES ASSUME NEW s \in 1..n PROVE Append(G, {q})[s] = ReadFor(s)
        OBVIOUS
      <4>1. CASE s = n
        BY <3>5, <3>7, <4>1
      <4>2. CASE s # n
        <5>1. s \in 1..n - 1
          BY <3>5, <4>2
        <5> QED
          BY <3>5, <3>7, <5>1
      <4> QED
        BY <4>1, <4>2
    <3>9. \A s \in 1..MaxSubtasks : s > n + 1 \/ s = n + 1 => ReadFor(s) = {}
      BY <3>5
    <3>10. /\ proc'.subtask - 1 = n /\ Len(proc'.graph) = n /\ IsList(proc'.graph)
           /\ \A s \in 1..n : proc'.graph[s] = ReadFor(s)'
           /\ \A s \in 1..MaxSubtasks : s > n + 1 \/ s = n + 1 => ReadFor(s)' = {}
      <4>1. (n + 1) - 1 = n
        BY <3>5
      <4> QED
        BY <2>3, <3>6, <3>7, <3>8, <3>9, <4>1
    <3> QED
      BY <3>6, <3>10 DEF Gathered, Chooses, Anchored
  <2> QED
    BY <1>0, <2>1, <2>4, QuietKeepsRead
<1> QED
  BY <1>2, <1>3 DEF Anchor, Stage

\* The graph that is assessed and filed is what was read for every subtask.
LEMMA AssessKeepsRead ==
    ASSUME Core, Books, Core', Books', AllRead, Assess
    PROVE  AllRead'
<1>0. /\ UNCHANGED <<config, stream, disk>> /\ proc.todo = <<>> /\ ProcTypes
      /\ proc.next = "graph"
  BY DEF Assess, At, Core
<1>1. ~Bound
  BY <1>0 DEF Books, Bounded, Composed, Executing
<1>2. ASSUME NEW todo, NEW code, Stage(todo, code) PROVE AllRead'
  <2>1. proc'.next = "raise"
    BY <1>0, <1>2, RaiseNext DEF Stage
  <2> QED
    BY <1>0, <1>1, <2>1, EndKeepsRead
<1>3. ASSUME NEW answer, Give(answer) PROVE AllRead'
  <2>1. proc'.next = "idle"
    BY <1>3 DEF Give, Idle
  <2> QED
    BY <1>0, <2>1, EndKeepsRead
<1>4. ASSUME Goto(Assessed(Assessment), "writer") PROVE AllRead'
  <2> DEFINE a == GraphFile
             b == File("assessment", Assessment)
             c == References
  <2>1. /\ proc'.next = "writer" /\ proc'.plan = proc.plan /\ proc'.graph = proc.graph
        /\ proc'.todo = <<a, b, c>>
    BY <1>0, <1>4 DEF Goto, ProcTypes, Assessed, GraphFile, References
  <2>2. Assessment' = Assessment
    BY <1>0, <2>1 DEF Assessment
  <2>3. /\ a.type = "file" /\ a.name = "graph" /\ a.content = proc.graph
        /\ b.type = "file" /\ b.name = "assessment" /\ b.content = Assessment
        /\ c.type # "file"
    BY DEF GraphFile, File, References, ArtifactsRecorded
  <2>4. a = File("graph", proc.graph) /\ b = File("assessment", Assessment)
    BY DEF GraphFile
  <2> HIDE DEF a, b, c
  <2>5. Script' = {a, b, c}
    <3>1. Left' = 3 /\ proc'.todo[1] = a /\ proc'.todo[2] = b /\ proc'.todo[3] = c
          /\ 1..3 = {1, 2, 3}
      BY <2>1 DEF Left
    <3> QED
      BY <3>1 DEF Script
  <2>6. \A op : Promised(op)' = Promised(op)
    BY <1>0, <2>1, NothingNew
  <2> SUFFICES ASSUME IsRunner PROVE AllRead'
    BY <1>0 DEF AllRead, IsRunner
  <2>7. PlanIs(proc.plan) /\ Filing("plan", proc.plan) /\ Gathered
    BY <1>0 DEF AllRead, Composed, Executing
  <2>8. PlanIs(proc.plan)' /\ Filing("plan", proc.plan)'
    <3>1. PlanIs(proc.plan)'
      BY <2>1, <2>6, <2>7 DEF PlanIs
    <3>2. \A x \in Script' : x.type = "file" => x.name # "plan"
      BY <2>3, <2>5
    <3> QED
      BY <1>0, <2>1, <2>7, <3>1, <3>2, PlanStaysFiled
  <2>9. Whole(proc.plan, proc.graph)'
    <3>1. \A s : ReadFor(s)' = ReadFor(s)
      BY <2>6 DEF ReadFor
    <3>2. Execution /\ Executed
      BY <1>0, Places DEF Core, Executing, Execution, BetweenSubtasks, UsingTool, ToolUsed
    <3>3. proc.subtask = Len(proc.plan) + 1 /\ IsPlan(proc.plan)
      BY <3>2 DEF Execution, Executed
    <3> DEFINE P == proc.plan
               G == proc.graph
               n == Len(P)
    <3>4. /\ IsList(P) /\ IsList(G) /\ n <= MaxSubtasks /\ Len(G) = (n + 1) - 1
          /\ \A s \in 1..(n + 1) - 1 : G[s] = ReadFor(s)
      BY <2>7, <3>3 DEF Gathered, IsPlan
    <3> HIDE DEF P, G
    <3>5. n \in Nat /\ DOMAIN P = 1..n /\ DOMAIN G = 1..Len(G) /\ MaxSubtasks \in Nat
      BY <3>4, PipelineAssumption DEF IsList
    <3> HIDE DEF n
    <3>6. /\ (n + 1) - 1 = n /\ 1..n \subseteq 1..MaxSubtasks
      BY <3>4, <3>5
    <3>7. /\ DOMAIN G = DOMAIN P /\ DOMAIN P \subseteq 1..MaxSubtasks
          /\ \A s \in DOMAIN P : G[s] = ReadFor(s)
      BY <3>4, <3>5, <3>6
    <3>8. proc'.plan = P /\ proc'.graph = G
      BY <2>1 DEF P, G
    <3> QED
      BY <3>1, <3>7, <3>8 DEF Whole
  <2>10. Filing("graph", proc.graph)' /\ Filing("assessment", Assessment)'
    BY <2>1, <2>2, <2>3, <2>4, <2>5 DEF Filing
  <2>11. ArtifactRefs' = {}
    BY <1>0, <1>1 DEF Bound, ArtifactRefs, Events
  <2> QED
    BY <2>1, <2>8, <2>9, <2>10, <2>11 DEF AllRead, Recorded, Composed, Executing
<1> QED
  BY <1>2, <1>3, <1>4 DEF Assess, Assessment

\* The writer goes on with the graph it was given.
LEMMA EnterWriterKeepsRead ==
    ASSUME Core, Books, Core', Books', AllRead, EnterWriter
    PROVE  AllRead'
<1>0. /\ UNCHANGED <<config, stream, disk>> /\ proc.todo = <<>> /\ ProcTypes
      /\ proc.next = "writer"
  BY DEF EnterWriter, At, Core
<1>1. ASSUME NEW answer, Give(answer) PROVE AllRead'
  <2>1. proc'.next = "idle"
    BY <1>1 DEF Give, Idle
  <2> QED
    BY <1>0, <2>1, EndKeepsRead
<1>2. ASSUME NEW code, Raise(<<>>, code) PROVE AllRead'
  <2>1. proc'.next = "raise" /\ Left' = 0
    BY <1>0, <1>2, RaiseNext DEF Left
  <2> QED
    BY <1>0, <2>1, EndKeepsRead
<1>3. ASSUME NEW t, Goto(t, "writing") PROVE AllRead'
  <2>1. proc'.next = "writing" /\ proc'.plan = proc.plan /\ proc'.graph = proc.graph
    BY <1>0, <1>3 DEF Goto, ProcTypes
  <2>2. \A op : Promised(op)' = Promised(op)
    BY <1>0, <2>1, NothingNew DEF Calling
  <2>3. (Core => \A x \in Script : x.type = "file" =>
                  \/ proc.next \in {"execute", "writer"}
                  \/ proc.next = "raise" /\ Left = 5)'
    BY FilesWhere, PTL
  <2>4. \A x \in Script' : x.type # "file"
    BY <2>1, <2>3
  <2> SUFFICES ASSUME IsRunner PROVE AllRead'
    BY <1>0 DEF AllRead, IsRunner
  <2>5. PlanIs(proc.plan) /\ Filing("plan", proc.plan) /\ Whole(proc.plan, proc.graph) /\ Recorded
    BY <1>0 DEF AllRead
  <2>6. PlanIs(proc.plan)' /\ Whole(proc.plan, proc.graph)'
    <3>1. \A s : ReadFor(s)' = ReadFor(s)
      BY <2>2 DEF ReadFor
    <3> QED
      BY <2>1, <2>2, <2>5, <3>1 DEF PlanIs, Whole
  <2>7. Filing("plan", proc.plan)'
    BY <1>0, <2>1, <2>4, <2>5, PlanStaysFiled
  <2>8. Recorded'
    BY <1>0, <2>4, <2>5, RecordedStays
  <2> QED
    BY <2>1, <2>6, <2>7, <2>8 DEF AllRead, Composed, Executing
<1> QED
  BY <1>1, <1>2, <1>3 DEF EnterWriter, WriterAdmitted, Refuse

\* The writer's answer, or its loss.
LEMMA WriterKeepsRead ==
    ASSUME Core, Books, Core', Books', AllRead, WriterAnswers
    PROVE  AllRead'
<1>0. UNCHANGED <<config, stream, disk>> /\ ProcTypes
  BY DEF WriterAnswers, Core
<1>1. ASSUME NEW x, NEW code, Raise(<<x>> \o FailedTail, code) PROVE AllRead'
  <2>1. <<x>> \o FailedTail = <<x, Elapsed, Failed, Checkpoint>>
    <3> DEFINE a == Elapsed
               b == Failed
               c == Checkpoint
    <3> HIDE DEF a, b, c
    <3>1. <<x>> \o <<a, b, c>> = <<x, a, b, c>>
      BY Join13
    <3> QED
      BY <3>1 DEF FailedTail, a, b, c
  <2>2. proc'.next = "raise" /\ proc'.todo = <<x, Elapsed, Failed, Checkpoint>>
    BY <1>0, <1>1, <2>1, RaiseNext
  <2>3. Left' = 4
    BY <2>2 DEF Left
  <2> QED
    BY <1>0, <2>2, <2>3, EndKeepsRead
<1>2. ASSUME NEW t, NEW status,
             proc' = [proc EXCEPT !.todo = t, !.next = "return", !.result = status]
      PROVE  AllRead'
  <2>1. proc'.next = "return"
    BY <1>0, <1>2 DEF ProcTypes
  <2> QED
    BY <1>0, <2>1, EndKeepsRead
<1> QED
  BY <1>1, <1>2 DEF WriterAnswers, WriterFails, WriterReturns

\* A later call starts anew or from the artifacts, which are what was read.
LEMMA RunKeepsRead ==
    ASSUME Core, Books, Core', Books', AllRead, Run
    PROVE  AllRead'
<1>0. /\ UNCHANGED <<config, stream, disk>> /\ proc.todo = <<>> /\ ProcTypes
  BY DEF Run, Idle, Core
<1>1. ASSUME NEW answer, Give(answer) PROVE AllRead'
  <2>1. proc'.next = "idle"
    BY <1>1 DEF Give, Idle
  <2> QED
    BY <1>0, <2>1, EndKeepsRead
<1>2. ASSUME NEW code, Stage(<<>>, code) PROVE AllRead'
  <2>1. <<>> \o Terminalize = Terminalize
    BY NothingOwed, JoinNone
  <2>2. proc'.next = "raise" /\ proc'.todo = Terminalize
    BY <1>0, <1>2, <2>1, RaiseNext DEF Stage
  <2>3. Len(Terminalize) # 5
    BY TerminalizeIs
  <2> QED
    BY <1>0, <2>2, <2>3, EndKeepsRead DEF Left
<1>3. CASE RunComposed
  <2>1. ASSUME ArtifactRefs # {}, ArtifactsIntact, IsRunner,
               proc' = [Idle EXCEPT !.next = "writer", !.plan = StoredPlan, !.graph = disk["graph"]]
        PROVE  AllRead'
    <3>1. PICK refs \in ArtifactRefs : TRUE
      BY <2>1
    <3>2. disk["plan"] = StoredPlan /\ disk["graph"] = refs.graph
      BY <2>1 DEF ArtifactsIntact
    <3>3. /\ proc'.next = "writer" /\ proc'.todo = <<>>
          /\ proc'.plan = disk["plan"] /\ proc'.graph = refs.graph
      BY <2>1, <3>2 DEF Idle
    <3>4. PlanIs(disk["plan"]) /\ Whole(disk["plan"], refs.graph) /\ Recorded
      BY <2>1, <3>1 DEF AllRead, Recorded
    <3>5. \A op : Promised(op)' = Promised(op)
      BY <1>0, <3>3, NothingNew
    <3>6. Script' = {}
      <4>1. (proc.todo = <<>> => Script = {})'
        BY NothingPromised, PTL
      <4> QED
        BY <3>3, <4>1
    <3>7. PlanIs(proc.plan)' /\ Whole(proc.plan, proc.graph)'
      <4>1. \A s : ReadFor(s)' = ReadFor(s)
        BY <3>5 DEF ReadFor
      <4> QED
        BY <3>3, <3>4, <3>5, <4>1 DEF PlanIs, Whole
    <3>8. Filing("plan", proc.plan)'
      BY <1>0, <3>3, <3>6 DEF Filing
    <3>9. Recorded'
      BY <1>0, <3>4, <3>6, RecordedStays
    <3> QED
      BY <3>3, <3>7, <3>8, <3>9 DEF AllRead, Composed, Executing
  <2>2. ASSUME stream = <<>>, NEW t, Enter(t, "planning") PROVE AllRead'
    <3>1. proc'.next = "planning" /\ proc'.graph = <<>>
      BY <2>2 DEF Enter, Idle
    <3>2. \A op : Promised(op)' = Promised(op)
      BY <1>0, <3>1, NothingNew DEF Calling
    <3>3. Events = {}
      BY <2>2 DEF Events
    <3>4. \A op : Promised(op) = {}
      BY <1>0, <3>3, NothingPromised DEF SucceededIn
    <3>5. Promised(Planner)' = {} /\ Unread'
      BY <3>2, <3>4 DEF Unread, ReadFor
    <3>6. ArtifactRefs' = {}
      BY <1>0, <3>3 DEF ArtifactRefs, Events
    <3> QED
      BY <3>1, <3>5, <3>6 DEF AllRead, Recorded, Composed, Executing
  <2> QED
    BY <1>1, <1>2, <1>3, <2>1, <2>2 DEF RunComposed, ResumeAtWriter, Refuse, IsRunner
<1>4. CASE RunExecutor \/ RunWriter
  BY <1>0, <1>4 DEF RunExecutor, RunWriter, AllRead, IsRunner
<1> QED
  BY <1>3, <1>4 DEF Run

\* Every action keeps what is known of what was read.
LEMMA StepKeepsRead ==
    ASSUME Core, Books, AllRead, Next
    PROVE  AllRead'
<1>0. Core' /\ Books'
  BY StepKeepsCore, StepKeepsBooks
<1>1. CASE AppendEvent
  BY <1>1, AppendKeepsRead
<1>2. CASE WriteArtifact \/ (ReduceStream /\ view.ok)
  BY <1>2, PassingKeepsRead
<1>3. CASE Return \/ Crash \/ (ReduceStream /\ ~view.ok)
  <2>1. UNCHANGED <<config, stream, disk>> /\ proc'.next = "idle"
    BY <1>3 DEF Return, Crash, ReduceStream, Give, Idle
  <2> QED
    BY <1>0, <2>1, EndKeepsRead
<1>4. CASE ApplyReplan
  <2>1. config' = config /\ config.entry = "executor"
    BY <1>4, ReplanKeepsCore DEF ApplyReplan
  <2> QED
    BY <2>1 DEF AllRead, IsRunner
<1> QED
  BY <1>0, <1>1, <1>2, <1>3, <1>4, PlannerKeepsRead, StartKeepsRead, SearchKeepsRead, ReadKeepsRead,
     AnchorKeepsRead, AssessKeepsRead, EnterWriterKeepsRead, WriterKeepsRead, RunKeepsRead
  DEF Next, Step

\* What was read is known at every moment of the composed run: the graph of a
\* process and the recorded artifacts are what the stream says was read.
THEOREM ReadsKnown == Spec => []AllRead
<1>1. Init => AllRead
  <2> SUFFICES ASSUME Init PROVE AllRead
    OBVIOUS
  <2>1. ArtifactRefs = {} /\ proc.next = "idle"
    BY DEF Init, ArtifactRefs, Events, Idle
  <2> QED
    BY <2>1 DEF AllRead, Recorded, Composed, Executing
<1>2. AllRead /\ UNCHANGED vars => AllRead'
  <2> SUFFICES ASSUME AllRead, UNCHANGED vars PROVE AllRead'
    OBVIOUS
  <2>1. UNCHANGED <<config, stream, disk, proc>>
    BY DEF vars
  <2>2. Script' = Script /\ ArtifactRefs' = ArtifactRefs /\ Assessment' = Assessment
    BY <2>1 DEF Script, Left, ArtifactRefs, Events, Assessment
  <2>3. \A op : Promised(op)' = Promised(op)
    BY <2>1, <2>2 DEF Promised, SucceededIn, Events, Succeeds
  <2>4. \A s : ReadFor(s)' = ReadFor(s)
    BY <2>3 DEF ReadFor
  <2>5. Recorded => Recorded'
    BY <2>1, <2>2, <2>3, <2>4 DEF Recorded, PlanIs, Whole
  <2>6. Gathered => Gathered'
    BY <2>1, <2>4 DEF Gathered, Chooses, Anchored
  <2>7. /\ PlanIs(proc.plan) => PlanIs(proc.plan)'
        /\ Whole(proc.plan, proc.graph) => Whole(proc.plan, proc.graph)'
        /\ Unread => Unread'
    BY <2>1, <2>3, <2>4 DEF PlanIs, Whole, Unread
  <2>8. /\ Filing("plan", proc.plan) => Filing("plan", proc.plan)'
        /\ Filing("graph", proc.graph) => Filing("graph", proc.graph)'
        /\ Filing("assessment", Assessment) => Filing("assessment", Assessment)'
    BY <2>1, <2>2 DEF Filing
  <2> QED
    BY <2>1, <2>3, <2>5, <2>6, <2>7, <2>8 DEF AllRead, IsRunner
<1>3. Core /\ Books /\ AllRead /\ [Next]_vars => AllRead'
  BY <1>2, StepKeepsRead
<1> QED
  BY <1>1, <1>3, CoreHolds, BooksHold, PTL DEF Spec

\* The writer of the composed run is given, for every subtask of the plan,
\* what the stream says was read for it, also when the graph was read back
\* from a file by a later call.
THEOREM OnlyWhatWasRead == Spec => []EvidenceIsRead
<1>1. Core /\ AllRead => EvidenceIsRead
  <2> SUFFICES ASSUME Core, AllRead, IsRunner, proc.next = "writing"
               PROVE  /\ DOMAIN proc.graph = DOMAIN proc.plan
                      /\ \A s \in DOMAIN proc.plan :
                            proc.graph[s] = {p \in Passages : SucceededIn(Read(s, p)) # {}}
    BY DEF EvidenceIsRead, IsRunner
  <2>1. Whole(proc.plan, proc.graph)
    BY DEF AllRead
  <2>2. \A x \in Script : \A op : ~Succeeds(x, op)
    BY CoreItems DEF Items, Mute, Script, Succeeds, OutcomeTypes, Calling
  <2>3. \A op : Promised(op) = SucceededIn(op)
    BY <2>2 DEF Promised
  <2> QED
    BY <2>1, <2>3 DEF Whole, ReadFor
<1> QED
  BY <1>1, CoreHolds, ReadsKnown, PTL

---------------------------------------------------------------------------
(* What the callers of a run are told *)

\* What a caller may be told: the report that is durable or promised, or that the
\* outcome of the writer, or of an operation before it, has to be reviewed.
Standing(value) ==
    IF Promised(Writer) # {} THEN \A e \in Promised(Writer) : e.status = value
    ELSE /\ value = "manual_review_required"
         /\ view.ok => NeedsManualReview \/ config.cancelled

\* What a process that returns is about to tell.
Telling ==
    IF Promised(Writer) # {} THEN \A e \in Promised(Writer) : e.status = proc.result
    ELSE /\ proc.result = "manual_review_required"
         /\ OperationUnknown(Writer, 1) \in Script \/ (view.ok => NeedsManualReview)

\* Once a caller was told, no process writes an outcome and all are told the same.
Agreed ==
    /\ proc.next \in {"idle", "writer", "raise"} /\ Owed = {}
    /\ config.entry # "executor" /\ (IsRunner => stream # <<>>)
    /\ \E value : Standing(value) /\ Answered("report") \subseteq {Report(value)}

OneReport ==
    /\ proc.next = "writing" => Promised(Writer) = {}
    /\ \A e, f \in Promised(Writer) : e.status = f.status
    /\ proc.next = "return" => Telling
    /\ Answered("report") # {} => Agreed

\* A process that owes nothing promises nothing.
LEMMA OwedNothing == Owed = {} => \A op \in Ops : Promised(op) = SucceededIn(op)
<1> SUFFICES ASSUME Owed = {}, NEW op \in Ops, NEW x \in Script PROVE ~Succeeds(x, op)
  BY DEF Promised
<1>1. PICK i \in 1..Left : x = proc.todo[i]
  BY DEF Script
<1>2. op \notin Owing(x)
  BY <1>1, OwesItem
<1> QED
  BY <1>2 DEF Owing, Succeeds, OutcomeTypes

\* A script that promises a report is that of a report on its way.
LEMMA WriterWins == Core => \A x \in Script : Succeeds(x, Writer) => proc.next = "return"
<1> SUFFICES ASSUME Core, NEW x \in Script, Succeeds(x, Writer), proc.next # "return"
             PROVE  FALSE
  OBVIOUS
<1>1. PICK i \in 1..Left : x = proc.todo[i]
  BY DEF Script
<1>2. ProcTypes /\ Shape /\ Items /\ Writer \in Ops /\ Planner # Writer /\ Writer \notin ToolOps
  BY CoreItems, OpsKnown DEF Core, ToolOps
<1>3. ~Mute(x) /\ Settling(x) /\ x.op = Writer
  BY DEF Succeeds, Mute, Settling, OutcomeTypes
<1>4. proc.next \notin Calling \cup {"subtask", "graph", "writer"}
  BY <1>1, <1>2, <1>3 DEF Items
<1>5. \A op, u, c : x = OperationSucceeded(op, 1, u, c) => op = Writer
  BY <1>3, OutcomesTyped
<1>6. \A op, u, c : x # OperationFailed(op, 1, u, c) /\ x # OperationUnknown(op, 1)
  BY OutcomesTyped DEF Succeeds
<1>7. /\ x # Checkpoint /\ x # Elapsed /\ x # Failed /\ \A name, content : x # File(name, content)
  BY <1>3, WriteTypes DEF Settling, OutcomeTypes, Mute
<1>8. CASE Planned
  <2>1. PICK usage : \/ Writes(<<PlanFile, PlanDone(usage), Elapsed, Checkpoint>>)
                     \/ Writes(<<PlanFile, File("routing", proc.plan), PlanDone(usage), Elapsed,
                                 Checkpoint>>)
    BY <1>8 DEF Planned
  <2>2. x = PlanDone(usage)
    BY <1>1, <1>2, <1>7, <2>1, EachItem DEF PlanFile
  <2> QED
    BY <1>2, <1>5, <2>2 DEF PlanDone
<1>9. CASE ToolUsed /\ Execution
  <2>1. PICK op : /\ Writes(<<Found(op)>>)
                  /\ \/ op = Search(proc.subtask)
                     \/ proc.last # Nothing /\ op = Read(proc.subtask, proc.last.passage)
    BY <1>9 DEF ToolUsed
  <2>2. op # Writer
    BY <2>1 DEF Search, Read, Writer
  <2> QED
    BY <1>1, <1>2, <1>5, <2>1, <2>2, EachItem DEF Found
<1>10. CASE Raising
  <2>1. CASE ProviderFailed
    <3>1. PICK y : Failure(y, {Planner, Writer}) /\ Writes(<<y, Elapsed, Failed, Checkpoint>>)
      BY <2>1 DEF ProviderFailed
    <3>2. x = y
      BY <1>1, <1>2, <1>7, <3>1, EachItem
    <3> QED
      BY <1>6, <3>1, <3>2 DEF Failure
  <2>2. CASE StageFailed
    <3>1. PICK y : StageWrite(y) /\ Writes(<<y, Checkpoint, Elapsed, Failed, Checkpoint>>)
      BY <2>2 DEF StageFailed
    <3>2. x = y
      BY <1>1, <1>2, <1>7, <3>1, EachItem
    <3> QED
      BY <1>2, <1>5, <1>6, <1>7, <3>1, <3>2 DEF StageWrite, Failure, Found
  <2>3. CASE FailedBefore
    BY <1>1, <1>2, <1>7, <2>3, EachItem DEF FailedBefore
  <2>4. CASE ExecutorFailed \/ Unexpected
    <3>1. proc.todo # <<>>
      <4>1. proc.todo = <<>> => 1..Left = {}
        BY DEF Left
      <4> QED
        BY <1>1, <4>1
    <3>2. PICK y : ExecutorWrite(y) /\ Writes(<<y>>)
      BY <2>4, <3>1 DEF ExecutorFailed, Unexpected
    <3>3. x = y
      BY <1>1, <1>2, <3>2, EachItem
    <3> QED
      BY <1>2, <1>5, <1>6, <3>2, <3>3 DEF ExecutorWrite, Failure, Found
  <2> QED
    BY <1>10, <2>1, <2>2, <2>3, <2>4 DEF Raising
<1>11. CASE Idling
  <2>1. 1..Left = {}
    BY <1>11 DEF Idling, Idle, Left
  <2> QED
    BY <1>1, <2>1
<1> QED
  BY <1>2, <1>4, <1>8, <1>9, <1>10, <1>11
  DEF Shape, Planning, Execution, BetweenSubtasks, UsingTool, Executed, Assessing, Writing, Written,
      WriterLost, Calling

\* The next process, or the next script, promises no report that is not
\* there, unless it is on its way to return one.
LEMMA NoNewReport ==
    ASSUME Core', stream' = stream, proc'.next # "return"
    PROVE  Promised(Writer)' = SucceededIn(Writer) /\ SucceededIn(Writer) \subseteq Promised(Writer)
<1>1. (Core => \A x \in Script : Succeeds(x, Writer) => proc.next = "return")'
  BY WriterWins, PTL
<1>2. \A x \in Script' : ~Succeeds(x, Writer)
  BY <1>1 DEF Succeeds
<1>3. SucceededIn(Writer)' = SucceededIn(Writer)
  BY DEF SucceededIn, Events
<1>4. Promised(Writer)' = SucceededIn(Writer)' \cup {x \in Script' : Succeeds(x, Writer)}
  BY DEF Promised, Succeeds
<1> QED
  BY <1>2, <1>3, <1>4 DEF Promised

\* Where the stream is as it was, a caller is told what was promised before.
LEMMA SameReports ==
    ASSUME Core', OneReport, UNCHANGED <<config, stream, view>>,
           Answered("report")' = Answered("report"),
           proc'.next \notin {"writing", "return"},
           Answered("report") # {} => proc'.next \in {"idle", "writer", "raise"} /\ Owed' = {}
    PROVE  OneReport'
<1>1. Promised(Writer)' = SucceededIn(Writer) /\ SucceededIn(Writer) \subseteq Promised(Writer)
  BY NoNewReport
<1>2. \A e, f \in Promised(Writer)' : e.status = f.status
  BY <1>1 DEF OneReport
<1>3. ASSUME Answered("report") # {} PROVE Agreed'
  <2>1. Agreed
    BY <1>3 DEF OneReport
  <2>2. Promised(Writer) = SucceededIn(Writer)
    BY <2>1, OwedNothing, OpsKnown DEF Agreed
  <2>3. NeedsManualReview' = NeedsManualReview
    BY DEF NeedsManualReview
  <2>4. \A value : Standing(value)' <=> Standing(value)
    BY <1>1, <2>2, <2>3 DEF Standing
  <2> QED
    BY <1>3, <2>1, <2>4 DEF Agreed, IsRunner
<1> QED
  BY <1>2, <1>3 DEF OneReport

\* A report that is given is the one everybody was given.
LEMMA GivenReports ==
    ASSUME Core', OneReport, UNCHANGED <<config, stream, view>>, proc.todo = <<>>,
           NEW value, Standing(value), Give(Report(value)),
           config.entry # "executor", IsRunner => stream # <<>>
    PROVE  OneReport'
<1>0. proc'.next = "idle" /\ proc'.todo = <<>> /\ returned' = returned \cup {Report(value)}
  BY DEF Give, Idle
<1>1. Promised(Writer)' = SucceededIn(Writer)
  BY <1>0, NoNewReport
<1>2. Promised(Writer)' = Promised(Writer)
  BY <1>1, NothingPromised
<1>3. Owed' = {}
  BY <1>0, OwesLists DEF Owed
<1>4. NeedsManualReview' = NeedsManualReview
  BY DEF NeedsManualReview
<1>5. Standing(value)'
  BY <1>2, <1>4 DEF Standing
<1>6. Answered("report")' = Answered("report") \cup {Report(value)}
  BY <1>0 DEF Answered, Report
<1>7. Answered("report")' \subseteq {Report(value)}
  <2>1. ASSUME NEW w, Standing(w) PROVE w = value
    BY <2>1 DEF Standing
  <2>2. Answered("report") # {} => \E w : Standing(w) /\ Answered("report") \subseteq {Report(w)}
    BY DEF OneReport, Agreed
  <2> QED
    BY <1>6, <2>1, <2>2
<1>8. Agreed'
  BY <1>0, <1>3, <1>5, <1>7 DEF Agreed, IsRunner
<1>9. \A e, f \in Promised(Writer)' : e.status = f.status
  BY <1>2 DEF OneReport
<1> QED
  BY <1>0, <1>8, <1>9 DEF OneReport

\* An append keeps what the callers were told, and what they are about to be.
LEMMA AppendKeepsReports == ASSUME Core, Books, OneReport, AppendEvent PROVE OneReport'
<1>0. /\ Doing /\ SameProc /\ Stepped /\ Effects /\ ProcTypes /\ ProcTypes' /\ proc.todo # <<>>
      /\ proc'.todo = Tail(proc.todo) /\ proc'.next = proc.next /\ proc'.result = proc.result
      /\ config' = config /\ stream' # <<>> /\ returned' = returned
  BY AppendIsDoing DEF Doing, Popping, AppendEvent, Core, SameProc
<1>1. /\ Promised(Writer)' = Promised(Writer) /\ Answered("report")' = Answered("report")
      /\ Script = {Work} \cup Script'
  BY <1>0, AppendPromises, ScriptShrinks DEF Answered
<1>2. Due /\ ~Files /\ ~Checks /\ ~Checkpoints
  BY <1>0 DEF Stepped, AppendEvent, Files, Checks, Checkpoints, Checkpoint, Reduce
<1>3. view'.ok => view.ok
  BY <1>0 DEF Effects
<1>4. ASSUME proc.next \in {"idle", "writer", "raise", "return"}, ~Settles
      PROVE  view'.ok /\ NeedsManualReview => NeedsManualReview'
  <2>1. Elapses \/ Fails \/ Validates \/ Concludes
    BY <1>2, <1>4 DEF Due, StartsRun, Reserves, Dispatches, Calling
  <2>2. view'.journal = view.journal
    BY <1>0, <2>1 DEF Effects, Stays
  <2> QED
    BY <2>2 DEF NeedsManualReview
<1>5. ASSUME proc.next = "return" PROVE Telling'
  <2>1. Telling
    BY <1>5 DEF OneReport
  <2>2. CASE Promised(Writer) # {}
    BY <1>0, <1>1, <2>1, <2>2 DEF Telling
  <2>3. CASE Promised(Writer) = {}
    <3> SUFFICES ASSUME OperationUnknown(Writer, 1) \notin Script', view'.ok
                 PROVE  NeedsManualReview'
      BY <1>0, <1>1, <2>1, <2>3 DEF Telling
    <3>1. CASE Work = OperationUnknown(Writer, 1)
      <4>1. Moves(view, view', Writer, OperationStatus, "outcome_unknown")
        BY <3>1, UnknownMoves, OpsKnown DEF Core, Durable, AppendEvent, Write
      <4>2. Status(Writer)' = "outcome_unknown" /\ Writer \in Ops
        BY <4>1, MovesStatuses, OpsKnown
      <4> QED
        BY <4>2 DEF NeedsManualReview, Status
    <3>2. CASE Work # OperationUnknown(Writer, 1)
      <4>1. view.ok => NeedsManualReview
        BY <1>1, <2>1, <2>3, <3>2 DEF Telling
      <4>2. ~Settles
        <5> SUFFICES ASSUME NEW op \in PipelineOps, Outcome(Work, op) PROVE FALSE
          BY DEF Settles
        <5>1. Settling(Work) /\ Work = proc.todo[1] /\ 1 \in 1..Left /\ Items /\ Work.op = op
          BY <1>0, HeadIsFirst, CoreItems, OutcomesTyped DEF Outcome, Settling, OutcomeTypes
        <5>2. op = Writer
          BY <1>5, <5>1 DEF Items
        <5>3. \A u, c : Work # OperationSucceeded(op, 1, u, c)
          BY <1>1, <2>3, <5>2, OutcomesTyped DEF Promised, Succeeds
        <5>4. \A u, c : Work # OperationFailed(op, 1, u, c)
          <6>1. Written \/ WriterLost
            BY <1>5, Places DEF Core
          <6>2. Work \notin {Elapsed, Failed, Checkpoint}
                /\ \A from, to : Work # Lifecycle(from, to)
            BY <5>1, WriteTypes DEF Settling, OutcomeTypes, Mute
          <6>3. CASE Written
            <7>1. PICK usage, from, to : Writes(<<OperationSucceeded(Writer, 1, usage, proc.result),
                                  Elapsed, Lifecycle("researching", "validating"),
                                  Lifecycle(from, to), Checkpoint>>)
              BY <6>3 DEF Written, WriterSettled
            <7>2. Work = OperationSucceeded(Writer, 1, usage, proc.result)
              BY <1>0, <5>1, <6>2, <7>1, EachItem
            <7> QED
              BY <5>2, <5>3, <7>2
          <6>4. CASE WriterLost
            BY <1>0, <3>2, <5>1, <6>2, <6>4, EachItem DEF WriterLost
          <6> QED
            BY <6>1, <6>3, <6>4
        <5> QED
          BY <3>2, <5>2, <5>3, <5>4 DEF Outcome
      <4> QED
        BY <1>3, <1>4, <1>5, <4>1, <4>2
    <3> QED
      BY <3>1, <3>2
  <2> QED
    BY <2>2, <2>3
<1>6. ASSUME Answered("report") # {} PROVE Agreed'
  <2>1. Agreed
    BY <1>6 DEF OneReport
  <2>2. Owed' \subseteq Owed /\ Owing(Work) \subseteq Owed
    BY <1>0, OwedShrinks
  <2>3. ~Settles
    <3> SUFFICES ASSUME NEW op \in PipelineOps, Outcome(Work, op) PROVE FALSE
      BY DEF Settles
    <3>1. op \in Owing(Work)
      BY OutcomesTyped, OpsAssumption DEF Outcome, Owing, OutcomeTypes
    <3> QED
      BY <2>1, <2>2, <3>1 DEF Agreed
  <2>4. view'.ok /\ NeedsManualReview => NeedsManualReview'
    BY <1>4, <2>1, <2>3 DEF Agreed
  <2>5. \A value : Standing(value) => Standing(value)'
    BY <1>0, <1>1, <1>3, <2>4 DEF Standing
  <2> QED
    BY <1>0, <1>1, <2>1, <2>2, <2>5 DEF Agreed, IsRunner
<1> QED
  BY <1>0, <1>1, <1>5, <1>6 DEF OneReport

\* Files and reductions leave it as it is.
LEMMA PassingKeepsReports ==
    ASSUME Core, OneReport, WriteArtifact \/ (ReduceStream /\ view.ok)
    PROVE  OneReport'
<1>0. /\ Promised(Writer)' = Promised(Writer)
      /\ Script = {Work} \cup Script' /\ SameProc /\ UNCHANGED <<config, stream, view>>
      /\ ProcTypes /\ ProcTypes' /\ proc.todo # <<>> /\ proc'.todo = Tail(proc.todo)
      /\ proc'.next = proc.next /\ proc'.result = proc.result
      /\ returned' = returned /\ Work.type \in {"file", "reduce"}
  BY PassingPromises, FileIsDoing, ReduceIsDoing
  DEF Core, WriteArtifact, ReduceStream, Doing, Popping, SameProc
<1>1. Owed' \subseteq Owed
  BY <1>0, OwedShrinks
<1>2. NeedsManualReview' = NeedsManualReview /\ Answered("report")' = Answered("report")
  BY <1>0 DEF NeedsManualReview, Answered
<1>3. OperationUnknown(Writer, 1) \in Script => OperationUnknown(Writer, 1) \in Script'
  BY <1>0, OutcomesTyped
<1>4. Telling => Telling'
  BY <1>0, <1>2, <1>3 DEF Telling
<1>5. \A value : Standing(value) => Standing(value)'
  BY <1>0, <1>2 DEF Standing
<1>6. Agreed => Agreed'
  BY <1>0, <1>1, <1>2, <1>5 DEF Agreed, IsRunner
<1> QED
  BY <1>0, <1>2, <1>4, <1>6 DEF OneReport

\* A process that dies, or whose reduction raises, tells of no report.
LEMMA EndKeepsReports ==
    ASSUME Core', OneReport, UNCHANGED <<config, stream, view>>, proc' = Idle,
           Answered("report")' = Answered("report")
    PROVE  OneReport'
<1>1. proc'.next = "idle" /\ Owed' = {}
  BY OwesLists DEF Idle, Owed
<1> QED
  BY <1>1, SameReports

\* Where a process of the planner or of the executor goes.
LEMMA QuietPlaces ==
    ASSUME ProcTypes,
           \/ PlannerAnswers \/ StartExecution \/ StartSubtask \/ SearchAnswers \/ StartRead
           \/ ReadAnswers \/ Anchor \/ Assess
    PROVE  /\ proc.next \notin {"idle", "writer", "raise", "writing", "return"}
           /\ proc'.next \notin {"writing", "return"}
           /\ UNCHANGED <<config, stream, view>> /\ Answered("report")' = Answered("report")
<1>0. ASSUME NEW todo, NEW code, Raise(todo, code) PROVE proc'.next \notin {"writing", "return"}
  BY <1>0, RaiseNext
<1>1. ASSUME NEW todo, NEW code, Stage(todo, code) PROVE proc'.next \notin {"writing", "return"}
  BY <1>0, <1>1 DEF Stage
<1>2. ASSUME NEW todo, NEW place, place \notin {"writing", "return"}, Goto(todo, place)
      PROVE  proc'.next \notin {"writing", "return"}
  BY <1>2, GotoNext
<1>3. ASSUME NEW op, ToolFails(op) PROVE proc'.next \notin {"writing", "return"}
  BY <1>1, <1>3 DEF ToolFails
<1>4. CASE PlannerAnswers
  <2>1. ASSUME NEW t, NEW p, proc' = [proc EXCEPT !.todo = t, !.next = "execute", !.plan = p]
        PROVE  proc'.next \notin {"writing", "return"}
    BY <2>1 DEF ProcTypes
  <2>2. proc'.next \notin {"writing", "return"}
    <3>1. CASE PlannerFails
      BY <1>0, <3>1 DEF PlannerFails
    <3>2. CASE PlannerReturns
      BY <1>1, <2>1, <3>2 DEF PlannerReturns
    <3> QED
      BY <1>4, <3>1, <3>2 DEF PlannerAnswers
  <2> QED
    BY <1>4, <2>2 DEF PlannerAnswers, At, Answered
<1>5. CASE StartExecution
  <2>1. ASSUME proc' = [proc EXCEPT !.next = "subtask", !.subtask = 1]
        PROVE  proc'.next \notin {"writing", "return"}
    BY <2>1 DEF ProcTypes
  <2> QED
    BY <1>1, <1>5, <2>1 DEF StartExecution, At, Answered
<1>6. CASE StartSubtask
  <2>1. proc'.next \notin {"writing", "return"}
    BY <1>1, <1>2, <1>6 DEF StartSubtask
  <2> QED
    BY <1>6, <2>1 DEF StartSubtask, At, Answered
<1>7. CASE SearchAnswers
  <2>1. ASSUME NEW hits, SearchFinds(hits) PROVE proc'.next \notin {"writing", "return"}
    <3>1. ASSUME NEW hit, proc' = [proc EXCEPT !.todo = ToolSucceeded(Search(proc.subtask)),
                               !.next = IF Chosen(hit) = <<>> THEN "anchor" ELSE "read",
                               !.reads = Chosen(hit)]
          PROVE proc'.next \notin {"writing", "return"}
      BY <3>1 DEF ProcTypes
    <3> QED
      BY <1>1, <2>1, <3>1 DEF SearchFinds
  <2>2. proc'.next \notin {"writing", "return"}
    BY <1>3, <1>7, <2>1 DEF SearchAnswers
  <2> QED
    BY <1>7, <2>2 DEF SearchAnswers, At, Answered
<1>8. CASE StartRead
  <2>1. proc'.next \notin {"writing", "return"}
    BY <1>1, <1>2, <1>8 DEF StartRead
  <2> QED
    BY <1>8, <2>1 DEF StartRead, At, Answered
<1>9. CASE ReadAnswers
  <2>1. ASSUME proc' = [proc EXCEPT !.todo = ToolSucceeded(Reading), !.reads = Tail(@),
                               !.last = Head(proc.reads),
                               !.next = IF Len(proc.reads) = 1 THEN "anchor" ELSE "read"]
        PROVE proc'.next \notin {"writing", "return"}
    BY <2>1 DEF ProcTypes
  <2>2. proc'.next \notin {"writing", "return"}
    BY <1>3, <1>9, <2>1 DEF ReadAnswers
  <2> QED
    BY <1>9, <2>2 DEF ReadAnswers, At, Answered
<1>10. CASE Anchor
  <2>1. ASSUME proc' = [proc EXCEPT !.next = "subtask", !.subtask = @ + 1,
                                    !.graph = Append(@, Unit(proc.last))]
        PROVE proc'.next \notin {"writing", "return"}
    BY <2>1 DEF ProcTypes
  <2>2. proc'.next \notin {"writing", "return"}
    BY <1>0, <1>1, <1>10, <2>1 DEF Anchor
  <2> QED
    BY <1>10, <2>2 DEF Anchor, At, Answered
<1>11. CASE Assess
  <2>1. proc'.next \notin {"writing", "return"} /\ Answered("report")' = Answered("report")
    <3>1. CASE Give([kind |-> "graph", value |-> proc.graph])
      BY <3>1 DEF Give, Idle, Answered
    <3>2. CASE /\ UNCHANGED returned
               /\ \/ \E code : Stage(<<>>, code)
                  \/ \E t : Goto(t, "writer")
      BY <1>1, <1>2, <3>2 DEF Answered
    <3> QED
      BY <1>11, <3>1, <3>2 DEF Assess
  <2> QED
    BY <1>11, <2>1 DEF Assess, At
<1> QED
  BY <1>4, <1>5, <1>6, <1>7, <1>8, <1>9, <1>10, <1>11

\* As long as a run plans, reads and assesses, no caller was told of a report.
LEMMA QuietKeepsReports ==
    ASSUME Core, Core', OneReport,
           \/ PlannerAnswers \/ StartExecution \/ StartSubtask \/ SearchAnswers \/ StartRead
           \/ ReadAnswers \/ Anchor \/ Assess
    PROVE  OneReport'
<1>1. /\ proc.next \notin {"idle", "writer", "raise", "writing", "return"}
      /\ proc'.next \notin {"writing", "return"}
      /\ UNCHANGED <<config, stream, view>> /\ Answered("report")' = Answered("report")
  BY QuietPlaces DEF Core
<1>2. Answered("report") = {}
  BY <1>1 DEF OneReport, Agreed
<1> QED
  BY <1>1, <1>2, SameReports

\* The report that the stream holds is the one that may be told.
LEMMA StoredStands ==
    ASSUME OneReport, proc.todo = <<>>
    PROVE  /\ SucceededIn(Writer) # {} => Standing(StoredReport)
           /\ SucceededIn(Writer) = {} /\ (NeedsManualReview \/ config.cancelled) =>
                 Standing("manual_review_required")
<1>1. Promised(Writer) = SucceededIn(Writer)
  BY NothingPromised
<1>2. SucceededIn(Writer) # {} => \E e \in SucceededIn(Writer) : StoredReport = e.status
  BY DEF StoredReport
<1>3. \A e, f \in SucceededIn(Writer) : e.status = f.status
  BY <1>1 DEF OneReport
<1> QED
  BY <1>1, <1>2, <1>3 DEF Standing

\* What the writer finds in the stream is given again; it is called only when
\* nobody was told of a report.
LEMMA EnterWriterKeepsReports ==
    ASSUME Core, Core', Books, AllRead, OneReport, EnterWriter
    PROVE  OneReport'
<1>0. /\ UNCHANGED <<config, stream, view>> /\ proc.todo = <<>> /\ ProcTypes
      /\ proc.next = "writer" /\ Assessing
  BY Places DEF EnterWriter, At, Core
<1>1. config.entry # "executor" /\ (IsRunner => stream # <<>>)
  <2>1. IsRunner => SucceededIn(Planner) # {}
    BY <1>0, NothingPromised DEF AllRead, PlanIs
  <2>2. stream = <<>> => SucceededIn(Planner) = {}
    BY DEF SucceededIn, Events
  <2> QED
    BY <1>0, <2>1, <2>2 DEF Assessing
<1>2. ASSUME NEW value, Standing(value), Give(Report(value)) PROVE OneReport'
  BY <1>0, <1>1, <1>2, GivenReports
<1>3. CASE ~view.ok
  <2>1. proc' = Idle /\ Answered("report")' = Answered("report")
    BY <1>3 DEF EnterWriter, Refuse, Give, Answered, Error
  <2> QED
    BY <1>0, <2>1, EndKeepsReports
<1>4. CASE view.ok /\ (SucceededIn(Writer) # {} \/ NeedsManualReview \/ config.cancelled)
  BY <1>0, <1>2, <1>4, StoredStands DEF EnterWriter
<1>5. CASE /\ view.ok /\ SucceededIn(Writer) = {} /\ ~NeedsManualReview /\ ~config.cancelled
           /\ WriterAdmitted /\ UNCHANGED returned
  <2>1. Promised(Writer) = {}
    BY <1>0, <1>5, NothingPromised
  <2>2. Answered("report") = {} /\ Answered("report")' = {}
    BY <1>5, <2>1 DEF OneReport, Agreed, Standing, Answered
  <2>3. ASSUME NEW code, Raise(<<>>, code) PROVE OneReport'
    <3>1. proc'.next = "raise"
      BY <1>0, <2>3, RaiseNext
    <3> QED
      BY <1>0, <2>2, <3>1, SameReports
  <2>4. ASSUME NEW t, Goto(t, "writing") PROVE OneReport'
    <3>1. proc'.next = "writing"
      BY <1>0, <2>4, GotoNext
    <3>2. Promised(Writer)' = {}
      BY <1>0, <1>5, <3>1, NoNewReport
    <3> QED
      BY <2>2, <3>1, <3>2 DEF OneReport
  <2> QED
    BY <1>5, <2>3, <2>4 DEF WriterAdmitted
<1> QED
  BY <1>3, <1>4, <1>5 DEF EnterWriter

\* The writer's answer is promised once, and its loss is on the way to the stream.
LEMMA WriterKeepsReports ==
    ASSUME Core, Core', OneReport, WriterAnswers
    PROVE  OneReport'
<1>0. /\ UNCHANGED <<config, stream, view>> /\ proc.todo = <<>> /\ ProcTypes
      /\ proc.next = "writing" /\ Answered("report")' = Answered("report")
  BY DEF WriterAnswers, At, Core, Answered
<1>1. Promised(Writer) = {} /\ Answered("report") = {}
  BY <1>0 DEF OneReport, Agreed
<1>2. ASSUME NEW t, NEW code, Raise(t, code) PROVE OneReport'
  <2>1. proc'.next = "raise"
    BY <1>0, <1>2, RaiseNext
  <2> QED
    BY <1>0, <1>1, <2>1, SameReports
<1>3. Promised(Writer)' = {x \in Script' : Succeeds(x, Writer)}
  BY <1>0, <1>1, NewPromises
<1>4. ASSUME proc' = [proc EXCEPT !.todo = <<OperationUnknown(Writer, 1)>> \o FailedTail,
                                  !.next = "return", !.result = "manual_review_required"]
      PROVE  OneReport'
  <2> DEFINE o == OperationUnknown(Writer, 1)
             a == Elapsed
             b == Failed
             c == Checkpoint
  <2>1. \A x \in {o, a, b, c} : ~Succeeds(x, Writer)
    BY WriteTypes, OutcomesTyped DEF Succeeds, Mute, OutcomeTypes
  <2> HIDE DEF o, a, b, c
  <2>2. <<o>> \o FailedTail = <<o, a, b, c>>
    <3>1. <<o>> \o <<a, b, c>> = <<o, a, b, c>>
      BY Join13
    <3> QED
      BY <3>1 DEF FailedTail, a, b, c
  <2>3. /\ proc'.todo = <<o, a, b, c>> /\ proc'.next = "return"
        /\ proc'.result = "manual_review_required"
    BY <1>0, <1>4, <2>2 DEF ProcTypes, o
  <2>4. Script' = {o, a, b, c}
    <3>1. /\ Left' = 4 /\ 1..4 = {1, 2, 3, 4}
          /\ proc'.todo[1] = o /\ proc'.todo[2] = a /\ proc'.todo[3] = b /\ proc'.todo[4] = c
      BY <2>3 DEF Left
    <3> QED
      BY <3>1 DEF Script
  <2>5. Promised(Writer)' = {}
    BY <1>3, <2>1, <2>4
  <2>6. Telling'
    BY <2>3, <2>4, <2>5 DEF Telling, o
  <2> QED
    BY <1>0, <1>1, <2>3, <2>5, <2>6 DEF OneReport
<1>5. ASSUME NEW usage, NEW status,
             proc' = [proc EXCEPT !.todo = WriterSettled(usage, status),
                                  !.next = "return", !.result = status]
      PROVE  OneReport'
  <2> DEFINE o == OperationSucceeded(Writer, 1, usage, status)
             a == Elapsed
             b == Lifecycle("researching", "validating")
             c == Lifecycle("validating", Conclusion(status))
             d == Checkpoint
  <2>1. \A x \in {a, b, c, d} : ~Succeeds(x, Writer)
    BY WriteTypes DEF Succeeds, Mute, OutcomeTypes
  <2>2. Succeeds(o, Writer) /\ o.status = status
    BY OutcomesTyped DEF Succeeds, OperationSucceeded
  <2>3. WriterSettled(usage, status) = <<o, a, b, c, d>>
    BY DEF WriterSettled
  <2> HIDE DEF o, a, b, c, d
  <2>4. proc'.todo = <<o, a, b, c, d>> /\ proc'.next = "return" /\ proc'.result = status
    BY <1>0, <1>5, <2>3 DEF ProcTypes
  <2>5. Script' = {o, a, b, c, d}
    <3>1. /\ Left' = 5 /\ 1..5 = {1, 2, 3, 4, 5}
          /\ proc'.todo[1] = o /\ proc'.todo[2] = a /\ proc'.todo[3] = b /\ proc'.todo[4] = c
          /\ proc'.todo[5] = d
      BY <2>4 DEF Left
    <3> QED
      BY <3>1 DEF Script
  <2>6. Promised(Writer)' = {o}
    BY <1>3, <2>1, <2>2, <2>5
  <2>7. Telling'
    BY <2>2, <2>4, <2>6 DEF Telling
  <2> QED
    BY <1>0, <1>1, <2>4, <2>6, <2>7 DEF OneReport
<1> QED
  BY <1>2, <1>4, <1>5 DEF WriterAnswers, WriterFails, WriterReturns

\* A process that comes back tells what it was about to tell.
LEMMA ReturnKeepsReports == ASSUME Core, Core', OneReport, Return PROVE OneReport'
<1>0. UNCHANGED <<config, stream, view>> /\ proc.todo = <<>>
  BY DEF Return, At
<1>1. CASE proc.next = "return" /\ Give(Report(proc.result))
  <2>1. Telling /\ Script = {} /\ Promised(Writer) = SucceededIn(Writer)
    BY <1>0, <1>1, NothingPromised DEF OneReport
  <2>2. Standing(proc.result)
    BY <2>1 DEF Telling, Standing
  <2>3. config.entry # "executor"
    BY <1>1, Places DEF Core, Written, WriterLost
  <2>4. stream # <<>>
    <3> SUFFICES ASSUME stream = <<>> PROVE FALSE
      OBVIOUS
    <3>1. view = InitialView /\ SucceededIn(Writer) = {}
      BY DEF Core, Durable, SucceededIn, Events
    <3>2. view.ok /\ ~NeedsManualReview
      BY <3>1 DEF InitialView, NeedsManualReview, Absent
    <3> QED
      BY <2>1, <3>1, <3>2 DEF Telling
  <2> QED
    BY <1>0, <1>1, <2>2, <2>3, <2>4, GivenReports
<1>2. CASE Give(Error(proc.result))
  <2>1. proc' = Idle /\ Answered("report")' = Answered("report")
    BY <1>2 DEF Give, Answered, Error
  <2> QED
    BY <1>0, <2>1, EndKeepsReports
<1> QED
  BY <1>1, <1>2 DEF Return, At

\* A later call gives the report of the stream, refuses, or goes on without
\* anything to settle; one that starts anew finds that nobody was told.
LEMMA RunKeepsReports ==
    ASSUME Core, Core', OneReport, Run
    PROVE  OneReport'
<1>0. UNCHANGED <<config, stream, view>> /\ proc.todo = <<>> /\ ProcTypes
  BY DEF Run, Idle, Core
<1>1. ASSUME NEW code, Refuse(code) PROVE OneReport'
  <2>1. proc' = Idle /\ Answered("report")' = Answered("report")
    BY <1>1 DEF Refuse, Give, Answered, Error
  <2> QED
    BY <1>0, <2>1, EndKeepsReports
<1>2. ASSUME UNCHANGED returned, proc'.next \notin {"writing", "return"}, Answered("report") = {}
      PROVE  OneReport'
  BY <1>0, <1>2, SameReports DEF Answered
<1>3. ASSUME UNCHANGED returned, proc'.next = "writer", proc'.todo = <<>> PROVE OneReport'
  <2>1. Owed' = {}
    BY <1>3, OwesLists DEF Owed
  <2> QED
    BY <1>0, <1>3, <2>1, SameReports DEF Answered
<1>4. ASSUME UNCHANGED returned, NEW code, Stage(<<>>, code) PROVE OneReport'
  <2>1. <<>> \o Terminalize = Terminalize
    BY NothingOwed, JoinNone
  <2>2. proc'.next = "raise" /\ proc'.todo = Terminalize
    BY <1>0, <1>4, <2>1, RaiseNext DEF Stage
  <2>3. Owed' = {}
    BY <2>2, NothingOwed DEF Owed
  <2> QED
    BY <1>0, <1>4, <2>2, <2>3, SameReports DEF Answered
<1>5. CASE RunComposed
  <2>1. CASE SucceededIn(Planner) # {} /\ SucceededIn(Writer) # {} /\ Give(Report(StoredReport))
    <3>1. stream # <<>>
      BY <2>1 DEF SucceededIn, Events
    <3> QED
      BY <1>0, <1>5, <2>1, <3>1, StoredStands, GivenReports DEF RunComposed
  <2>2. CASE ResumeAtWriter
    <3>1. ASSUME UNCHANGED returned,
                 proc' = [Idle EXCEPT !.next = "writer", !.plan = StoredPlan, !.graph = disk["graph"]]
          PROVE  OneReport'
      BY <1>3, <3>1 DEF Idle
    <3> QED
      BY <1>1, <1>4, <2>2, <3>1 DEF ResumeAtWriter
  <2>3. ASSUME stream = <<>>, UNCHANGED returned, NEW t, Enter(t, "planning") PROVE OneReport'
    <3>1. Answered("report") = {}
      BY <1>5, <2>3 DEF OneReport, Agreed, RunComposed, IsRunner
    <3>2. proc'.next = "planning"
      BY <2>3 DEF Enter, Idle
    <3> QED
      BY <1>2, <2>3, <3>1, <3>2
  <2> QED
    BY <1>1, <1>5, <2>1, <2>2, <2>3 DEF RunComposed
<1>6. CASE RunExecutor
  <2>1. Answered("report") = {}
    BY <1>6 DEF RunExecutor, OneReport, Agreed
  <2>2. ASSUME UNCHANGED returned,
               proc' = [Idle EXCEPT !.todo = ExecutionWrites, !.next = "subtask",
                                    !.subtask = 1, !.plan = config.plan]
        PROVE  OneReport'
    BY <1>2, <2>1, <2>2 DEF Idle
  <2> QED
    BY <1>1, <1>6, <2>2 DEF RunExecutor
<1>7. CASE RunWriter
  <2>1. proc'.next = "writer" /\ proc'.todo = <<>> /\ UNCHANGED returned
    BY <1>7 DEF RunWriter, Idle
  <2> QED
    BY <1>3, <2>1
<1> QED
  BY <1>5, <1>6, <1>7 DEF Run

\* A replan is of a run that has told of no report.
LEMMA ReplanKeepsReports == ASSUME Core, OneReport, ApplyReplan PROVE OneReport'
<1>0. Idling /\ config.entry = "executor" /\ UNCHANGED <<config, proc, returned>>
  BY ReplanKeepsCore DEF ApplyReplan
<1>1. proc'.next = "idle" /\ proc'.todo = <<>> /\ proc.todo = <<>>
  BY <1>0 DEF Idling, Idle
<1>2. Answered("report")' = {}
  BY <1>0 DEF OneReport, Agreed, Answered
<1>3. SucceededIn(Writer)' = SucceededIn(Writer)
  <2>1. PICK ordinal : stream' = Append(stream, ReplanDecided(Planner, ordinal, TRUE))
    BY ReplanKeepsCore
  <2> DEFINE e == ReplanDecided(Planner, ordinal, TRUE)
  <2>2. stream' = Append(stream, e) /\ e.type # "operation_succeeded"
    BY <2>1 DEF ReplanDecided
  <2> HIDE DEF e
  <2>3. Events' = Events \cup {e}
    BY <2>2, EventsGrow DEF Core, Durable
  <2> QED
    BY <2>2, <2>3 DEF SucceededIn
<1>4. Promised(Writer)' = SucceededIn(Writer)' /\ Promised(Writer) = SucceededIn(Writer)
  <2>1. (proc.todo = <<>> => Script = {} /\ \A op : Promised(op) = SucceededIn(op))'
    BY NothingPromised, PTL
  <2>2. Script' = {}
    BY <1>1, <2>1
  <2> QED
    BY <1>1, <2>2, NothingPromised DEF Promised, Succeeds
<1> QED
  BY <1>1, <1>2, <1>3, <1>4 DEF OneReport

\* Every action keeps the callers of a run in agreement.
LEMMA StepKeepsReports ==
    ASSUME Core, Books, AllRead, OneReport, Next
    PROVE  OneReport'
<1>0. Core'
  BY StepKeepsCore
<1>1. CASE Crash \/ (ReduceStream /\ ~view.ok)
  <2>1. /\ UNCHANGED <<config, stream, view>> /\ proc' = Idle
        /\ Answered("report")' = Answered("report")
    BY <1>1 DEF Crash, ReduceStream, Give, Answered, Error
  <2> QED
    BY <1>0, <2>1, EndKeepsReports
<1> QED
  BY <1>0, <1>1, AppendKeepsReports, PassingKeepsReports, ReturnKeepsReports, QuietKeepsReports,
     EnterWriterKeepsReports, WriterKeepsReports, RunKeepsReports, ReplanKeepsReports
  DEF Next, Step

\* The callers of a run agree on its report at every moment, and so do a
\* process that is about to tell one and the stream it has still to extend.
THEOREM ReportsAgree == Spec => []OneReport
<1>1. Init => OneReport
  <2> SUFFICES ASSUME Init PROVE OneReport
    OBVIOUS
  <2>1. proc.next = "idle" /\ proc.todo = <<>> /\ Events = {} /\ Answered("report") = {}
    BY DEF Init, Idle, Events, Answered
  <2>2. Promised(Writer) = {}
    BY <2>1, NothingPromised DEF SucceededIn
  <2> QED
    BY <2>1, <2>2 DEF OneReport
<1>2. OneReport /\ UNCHANGED vars => OneReport'
  <2> SUFFICES ASSUME OneReport, UNCHANGED vars PROVE OneReport'
    OBVIOUS
  <2>1. UNCHANGED <<config, stream, view, proc, returned>>
    BY DEF vars
  <2>2. /\ Script' = Script /\ Owed' = Owed /\ Answered("report")' = Answered("report")
        /\ NeedsManualReview' = NeedsManualReview
    BY <2>1 DEF Script, Left, Owed, Owes, Owing, Answered, NeedsManualReview
  <2>3. Promised(Writer)' = Promised(Writer)
    BY <2>1, <2>2 DEF Promised, SucceededIn, Events, Succeeds
  <2>4. Telling => Telling'
    BY <2>1, <2>2, <2>3 DEF Telling
  <2>5. \A value : Standing(value) => Standing(value)'
    BY <2>1, <2>2, <2>3 DEF Standing
  <2>6. Agreed => Agreed'
    BY <2>1, <2>2, <2>5 DEF Agreed, IsRunner
  <2> QED
    BY <2>1, <2>2, <2>3, <2>4, <2>6 DEF OneReport
<1>3. Core /\ Books /\ AllRead /\ OneReport /\ [Next]_vars => OneReport'
  BY <1>2, StepKeepsReports
<1> QED
  BY <1>1, <1>3, CoreHolds, BooksHold, ReadsKnown, PTL DEF Spec

\* The artifacts that the stream refers to are on disk as it says, and no two
\* callers of one run were given different reports, however often it was
\* called and wherever its processes died.
THEOREM ArtifactsLast == Spec => []ArtifactsBackTheStream
<1>1. Core /\ Books /\ AllRead => (ArtifactRefs # {} => ArtifactsIntact)
  <2> SUFFICES ASSUME Core, Books, AllRead, NEW refs \in ArtifactRefs
               PROVE  /\ disk["plan"] = StoredPlan
                      /\ disk["graph"] = refs.graph /\ disk["assessment"] = refs.assessment
    BY DEF ArtifactsIntact
  <2>1. Bound /\ IsRunner
    BY DEF Bound, Books, Bounded
  <2>2. /\ disk["graph"] = refs.graph /\ disk["assessment"] = refs.assessment
        /\ PlanIs(disk["plan"])
    BY <2>1 DEF AllRead, Recorded
  <2>3. Promised(Planner) = SucceededIn(Planner)
    BY <2>1, OnlyTheWriter, OpsKnown
  <2>4. \E e \in SucceededIn(Planner) : StoredPlan = e.status
    BY <2>2, <2>3 DEF PlanIs, StoredPlan
  <2> QED
    BY <2>2, <2>3, <2>4 DEF PlanIs
<1>2. OneReport => Cardinality(Answered("report")) <= 1
  <2> SUFFICES ASSUME OneReport PROVE Cardinality(Answered("report")) <= 1
    OBVIOUS
  <2>1. Answered("report") = {} \/ \E r : Answered("report") = {r}
    BY DEF OneReport, Agreed
  <2> QED
    BY <2>1, FS_EmptySet, FS_Singleton
<1> QED
  BY <1>1, <1>2, CoreHolds, BooksHold, ReadsKnown, ReportsAgree, PTL DEF ArtifactsBackTheStream

=============================================================================
