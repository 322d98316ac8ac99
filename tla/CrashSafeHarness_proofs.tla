----------------------- MODULE CrashSafeHarness_proofs -----------------------
(***************************************************************************)
(* Proofs about CrashSafeHarness, for every script, spec and bound that    *)
(* ConfigurationAssumption admits. First its types and its calls. Then the *)
(* books of a run: what its journal and its ledger say of each other, what *)
(* the memory of the process that works on it says of both, and where the  *)
(* loop stands among its operations. From these follow that a process      *)
(* remembers what a replay of its stream would tell it, that a run is      *)
(* complete only when every operation succeeded, and that the one limit    *)
(* which can make a stream unreadable is the one on retries.               *)
(***************************************************************************)
EXTENDS CrashSafeHarness, FiniteSetTheorems, TLAPS

---------------------------------------------------------------------------
(* The ledger and the journal keep their shape *)

\* Reserving adds a well-formed reservation and changes nothing else.
LEMMA ReserveType ==
    ASSUME NEW l \in LedgerType, NEW r \in ReservationType
    PROVE  Reserve(l, r) \in LedgerType
BY DEF Reserve, LedgerType

\* Charging an attempt, with or without a reservation to drop.
LEMMA ReconcileType ==
    ASSUME NEW l \in LedgerType, NEW c \in ChargeType
    PROVE  Reconcile(l, c) \in LedgerType
<1> DEFINE rest == Release(l, c.op, c.attempt)
<1>1. rest \in LedgerType
  BY DEF Release, LedgerType
<1>2. c.kind \in Kinds /\ c.usage.input \in Nat /\ c.usage.output \in Nat /\ c.attempt \in Nat \ {0}
  BY DEF ChargeType, Usage
<1>3. rest.calls \in [Kinds -> Nat] /\ rest.calls[c.kind] + 1 \in Nat
  BY <1>1, <1>2 DEF LedgerType
<1>4. /\ rest.input + c.usage.input \in Nat
      /\ rest.output + c.usage.output \in Nat
      /\ rest.retries + c.attempt - 1 \in Nat
      /\ rest.charges \cup {c} \in SUBSET ChargeType
  BY <1>1, <1>2 DEF LedgerType
<1> HIDE DEF rest
<1>5. [rest EXCEPT !.calls[c.kind] = @ + 1,
                   !.input = @ + c.usage.input,
                   !.output = @ + c.usage.output,
                   !.retries = @ + c.attempt - 1,
                   !.charges = @ \cup {c}] \in LedgerType
  BY <1>1, <1>2, <1>3, <1>4 DEF LedgerType
<1> QED
  BY <1>1, <1>5 DEF Reconcile, rest

\* record_replan only moves a counter up (BudgetLedger.record_replan).
LEMMA RecordReplanType ==
    ASSUME NEW l \in LedgerType
    PROVE  RecordReplan(l) \in LedgerType
BY DEF RecordReplan, LedgerType

\* record_elapsed keeps the larger of two naturals (BudgetLedger.record_elapsed).
LEMMA RecordElapsedType ==
    ASSUME NEW l \in LedgerType, NEW seconds \in Nat
    PROVE  RecordElapsed(l, seconds) \in LedgerType
BY DEF RecordElapsed, LedgerType

\* A journal with a new record in place of the one of an operation.
LEMMA JournalWithRecord ==
    ASSUME NEW j \in JournalType, NEW op \in Ops, NEW r \in RecordType
    PROVE  [j EXCEPT ![op] = r] \in JournalType
BY DEF JournalType

\* The status and error strings the journal methods write are members of their
\* enumerations, and none of them is the mark of an absent record.
LEMMA StatusConstants ==
    /\ \A s \in {"planned", "reserved", "started", "succeeded", "failed_known",
                 "outcome_unknown", "cancelled_before_dispatch"} :
          s \in OperationStatus /\ s # "absent"
    /\ "unknown_outcome" \in ErrorCode /\ "tool_failure" \in ErrorCode
BY DEF OperationStatus, ErrorCode

\* Taking a record over for an attempt.
LEMMA NewRecordType ==
    ASSUME NEW j \in JournalType, NEW op \in Ops, NEW n \in Attempts
    PROVE  /\ Add(j, op, n) \in JournalType
           /\ NewAttempt(j, op, n, "planned", "none") \in JournalType
           /\ \A error \in ErrorCode \cup {"none"} :
                 NewAttempt(j, op, n, "reserved", error) \in JournalType
<1>1. \A s \in OperationStatus, error \in ErrorCode \cup {"none"} :
         [attempt |-> n, status |-> s, error |-> error] \in RecordType
  BY DEF RecordType
<1> QED
  BY <1>1, JournalWithRecord, StatusConstants DEF Add, NewAttempt

\* Updating the status of an operation that is in the journal.
LEMMA StatusUpdateType ==
    ASSUME NEW j \in JournalType, NEW op \in Ops, NEW n \in Attempts,
           NEW code \in ErrorCode, Present(j, op)
    PROVE  /\ ReserveOp(j, op, n) \in JournalType
           /\ StartOp(j, op, n) \in JournalType
           /\ MarkSucceeded(j, op) \in JournalType
           /\ MarkFailed(j, op, code) \in JournalType
           /\ MarkUnknown(j, op) \in JournalType
           /\ CancelBeforeDispatch(j, op) \in JournalType
<1>1. j[op] \in [attempt : Attempts, status : OperationStatus, error : ErrorCode \cup {"none"}]
  BY DEF JournalType, RecordType, Present, Absent
<1>2. /\ \A s \in OperationStatus : [j[op] EXCEPT !.status = s] \in RecordType
      /\ \A s \in OperationStatus, e \in ErrorCode \cup {"none"} :
            [j[op] EXCEPT !.status = s, !.error = e] \in RecordType
  BY <1>1 DEF RecordType
<1> QED
  BY <1>2, JournalWithRecord, StatusConstants
     DEF ReserveOp, StartOp, MarkSucceeded, MarkFailed, MarkUnknown, CancelBeforeDispatch, SetStatus

---------------------------------------------------------------------------
(* The reducer keeps views well-formed *)

\* The fields of a view that a reduction step replaces.
LEMMA ViewWith ==
    ASSUME NEW v \in ViewType
    PROVE  /\ Rejected(v) \in ViewType
           /\ \A s \in RunStatus : [v EXCEPT !.status = s] \in ViewType
           /\ \A l \in LedgerType : [v EXCEPT !.ledger = l] \in ViewType
           /\ \A j \in JournalType : [v EXCEPT !.journal = j] \in ViewType
           /\ \A l \in LedgerType, j \in JournalType :
                 [v EXCEPT !.ledger = l, !.journal = j] \in ViewType
BY DEF ViewType, Rejected

\* The reduction of operation_reserved leaves a view, accepted or not.
LEMMA ReduceReservedType ==
    ASSUME NEW v \in ViewType, NEW op \in Ops, NEW n \in Attempts, NEW kind \in Kinds,
           NEW usage \in Usage, NEW s
    PROVE  ReduceReserved(v, OperationReserved(op, n, kind, usage), s) \in ViewType
<1> DEFINE r == [op |-> op, attempt |-> n, kind |-> kind, usage |-> usage]
           j == WithAttempt(v.journal, op, n)
<1>1. r \in ReservationType
  BY ConfigurationAssumption DEF ReservationType, Attempts
<1>2. v.ledger \in LedgerType /\ v.journal \in JournalType
  BY DEF ViewType
<1>3. j \in JournalType
  BY <1>2, NewRecordType DEF WithAttempt
<1>4. CanReserveOp(j, op, n) => ReserveOp(j, op, n) \in JournalType
  BY <1>3, StatusUpdateType, StatusConstants DEF CanReserveOp, IsCurrent
<1>5. Reserve(v.ledger, r) \in LedgerType
  BY <1>1, <1>2, ReserveType
<1> HIDE DEF r, j
<1>6. CanReserveOp(j, op, n) =>
        [v EXCEPT !.ledger = Reserve(v.ledger, r), !.journal = ReserveOp(j, op, n)] \in ViewType
  BY <1>4, <1>5, ViewWith
<1> QED
  BY <1>6, ViewWith DEF ReduceReserved, OperationReserved, r, j

\* The charge a settled attempt leads to.
LEMMA ChargeForType ==
    ASSUME NEW l \in LedgerType, NEW op \in Ops, NEW n \in Attempts, NEW usage \in Usage,
           NEW e, e.op = op, e.attempt = n, e.usage = usage, Held(l, op, n),
           NEW outcome \in {"succeeded", "failed_known"}
    PROVE  ChargeFor(l, e, outcome) \in ChargeType
<1>1. ReservedKind(l, op, n) \in Kinds
  BY DEF ReservedKind, Held, LedgerType, ReservationType
<1>2. op \in Nat /\ n \in Nat \ {0}
  BY ConfigurationAssumption DEF Attempts
<1> QED
  BY <1>1, <1>2 DEF ChargeFor, ChargeType

\* The reduction of operation_succeeded leaves a view, accepted or not.
LEMMA ReduceSucceededType ==
    ASSUME NEW v \in ViewType, NEW op \in Ops, NEW n \in Attempts, NEW usage \in Usage,
           NEW answer, NEW s
    PROVE  ReduceSucceeded(v, OperationSucceeded(op, n, usage, answer), s) \in ViewType
<1> DEFINE e == OperationSucceeded(op, n, usage, answer)
           c == ChargeFor(v.ledger, e, "succeeded")
<1>1. e.op = op /\ e.attempt = n /\ e.usage = usage
  BY DEF OperationSucceeded
<1>2. v.ledger \in LedgerType /\ v.journal \in JournalType
  BY DEF ViewType
<1> HIDE DEF e
<1>3. ASSUME CanSettle(v, e, "succeeded", s)
      PROVE  Reconcile(v.ledger, c) \in LedgerType /\ MarkSucceeded(v.journal, op) \in JournalType
  <2>1. c \in ChargeType
    BY <1>1, <1>2, <1>3, ChargeForType DEF CanSettle
  <2>2. Present(v.journal, op)
    BY <1>1, <1>3 DEF CanSettle, CanMark, IsCurrent
  <2> QED
    BY <2>1, <2>2, <1>2, ReconcileType, StatusUpdateType, StatusConstants
<1> HIDE DEF c
<1>4. CanSettle(v, e, "succeeded", s) =>
        [v EXCEPT !.ledger = Reconcile(v.ledger, c), !.journal = MarkSucceeded(v.journal, op)] \in ViewType
  BY <1>3, ViewWith
<1> QED
  BY <1>1, <1>4, ViewWith DEF ReduceSucceeded, c, e

\* The reduction of operation_failed leaves a view, accepted or not.
LEMMA ReduceFailedType ==
    ASSUME NEW v \in ViewType, NEW op \in Ops, NEW n \in Attempts, NEW usage \in Usage,
           NEW code \in ErrorCode, NEW s
    PROVE  ReduceFailed(v, OperationFailed(op, n, usage, code), s) \in ViewType
<1> DEFINE e == OperationFailed(op, n, usage, code)
           c == ChargeFor(v.ledger, e, "failed_known")
<1>1. e.op = op /\ e.attempt = n /\ e.usage = usage /\ e.code = code
  BY DEF OperationFailed
<1>2. v.ledger \in LedgerType /\ v.journal \in JournalType
  BY DEF ViewType
<1> HIDE DEF e
<1>3. ASSUME CanSettle(v, e, "failed_known", s)
      PROVE  Reconcile(v.ledger, c) \in LedgerType /\ MarkFailed(v.journal, op, code) \in JournalType
  <2>1. c \in ChargeType
    BY <1>1, <1>2, <1>3, ChargeForType DEF CanSettle
  <2>2. Present(v.journal, op)
    BY <1>1, <1>3 DEF CanSettle, CanMark, IsCurrent
  <2> QED
    BY <2>1, <2>2, <1>2, ReconcileType, StatusUpdateType
<1> HIDE DEF c
<1>4. CanSettle(v, e, "failed_known", s) =>
        [v EXCEPT !.ledger = Reconcile(v.ledger, c), !.journal = MarkFailed(v.journal, op, code)] \in ViewType
  BY <1>3, ViewWith
<1> QED
  BY <1>1, <1>4, ViewWith DEF ReduceFailed, c, e

\* Dispatches, unknown outcomes and cancellations only touch the journal.
LEMMA ReduceStatusType ==
    ASSUME NEW v \in ViewType, NEW op \in Ops, NEW n \in Attempts
    PROVE  /\ ReduceDispatched(v, OperationDispatched(op, n)) \in ViewType
           /\ ReduceUnknown(v, OperationUnknown(op, n)) \in ViewType
           /\ ReduceCancelled(v, OperationCancelled(op, n)) \in ViewType
<1>1. v.journal \in JournalType
  BY DEF ViewType
<1>2. CanStart(v.journal, op, n) => StartOp(v.journal, op, n) \in JournalType
  BY <1>1, StatusUpdateType, StatusConstants DEF CanStart, IsCurrent
<1>3. CanMark(v.journal, op, n) => MarkUnknown(v.journal, op) \in JournalType
  BY <1>1, StatusUpdateType, StatusConstants DEF CanMark, IsCurrent
<1> DEFINE j == IF Present(v.journal, op) THEN v.journal ELSE Add(v.journal, op, n)
<1>4. j \in JournalType
  BY <1>1, NewRecordType
<1>5. CanCancel(j, op, n) => CancelBeforeDispatch(j, op) \in JournalType
  BY <1>4, StatusUpdateType, StatusConstants DEF CanCancel, IsCurrent
<1> HIDE DEF j
<1>6. ReduceDispatched(v, OperationDispatched(op, n)) \in ViewType
  BY <1>2, ViewWith DEF ReduceDispatched, OperationDispatched
<1>7. ReduceUnknown(v, OperationUnknown(op, n)) \in ViewType
  BY <1>3, ViewWith DEF ReduceUnknown, OperationUnknown
<1>8. ReduceCancelled(v, OperationCancelled(op, n)) \in ViewType
  BY <1>5, ViewWith DEF ReduceCancelled, OperationCancelled, j
<1> QED
  BY <1>6, <1>7, <1>8

\* Every event of the stream was built by its constructor.
LEMMA EventCases ==
    ASSUME NEW e \in EventType
    PROVE  \/ e = RunStarted
           \/ \E from, to \in RunStatus : e = Lifecycle(from, to)
           \/ \E op \in Ops, n \in Attempts :
                 \/ \E kind \in Kinds, usage \in Usage : e = OperationReserved(op, n, kind, usage)
                 \/ e = OperationDispatched(op, n)
                 \/ e = OperationUnknown(op, n)
                 \/ e = OperationCancelled(op, n)
                 \/ \E usage \in Usage, answer \in {"success", "abstain"} :
                       e = OperationSucceeded(op, n, usage, answer)
                 \/ \E usage \in Usage, code \in ErrorCode : e = OperationFailed(op, n, usage, code)
                 \/ \E delay \in Nat : e = RetryScheduled(op, n, delay)
                 \/ \E admitted \in BOOLEAN : e = ReplanDecided(op, n, admitted)
           \/ \E seconds, delay \in Nat : e = ElapsedRecorded(seconds, delay)
<1>1. CASE e = RunStarted
  BY <1>1
<1>2. CASE e \in [type : {"lifecycle_transition"}, from : RunStatus, to : RunStatus]
  <2>1. e = Lifecycle(e.from, e.to) /\ e.from \in RunStatus /\ e.to \in RunStatus
    BY <1>2 DEF Lifecycle
  <2> QED BY <2>1
<1>3. CASE e \in [type : {"operation_reserved"}, op : Ops, attempt : Attempts, kind : Kinds,
                  usage : Usage]
  <2>1. e = OperationReserved(e.op, e.attempt, e.kind, e.usage)
    BY <1>3 DEF OperationReserved
  <2> QED BY <2>1, <1>3
<1>4. CASE e \in [type : {"operation_dispatched", "operation_unknown", "operation_cancelled"},
                  op : Ops, attempt : Attempts]
  <2>1. \/ e = OperationDispatched(e.op, e.attempt)
        \/ e = OperationUnknown(e.op, e.attempt)
        \/ e = OperationCancelled(e.op, e.attempt)
    BY <1>4 DEF OperationDispatched, OperationUnknown, OperationCancelled
  <2> QED BY <2>1, <1>4
<1>5. CASE e \in [type : {"operation_succeeded"}, op : Ops, attempt : Attempts, usage : Usage,
                  status : {"success", "abstain"}]
  <2>1. e = OperationSucceeded(e.op, e.attempt, e.usage, e.status)
    BY <1>5 DEF OperationSucceeded
  <2> QED BY <2>1, <1>5
<1>6. CASE e \in [type : {"operation_failed"}, op : Ops, attempt : Attempts, usage : Usage,
                  code : ErrorCode]
  <2>1. e = OperationFailed(e.op, e.attempt, e.usage, e.code)
    BY <1>6 DEF OperationFailed
  <2> QED BY <2>1, <1>6
<1>7. CASE e \in [type : {"retry_scheduled"}, op : Ops, attempt : Attempts, backoff : Nat]
  <2>1. e = RetryScheduled(e.op, e.attempt, e.backoff)
    BY <1>7 DEF RetryScheduled
  <2> QED BY <2>1, <1>7
<1>8. CASE e \in [type : {"replan_decided"}, op : Ops, attempt : Attempts, admitted : BOOLEAN]
  <2>1. e = ReplanDecided(e.op, e.attempt, e.admitted)
    BY <1>8 DEF ReplanDecided
  <2> QED BY <2>1, <1>8
<1>9. CASE e \in [type : {"elapsed_recorded"}, elapsed : Nat, backoff : Nat]
  <2>1. e = ElapsedRecorded(e.elapsed, e.backoff)
    BY <1>9 DEF ElapsedRecorded
  <2> QED BY <2>1, <1>9
<1> QED
  BY <1>1, <1>2, <1>3, <1>4, <1>5, <1>6, <1>7, <1>8, <1>9 DEF EventType

\* A reduction step takes a view to a view, whatever the event.
LEMMA ReduceEventType ==
    ASSUME NEW v \in ViewType, NEW e \in EventType, NEW s
    PROVE  ReduceEvent(v, e, s) \in ViewType
<1>0. CASE ~v.ok
  BY <1>0 DEF ReduceEvent
<1> SUFFICES ASSUME v.ok PROVE ReduceEvent(v, e, s) \in ViewType
  BY <1>0
<1>l. v.ledger \in LedgerType
  BY DEF ViewType
<1>1. CASE e = RunStarted
  BY <1>1 DEF ReduceEvent, RunStarted
<1>2. CASE \E from, to \in RunStatus : e = Lifecycle(from, to)
  <2>1. PICK from, to \in RunStatus : e = Lifecycle(from, to)
    BY <1>2
  <2>2. ReduceEvent(v, e, s) = ReduceLifecycle(v, e)
    BY <2>1 DEF ReduceEvent, Lifecycle
  <2>3. e.from = from /\ e.to = to
    BY <2>1 DEF Lifecycle
  <2>4. Rejected(v) \in ViewType /\ [v EXCEPT !.status = to] \in ViewType
    BY ViewWith
  <2> QED
    BY <2>2, <2>3, <2>4 DEF ReduceLifecycle
<1>3. ASSUME NEW op \in Ops, NEW n \in Attempts, NEW kind \in Kinds, NEW usage \in Usage,
             e = OperationReserved(op, n, kind, usage)
      PROVE  ReduceEvent(v, e, s) \in ViewType
  <2>1. ReduceEvent(v, e, s) = ReduceReserved(v, e, s)
    BY <1>3 DEF ReduceEvent, OperationReserved
  <2> QED
    BY <2>1, <1>3, ReduceReservedType
<1>4. ASSUME NEW op \in Ops, NEW n \in Attempts,
             e \in {OperationDispatched(op, n), OperationUnknown(op, n), OperationCancelled(op, n)}
      PROVE  ReduceEvent(v, e, s) \in ViewType
  <2>1. \/ e = OperationDispatched(op, n) /\ ReduceEvent(v, e, s) = ReduceDispatched(v, e)
        \/ e = OperationUnknown(op, n) /\ ReduceEvent(v, e, s) = ReduceUnknown(v, e)
        \/ e = OperationCancelled(op, n) /\ ReduceEvent(v, e, s) = ReduceCancelled(v, e)
    BY <1>4 DEF ReduceEvent, OperationDispatched, OperationUnknown, OperationCancelled
  <2> QED
    BY <2>1, ReduceStatusType
<1>5. ASSUME NEW op \in Ops, NEW n \in Attempts, NEW usage \in Usage, NEW answer,
             e = OperationSucceeded(op, n, usage, answer)
      PROVE  ReduceEvent(v, e, s) \in ViewType
  <2>1. ReduceEvent(v, e, s) = ReduceSucceeded(v, e, s)
    BY <1>5 DEF ReduceEvent, OperationSucceeded
  <2> QED
    BY <2>1, <1>5, ReduceSucceededType
<1>6. ASSUME NEW op \in Ops, NEW n \in Attempts, NEW usage \in Usage, NEW code \in ErrorCode,
             e = OperationFailed(op, n, usage, code)
      PROVE  ReduceEvent(v, e, s) \in ViewType
  <2>1. ReduceEvent(v, e, s) = ReduceFailed(v, e, s)
    BY <1>6 DEF ReduceEvent, OperationFailed
  <2> QED
    BY <2>1, <1>6, ReduceFailedType
<1>7. ASSUME NEW op, NEW n, NEW delay, e = RetryScheduled(op, n, delay)
      PROVE  ReduceEvent(v, e, s) \in ViewType
  BY <1>7 DEF ReduceEvent, RetryScheduled
<1>8. ASSUME NEW op, NEW n, NEW admitted \in BOOLEAN, e = ReplanDecided(op, n, admitted)
      PROVE  ReduceEvent(v, e, s) \in ViewType
  <2>1. ReduceEvent(v, e, s) = ReduceReplan(v, e, s)
    BY <1>8 DEF ReduceEvent, ReplanDecided
  <2>2. [v EXCEPT !.ledger = RecordReplan(v.ledger)] \in ViewType
    BY <1>l, RecordReplanType, ViewWith
  <2> QED
    BY <2>1, <2>2, ViewWith DEF ReduceReplan
<1>9. ASSUME NEW seconds \in Nat, NEW delay, e = ElapsedRecorded(seconds, delay)
      PROVE  ReduceEvent(v, e, s) \in ViewType
  <2>1. ReduceEvent(v, e, s) = [v EXCEPT !.ledger = RecordElapsed(v.ledger, seconds)]
    BY <1>9 DEF ReduceEvent, ElapsedRecorded
  <2> QED
    BY <2>1, <1>l, RecordElapsedType, ViewWith
<1> QED
  BY <1>1, <1>2, <1>3, <1>4, <1>5, <1>6, <1>7, <1>8, <1>9, EventCases

---------------------------------------------------------------------------
(* Type correctness *)

\* Where the loop works on an attempt.
InAttempt == {"backoff", "rereserve", "attempt", "dispatched", "answered", "settle", "replan",
              "schedule"}

\* The operation of the loop is one of the script, its attempt has a number,
\* and a retry is only prepared when there is an attempt left.
Control ==
    /\ pc \in InAttempt => at \in DOMAIN Operations /\ attempt \in Attempts
    /\ pc \in {"schedule", "backoff", "rereserve"} => attempt < MaxAttempts

TypeInv == TypeOK /\ Control

\* What the assumption on scripts says of the operation of the loop.
LEMMA ScriptTypes ==
    ASSUME InputsOK, NEW op \in DOMAIN Operations
    PROVE  /\ op \in Ops
           /\ KindOf(op) \in Kinds
           /\ \A n \in Nat \ {0} : Answer(op, n) \in AnswerType /\ Answer(op, n).usage \in Usage
<1>1. /\ Operations \in Seq(OperationType)
      /\ DOMAIN Operations \subseteq Ops
      /\ Operations[op].answers # <<>>
  BY ConfigurationAssumption DEF InputsOK, Operations, ScriptAssumption
<1>2. Operations[op] \in OperationType
  BY <1>1
<1>3. Operations[op].answers \in Seq(AnswerType) /\ Len(Operations[op].answers) \in Nat \ {0}
  BY <1>1, <1>2 DEF OperationType
<1>4. \A n \in Nat \ {0} : Answer(op, n) \in AnswerType
  BY <1>3 DEF Answer
<1> QED
  BY <1>1, <1>2, <1>4 DEF KindOf, OperationType, AnswerType

\* What ConfigurationAssumption says of the inputs a run was created with.
LEMMA ConfigurationTypes ==
    ASSUME InputsOK
    PROVE  /\ Len(Operations) \in Nat /\ DOMAIN Operations = 1..Len(Operations)
           /\ spec \in SpecType
           /\ \A n \in Nat : DelayFor(backoff, n) \in Nat
           /\ Ops \subseteq Nat \ {0} /\ MaxAttempts \in Nat \ {0}
           /\ Attempts \subseteq Nat \ {0} /\ 1 \in Attempts
<1>1. Operations \in Seq(OperationType)
  BY ConfigurationAssumption DEF InputsOK, Operations, ScriptAssumption
<1>2. backoff \in Seq(Nat) /\ spec \in SpecType
  BY ConfigurationAssumption DEF InputsOK
<1> QED
  BY <1>1, <1>2, ConfigurationAssumption DEF DelayFor, Attempts

\* The constructors build events.
LEMMA EventTypes ==
    /\ RunStarted \in EventType
    /\ \A from, to \in RunStatus : Lifecycle(from, to) \in EventType
    /\ \A op \in Ops, n \in Attempts :
          /\ OperationDispatched(op, n) \in EventType
          /\ OperationUnknown(op, n) \in EventType
          /\ OperationCancelled(op, n) \in EventType
          /\ \A kind \in Kinds, usage \in Usage : OperationReserved(op, n, kind, usage) \in EventType
          /\ \A usage \in Usage, answer \in {"success", "abstain"} :
                OperationSucceeded(op, n, usage, answer) \in EventType
          /\ \A usage \in Usage, code \in ErrorCode : OperationFailed(op, n, usage, code) \in EventType
          /\ \A delay \in Nat : RetryScheduled(op, n, delay) \in EventType
          /\ \A admitted \in BOOLEAN : ReplanDecided(op, n, admitted) \in EventType
    /\ \A seconds, delay \in Nat : ElapsedRecorded(seconds, delay) \in EventType
<1>1. RunStarted \in EventType /\ \A from, to \in RunStatus : Lifecycle(from, to) \in EventType
  BY DEF EventType, Lifecycle
<1>2. \A seconds, delay \in Nat : ElapsedRecorded(seconds, delay) \in EventType
  BY DEF EventType, ElapsedRecorded
<1>3. ASSUME NEW op \in Ops, NEW n \in Attempts
      PROVE  /\ OperationDispatched(op, n) \in EventType
             /\ OperationUnknown(op, n) \in EventType
             /\ OperationCancelled(op, n) \in EventType
             /\ \A kind \in Kinds, usage \in Usage :
                   OperationReserved(op, n, kind, usage) \in EventType
  BY DEF EventType, OperationDispatched, OperationUnknown, OperationCancelled, OperationReserved
<1>4. ASSUME NEW op \in Ops, NEW n \in Attempts
      PROVE  /\ \A usage \in Usage, answer \in {"success", "abstain"} :
                   OperationSucceeded(op, n, usage, answer) \in EventType
             /\ \A usage \in Usage, code \in ErrorCode :
                   OperationFailed(op, n, usage, code) \in EventType
             /\ \A delay \in Nat : RetryScheduled(op, n, delay) \in EventType
             /\ \A admitted \in BOOLEAN : ReplanDecided(op, n, admitted) \in EventType
  BY DEF EventType, OperationSucceeded, OperationFailed, RetryScheduled, ReplanDecided
<1> QED
  BY <1>1, <1>2, <1>3, <1>4

\* An append keeps what is on disk well-formed.
LEMMA AppendType ==
    ASSUME DurablesOK, NEW e \in EventType, AppendEvent(e)
    PROVE  DurablesOK'
<1>1. ReduceEvent(view, e, spec) \in ViewType
  BY ReduceEventType DEF DurablesOK
<1>2. Append(stream, e) \in Seq(EventType)
  BY DEF DurablesOK
<1> QED
  BY <1>1, <1>2 DEF DurablesOK, AppendEvent

\* The initial states have the types, and the strengthening the induction needs.
THEOREM InitType == Init => TypeInv
<1> SUFFICES ASSUME Init PROVE TypeInv
  OBVIOUS
<1>1. InputsOK
  BY DEF Init, InputsOK
<1>2. EmptyLedger \in LedgerType
  BY DEF EmptyLedger, LedgerType
<1>3. [op \in Ops |-> Absent] \in JournalType
  BY DEF JournalType, RecordType
<1>4. InitialView \in ViewType
  BY <1>2, <1>3 DEF InitialView, ViewType, RunStatus
<1>5. DurablesOK
  <2>1. NoCheckpoint \in [sequence : Nat \cup {-1}, view : ViewType]
    BY <1>4 DEF NoCheckpoint
  <2>2. stream \in Seq(EventType)
    BY DEF Init
  <2>3. torn \in BOOLEAN
    BY DEF Init
  <2> QED
    BY <1>4, <2>1, <2>2, <2>3 DEF Init, DurablesOK
<1>6. NoReply \in ReplyType
  BY DEF NoReply, ReplyType, Usage
<1>7. NoVerdict \in VerdictType
  BY DEF NoVerdict, VerdictType, TERMINAL
<1>8. mem \in MemType
  BY <1>2, <1>3 DEF Init, MemType, RunStatus
<1>9. ProcessOK
  <2>1. pc \in ControlPoints /\ at \in Nat \ {0} /\ clock \in Nat
    BY DEF Init, ControlPoints
  <2>3. cancelled \in BOOLEAN
    BY DEF Init
  <2>2. reply = NoReply /\ verdict = NoVerdict
    BY DEF Init
  <2> QED
    BY <2>1, <2>2, <2>3, <1>6, <1>7, <1>8 DEF ProcessOK
<1>10. CountersOK
  BY ConfigurationAssumption DEF Init, CountersOK, Attempts
<1>11. Control
  BY DEF Init, Control, InAttempt
<1> QED
  BY <1>1, <1>5, <1>9, <1>10, <1>11 DEF TypeInv, TypeOK

\* What an action that leaves a part of the state alone keeps of the types.
LEMMA PartsUnchanged ==
    /\ InputsOK /\ UNCHANGED inputs => InputsOK'
    /\ DurablesOK /\ UNCHANGED durables => DurablesOK'
    /\ CountersOK /\ UNCHANGED counters => CountersOK'
    /\ UNCHANGED inputs => Operations' = Operations
<1>1. InputsOK /\ UNCHANGED inputs => InputsOK'
  BY DEF InputsOK, inputs
<1>2. DurablesOK /\ UNCHANGED durables => DurablesOK'
  BY DEF DurablesOK, durables
<1>3. CountersOK /\ UNCHANGED counters => CountersOK'
  BY DEF CountersOK, counters
<1>4. UNCHANGED inputs => Operations' = Operations
  BY DEF Operations, inputs
<1> QED
  BY <1>1, <1>2, <1>3, <1>4

\* A step of the process, from the types of what it assigns.
LEMMA StepType ==
    ASSUME TypeInv, UNCHANGED inputs, NEW point \in ControlPoints, Goto(point),
           mem' \in MemType, at' \in Nat \ {0}, clock' \in Nat, cancelled' \in BOOLEAN,
           reply' \in ReplyType, verdict' \in VerdictType,
           point \in InAttempt =>
              at' \in DOMAIN Operations /\ mem'.journal[at'].attempt \in Attempts,
           point \in {"schedule", "backoff", "rereserve"} =>
              mem'.journal[at'].attempt < MaxAttempts
    PROVE  InputsOK' /\ ProcessOK' /\ Control'
<1>1. InputsOK' /\ Operations' = Operations
  BY PartsUnchanged DEF TypeInv, TypeOK
<1>2. ProcessOK'
  BY DEF ProcessOK, Goto
<1>3. Control'
  BY <1>1 DEF Control, Goto, attempt, current
<1> QED
  BY <1>1, <1>2, <1>3

\* The same for a step that leaves the memory, the clock and the answer alone.
LEMMA MoveType ==
    ASSUME TypeInv, UNCHANGED <<inputs, mem, clock, cancelled, reply>>,
           NEW point \in ControlPoints, Goto(point),
           at' \in Nat \ {0}, verdict' \in VerdictType,
           point \in InAttempt => UNCHANGED at /\ at \in DOMAIN Operations /\ attempt \in Attempts,
           point \in {"schedule", "backoff", "rereserve"} => attempt < MaxAttempts
    PROVE  InputsOK' /\ ProcessOK' /\ Control'
<1>1. /\ mem' \in MemType /\ clock' \in Nat /\ reply' \in ReplyType
      /\ cancelled' \in BOOLEAN
  <2>1. mem' \in MemType /\ clock' \in Nat /\ reply' \in ReplyType
    BY DEF TypeInv, TypeOK, ProcessOK
  <2>2. cancelled' \in BOOLEAN
    BY DEF TypeInv, TypeOK, ProcessOK
  <2> QED
    BY <2>1, <2>2
<1>2. UNCHANGED at => mem'.journal[at'].attempt = attempt
  BY DEF attempt, current
<1>3. /\ point \in InAttempt => at' \in DOMAIN Operations /\ mem'.journal[at'].attempt \in Attempts
      /\ point \in {"schedule", "backoff", "rereserve"} => mem'.journal[at'].attempt < MaxAttempts
  BY <1>2 DEF InAttempt
<1> QED
  BY <1>1, <1>3, StepType

\* The branches of the loop that write nothing.
LEMMA QuietType ==
    ASSUME TypeInv,
           \/ SkipSucceeded \/ GiveUp \/ TakeUpAttempt \/ RetryScheduledBefore
           \/ DispatchTooLate \/ LoopExhausted \/ FinishWithoutLifecycle
    PROVE  TypeInv'
<1>1. UNCHANGED <<inputs, durables, mem, clock, cancelled, reply, counters>>
  BY DEF SkipSucceeded, GiveUp, TakeUpAttempt, RetryScheduledBefore, DispatchTooLate,
         LoopExhausted, FinishWithoutLifecycle
<1>2. DurablesOK' /\ CountersOK'
  BY <1>1, PartsUnchanged DEF TypeInv, TypeOK
<1>t. InputsOK /\ ProcessOK
  BY DEF TypeInv, TypeOK
<1>3. at \in Nat \ {0} /\ verdict \in VerdictType
  BY <1>t DEF ProcessOK
<1>4. AtOperation => /\ at \in DOMAIN Operations /\ at \in Ops /\ current \in RecordType
                     /\ (current.status # "absent" => attempt \in Attempts)
                     /\ current.error \in ErrorCode \cup {"none"}
  <2>1. AtOperation => at \in DOMAIN Operations
    BY <1>3, <1>t, ConfigurationTypes DEF AtOperation
  <2>2. AtOperation => at \in Ops
    BY <2>1, <1>t, ScriptTypes
  <2>3. AtOperation => current \in RecordType
    BY <2>2, <1>t DEF ProcessOK, MemType, JournalType, current
  <2> QED
    BY <2>1, <2>2, <2>3 DEF RecordType, Absent, attempt
<1>5. InputsOK' /\ ProcessOK' /\ Control'
  <2>1. CASE SkipSucceeded
    BY <2>1, <1>1, <1>3, MoveType DEF SkipSucceeded, MovedOn, ControlPoints, InAttempt, Goto
  <2>2. CASE GiveUp
    <3>1. verdict' \in VerdictType
      BY <2>2, <1>4 DEF GiveUp, Conclude, Undecided, VerdictType, TERMINAL, ErrorCode
    <3> QED
      BY <2>2, <3>1, <1>1, <1>3, MoveType DEF GiveUp, ControlPoints, InAttempt
  <2>3. CASE TakeUpAttempt
    BY <2>3, <1>1, <1>3, <1>4, MoveType
       DEF TakeUpAttempt, Proceeds, Undecided, ControlPoints, InAttempt
  <2>4. CASE RetryScheduledBefore
    <3>1. /\ at \in DOMAIN Operations /\ attempt \in Attempts /\ attempt < MaxAttempts
          /\ UNCHANGED <<at, verdict>>
      BY <2>4, <1>4 DEF RetryScheduledBefore, Retries, Proceeds, Undecided, Allows
    <3>2. Goto("rereserve") \/ Goto("backoff")
      BY <2>4 DEF RetryScheduledBefore
    <3> QED
      BY <3>1, <3>2, <1>1, <1>3, MoveType DEF ControlPoints, InAttempt
  <2>5. CASE DispatchTooLate
    <3>1. verdict' \in VerdictType
      BY <2>5 DEF DispatchTooLate, Conclude, VerdictType, TERMINAL, ErrorCode
    <3> QED
      BY <2>5, <3>1, <1>1, <1>3, MoveType DEF DispatchTooLate, ControlPoints, InAttempt
  <2>6. CASE LoopExhausted
    BY <2>6, <1>1, <1>3, MoveType DEF LoopExhausted, ControlPoints, InAttempt
  <2>7. CASE FinishWithoutLifecycle
    BY <2>7, <1>1, <1>3, MoveType DEF FinishWithoutLifecycle, ControlPoints, InAttempt
  <2> QED
    BY <2>1, <2>2, <2>3, <2>4, <2>5, <2>6, <2>7
<1> QED
  BY <1>2, <1>5 DEF TypeInv, TypeOK

\* An exception.
LEMMA RaiseType ==
    ASSUME TypeInv, UNCHANGED inputs, Raise
    PROVE  InputsOK' /\ ProcessOK' /\ Control'
<1>1. UNCHANGED <<inputs, mem, at, clock, cancelled, reply, verdict>> /\ Goto("raised")
  BY DEF Raise
<1>2. at' \in Nat \ {0} /\ verdict' \in VerdictType
  BY <1>1 DEF TypeInv, TypeOK, ProcessOK
<1> QED
  BY <1>1, <1>2, MoveType DEF ControlPoints, InAttempt

\* What is known of the operation of the loop while it is attempted.
LEMMA AttemptFacts ==
    ASSUME TypeInv, pc \in InAttempt \/ (AtOperation /\ current.status # "absent")
    PROVE  /\ at \in DOMAIN Operations /\ at \in Ops /\ at \in Nat \ {0}
           /\ attempt \in Attempts /\ attempt \in Nat \ {0}
           /\ KindOf(at) \in Kinds
           /\ \A n \in Nat \ {0} : Answer(at, n) \in AnswerType /\ Answer(at, n).usage \in Usage
           /\ mem.journal \in JournalType /\ Present(mem.journal, at)
           /\ current \in [attempt : Attempts, status : OperationStatus,
                           error : ErrorCode \cup {"none"}]
<1>t. InputsOK /\ ProcessOK /\ Control
  BY DEF TypeInv, TypeOK
<1>1. at \in DOMAIN Operations
  BY <1>t, ConfigurationTypes DEF Control, AtOperation, ProcessOK
<1>2. at \in Ops
  BY <1>1, <1>t, ScriptTypes
<1>3. mem.journal \in JournalType /\ current \in RecordType
  BY <1>2, <1>t DEF ProcessOK, MemType, JournalType, current
<1>4. attempt \in Attempts
  BY <1>t, <1>3 DEF Control, RecordType, attempt, Absent
<1>5. Attempts \subseteq Nat \ {0}
  BY <1>t, ConfigurationTypes
<1>6. current \in [attempt : Attempts, status : OperationStatus, error : ErrorCode \cup {"none"}]
  BY <1>3, <1>4, <1>5 DEF RecordType, attempt, Absent
<1>7. Present(mem.journal, at)
  BY <1>6 DEF Present, current, OperationStatus
<1> QED
  BY <1>1, <1>2, <1>3, <1>4, <1>5, <1>6, <1>7, <1>t, ScriptTypes DEF ProcessOK

\* Status changes of the run: approval, research and the end.
LEMMA LifecycleType ==
    ASSUME TypeInv, ApproveBrief \/ BeginResearch \/ FinishLifecycle \/ Complete
    PROVE  TypeInv'
<1>t. InputsOK /\ DurablesOK /\ ProcessOK /\ CountersOK
  BY DEF TypeInv, TypeOK
<1>1. PICK to \in RunStatus, point \in {"research", "loop", "validated", "checkpoint"} :
         LifecycleTo(to) /\ Goto(point)
  BY <1>t DEF ApproveBrief, BeginResearch, FinishLifecycle, Complete, RunStatus, ProcessOK,
              VerdictType, TERMINAL
<1>2. UNCHANGED <<inputs, at, clock, cancelled, reply, verdict, counters>>
  BY DEF ApproveBrief, BeginResearch, FinishLifecycle, Complete
<1>3. Lifecycle(mem.status, to) \in EventType
  BY <1>t, EventTypes DEF ProcessOK, MemType
<1>4. DurablesOK' /\ CountersOK'
  BY <1>1, <1>2, <1>3, <1>t, AppendType, PartsUnchanged DEF LifecycleTo
<1>5. mem' \in MemType
  BY <1>1, <1>t DEF LifecycleTo, ProcessOK, MemType
<1>6. at' \in Nat \ {0} /\ clock' \in Nat /\ reply' \in ReplyType /\ verdict' \in VerdictType
  BY <1>2, <1>t DEF ProcessOK
<1>7. cancelled' \in BOOLEAN
  BY <1>2, <1>t DEF ProcessOK
<1>8. point \in ControlPoints /\ point \notin InAttempt
      /\ point \notin {"schedule", "backoff", "rereserve"}
  BY DEF ControlPoints, InAttempt
<1>9. InputsOK' /\ ProcessOK' /\ Control'
  BY <1>1, <1>2, <1>5, <1>6, <1>7, <1>8, StepType
<1> QED
  BY <1>4, <1>9 DEF TypeInv, TypeOK

\* The decision on a replan, at the loop head or after an answer.
LEMMA ReplanType ==
    ASSUME TypeInv, RecoverReplan \/ ReplanAfterAnswer
    PROVE  TypeInv'
<1>t. InputsOK /\ DurablesOK /\ ProcessOK /\ CountersOK
  BY DEF TypeInv, TypeOK
<1>1. DecideReplan /\ UNCHANGED <<inputs, clock, cancelled, reply, counters>>
  BY DEF RecoverReplan, ReplanAfterAnswer
<1>2. at \in Ops /\ at \in Nat \ {0} /\ attempt \in Attempts
  BY AttemptFacts DEF RecoverReplan, ReplanAfterAnswer, InAttempt
<1>3. \A admitted \in BOOLEAN : ReplanDecided(at, attempt, admitted) \in EventType
  BY <1>2, EventTypes
<1>4. PICK admitted \in BOOLEAN : AppendEvent(ReplanDecided(at, attempt, admitted))
  <2>1. Admits(mem.ledger.replans, spec.maxReplans) \in BOOLEAN
    BY DEF Admits
  <2> QED
    BY <1>1, <2>1 DEF DecideReplan
<1>5. DurablesOK' /\ CountersOK'
  BY <1>1, <1>3, <1>4, <1>t, AppendType, PartsUnchanged
<1>6. mem' \in MemType
  <2>1. RecordReplan(mem.ledger) \in LedgerType
    BY <1>t, RecordReplanType DEF ProcessOK, MemType
  <2> QED
    BY <1>1, <2>1, <1>t DEF DecideReplan, ProcessOK, MemType
<1>7. /\ at' \in Nat \ {0} /\ verdict' \in VerdictType
      /\ Goto("finish") \/ Goto("loop")
  BY <1>1, <1>2, <1>t DEF DecideReplan, MovedOn, Conclude, VerdictType, TERMINAL, ErrorCode, ProcessOK
<1>8. clock' \in Nat /\ reply' \in ReplyType
  BY <1>1, <1>t DEF ProcessOK
<1>9. cancelled' \in BOOLEAN
  BY <1>1, <1>t DEF ProcessOK
<1>10. InputsOK' /\ ProcessOK' /\ Control'
  BY <1>1, <1>6, <1>7, <1>8, <1>9, StepType DEF ControlPoints, InAttempt
<1> QED
  BY <1>5, <1>10 DEF TypeInv, TypeOK

\* An append whose memory update is left to show.
LEMMA AppendStepType ==
    ASSUME TypeInv, NEW e \in EventType, AppendEvent(e), UNCHANGED <<inputs, counters, reply, cancelled>>,
           NEW point \in ControlPoints, Goto(point),
           mem' \in MemType, at' \in Nat \ {0}, clock' \in Nat, verdict' \in VerdictType,
           point \in InAttempt =>
              at' \in DOMAIN Operations /\ mem'.journal[at'].attempt \in Attempts,
           point \in {"schedule", "backoff", "rereserve"} =>
              mem'.journal[at'].attempt < MaxAttempts
    PROVE  TypeInv'
<1>t. InputsOK /\ DurablesOK /\ ProcessOK /\ CountersOK
  BY DEF TypeInv, TypeOK
<1>1. DurablesOK' /\ CountersOK'
  BY <1>t, AppendType, PartsUnchanged
<1>2. reply' \in ReplyType
  BY <1>t DEF ProcessOK
<1>3. cancelled' \in BOOLEAN
  BY <1>t DEF ProcessOK
<1>4. InputsOK' /\ ProcessOK' /\ Control'
  BY <1>2, <1>3, StepType
<1> QED
  BY <1>1, <1>4 DEF TypeInv, TypeOK

\* A reservation refused by the budget: nothing is written.
LEMMA RefusedType ==
    ASSUME TypeInv, Raise, UNCHANGED <<inputs, durables, counters>>
    PROVE  TypeInv'
BY RaiseType, PartsUnchanged DEF TypeInv, TypeOK

\* Reserving the first attempt of an operation.
LEMMA PlanOperationType ==
    ASSUME TypeInv, PlanOperation
    PROVE  TypeInv'
<1>t. InputsOK /\ DurablesOK /\ ProcessOK /\ CountersOK
  BY DEF TypeInv, TypeOK
<1>1. at \in Nat \ {0} /\ at \in DOMAIN Operations
  BY <1>t, ConfigurationTypes DEF PlanOperation, Proceeds, Undecided, AtOperation, ProcessOK
<1>2. /\ at \in Ops /\ KindOf(at) \in Kinds /\ Answer(at, 1).usage \in Usage
      /\ 1 \in Attempts
  BY <1>1, <1>t, ScriptTypes, ConfigurationTypes
<1>3. OperationReserved(at, 1, KindOf(at), Answer(at, 1).usage) \in EventType
  BY <1>2, EventTypes
<1> DEFINE r == ReservationOf(at, 1)
           j == ReserveOp(Add(mem.journal, at, 1), at, 1)
<1>4. Reserve(mem.ledger, r) \in LedgerType
  <2>1. r \in ReservationType
    BY <1>1, <1>2 DEF ReservationOf, ReservationType
  <2> QED
    BY <2>1, <1>t, ReserveType DEF ProcessOK, MemType
<1>5. j \in JournalType /\ j[at].attempt = 1
  <2>1. Add(mem.journal, at, 1) \in JournalType
    BY <1>2, <1>t, NewRecordType DEF ProcessOK, MemType
  <2>2. /\ Add(mem.journal, at, 1)[at] = [attempt |-> 1, status |-> "planned", error |-> "none"]
        /\ Present(Add(mem.journal, at, 1), at)
    BY <1>2, <1>t DEF Add, ProcessOK, MemType, JournalType, Present
  <2>3. j \in JournalType
    BY <2>1, <2>2, <1>2, StatusUpdateType, StatusConstants
  <2> QED
    BY <2>1, <2>2, <2>3, <1>2 DEF ReserveOp, JournalType
<1>6. CASE CanReserve(mem.ledger, spec, r)
  <2>1. /\ AppendEvent(OperationReserved(at, 1, KindOf(at), Answer(at, 1).usage))
        /\ mem' = [mem EXCEPT !.ledger = Reserve(mem.ledger, r), !.journal = j]
        /\ Goto("attempt") /\ UNCHANGED <<at, clock, cancelled, reply, verdict, inputs, counters>>
    BY <1>6 DEF PlanOperation
  <2> HIDE DEF r, j
  <2>2. mem' \in MemType /\ mem'.journal = j
    BY <2>1, <1>4, <1>5, <1>t DEF ProcessOK, MemType
  <2>3. mem'.journal[at'].attempt = 1
    BY <2>1, <2>2, <1>5
  <2>4. clock' \in Nat /\ verdict' \in VerdictType
    BY <2>1, <1>t DEF ProcessOK
  <2> QED
    BY <2>1, <2>2, <2>3, <2>4, <1>1, <1>2, <1>3, AppendStepType DEF ControlPoints, InAttempt
<1>7. CASE ~CanReserve(mem.ledger, spec, r)
  BY <1>7, RefusedType DEF PlanOperation
<1> QED
  BY <1>6, <1>7

\* Reserving the next attempt after a backoff.
LEMMA ReserveRetryType ==
    ASSUME TypeInv, ReserveRetry
    PROVE  TypeInv'
<1>t. InputsOK /\ DurablesOK /\ ProcessOK /\ CountersOK /\ Control
  BY DEF TypeInv, TypeOK
<1>1. /\ at \in DOMAIN Operations /\ at \in Ops /\ at \in Nat \ {0}
      /\ attempt \in Nat \ {0} /\ KindOf(at) \in Kinds
  BY AttemptFacts DEF ReserveRetry, InAttempt
<1>2. attempt + 1 \in Attempts /\ attempt + 1 \in Nat \ {0}
  BY <1>1, <1>t, ConfigurationTypes DEF ReserveRetry, Control, Attempts
<1> DEFINE n == attempt + 1
           r == ReservationOf(at, n)
           j == NewAttempt(mem.journal, at, n, "reserved", CarriedError)
<1> HIDE DEF n
<1>3. Answer(at, n).usage \in Usage
  BY <1>1, <1>2, AttemptFacts DEF ReserveRetry, InAttempt, n
<1>4. r \in ReservationType /\ OperationReserved(at, n, r.kind, r.usage) \in EventType
  BY <1>1, <1>2, <1>3, EventTypes DEF ReservationOf, ReservationType, n
<1>5. Reserve(mem.ledger, r) \in LedgerType
  BY <1>4, <1>t, ReserveType DEF ProcessOK, MemType
<1>6. j \in JournalType /\ j[at].attempt = n
  <2>1. CarriedError \in ErrorCode \cup {"none"}
    BY AttemptFacts DEF CarriedError, ReserveRetry, InAttempt
  <2> QED
    BY <2>1, <1>1, <1>2, <1>t, NewRecordType
       DEF ProcessOK, MemType, JournalType, NewAttempt, n
<1>7. CASE CanReserve(mem.ledger, spec, r)
  <2>1. /\ AppendEvent(OperationReserved(at, n, r.kind, r.usage))
        /\ mem' = [mem EXCEPT !.ledger = Reserve(mem.ledger, r), !.journal = j]
        /\ Goto("attempt") /\ UNCHANGED <<at, clock, cancelled, reply, verdict, inputs, counters>>
    BY <1>7 DEF ReserveRetry, n
  <2> HIDE DEF r, j
  <2>2. mem' \in MemType /\ mem'.journal = j
    BY <2>1, <1>5, <1>6, <1>t DEF ProcessOK, MemType
  <2>3. mem'.journal[at'].attempt \in Attempts
    BY <2>1, <2>2, <1>6, <1>2 DEF n
  <2>4. clock' \in Nat /\ verdict' \in VerdictType
    BY <2>1, <1>t DEF ProcessOK
  <2> QED
    BY <2>1, <2>2, <2>3, <2>4, <1>1, <1>4, AppendStepType DEF ControlPoints, InAttempt
<1>8. CASE ~CanReserve(mem.ledger, spec, r)
  BY <1>8, RefusedType DEF ReserveRetry, n
<1> QED
  BY <1>7, <1>8

\* A cancellation found at the loop head.
LEMMA CancelOperationType ==
    ASSUME TypeInv, CancelOperation
    PROVE  TypeInv'
<1>t. InputsOK /\ DurablesOK /\ ProcessOK /\ CountersOK
  BY DEF TypeInv, TypeOK
<1>1. at \in Nat \ {0} /\ at \in DOMAIN Operations
  BY <1>t, ConfigurationTypes DEF CancelOperation, Undecided, AtOperation, ProcessOK
<1>2. at \in Ops /\ 1 \in Attempts
  BY <1>1, <1>t, ScriptTypes, ConfigurationTypes
<1>3. OperationCancelled(at, 1) \in EventType
  BY <1>2, EventTypes
<1> DEFINE j == CancelBeforeDispatch(Add(mem.journal, at, 1), at)
<1>4. j \in JournalType
  <2>1. Add(mem.journal, at, 1) \in JournalType
    BY <1>2, <1>t, NewRecordType DEF ProcessOK, MemType
  <2>2. Present(Add(mem.journal, at, 1), at)
    BY <1>2, <1>t DEF Add, ProcessOK, MemType, JournalType, Present
  <2> QED
    BY <2>1, <2>2, <1>2, StatusUpdateType, StatusConstants
<1>5. /\ AppendEvent(OperationCancelled(at, 1)) /\ mem' = [mem EXCEPT !.journal = j]
      /\ Goto("finish") /\ Conclude("failed", "cancelled")
      /\ UNCHANGED <<inputs, at, clock, cancelled, reply, counters>>
  BY DEF CancelOperation
<1> HIDE DEF j
<1>6. mem' \in MemType /\ verdict' \in VerdictType /\ clock' \in Nat
  BY <1>4, <1>5, <1>t DEF ProcessOK, MemType, Conclude, VerdictType, TERMINAL, ErrorCode
<1> QED
  BY <1>1, <1>3, <1>5, <1>6, AppendStepType DEF ControlPoints, InAttempt

\* Scheduling a retry, in either place, and serving its backoff.
LEMMA RetryType ==
    ASSUME TypeInv, RetryUnscheduled \/ ScheduleRetry \/ Backoff
    PROVE  TypeInv'
<1>t. InputsOK /\ DurablesOK /\ ProcessOK /\ CountersOK /\ Control
  BY DEF TypeInv, TypeOK
<1>1. pc \in InAttempt \/ (AtOperation /\ current.status # "absent")
  BY DEF RetryUnscheduled, ScheduleRetry, Backoff, Retries, Proceeds, Undecided, InAttempt
<1>2. /\ at \in DOMAIN Operations /\ at \in Ops /\ at \in Nat \ {0}
      /\ attempt \in Attempts /\ attempt \in Nat
  BY <1>1, AttemptFacts
<1>3. attempt < MaxAttempts
  BY <1>t DEF RetryUnscheduled, ScheduleRetry, Backoff, Retries, Allows, Control
<1> DEFINE delay == DelayFor(backoff, attempt)
<1>4. delay \in Nat
  BY <1>2, <1>t, ConfigurationTypes
<1>5. UNCHANGED <<inputs, mem, at, cancelled, reply, verdict, counters>>
  BY DEF RetryUnscheduled, ScheduleRetry, Backoff
<1>6. /\ mem' \in MemType /\ verdict' \in VerdictType
      /\ mem'.journal[at'].attempt = attempt
  BY <1>5, <1>t DEF ProcessOK, attempt, current
<1>7. CASE RetryUnscheduled \/ ScheduleRetry
  <2>1. AppendEvent(RetryScheduled(at, attempt, delay)) /\ Goto("backoff") /\ UNCHANGED clock
    BY <1>7 DEF RetryUnscheduled, ScheduleRetry
  <2>2. RetryScheduled(at, attempt, delay) \in EventType /\ clock' \in Nat
    BY <1>2, <1>4, <2>1, <1>t, EventTypes DEF ProcessOK
  <2> HIDE DEF delay
  <2> QED
    BY <2>1, <2>2, <1>2, <1>3, <1>5, <1>6, AppendStepType DEF ControlPoints
<1>8. CASE Backoff
  <2>1. AppendEvent(ElapsedRecorded(clock', delay)) /\ Goto("rereserve") /\ clock' = clock + delay
    BY <1>8 DEF Backoff
  <2>2. clock' \in Nat
    BY <2>1, <1>4, <1>t DEF ProcessOK
  <2>3. ElapsedRecorded(clock', delay) \in EventType
    BY <1>4, <2>2, EventTypes
  <2> HIDE DEF delay
  <2> QED
    BY <2>1, <2>2, <2>3, <1>2, <1>3, <1>5, <1>6, AppendStepType DEF ControlPoints
<1> QED
  BY <1>7, <1>8

\* The durable dispatch of an attempt.
LEMMA DispatchType ==
    ASSUME TypeInv, Dispatch
    PROVE  TypeInv'
<1>t. ProcessOK
  BY DEF TypeInv, TypeOK
<1>1. /\ at \in DOMAIN Operations /\ at \in Ops /\ at \in Nat \ {0} /\ attempt \in Attempts
      /\ mem.journal \in JournalType /\ Present(mem.journal, at)
  BY AttemptFacts DEF Dispatch, InAttempt
<1> DEFINE j == StartOp(mem.journal, at, attempt)
<1>2. j \in JournalType /\ j[at].attempt = attempt
  <2>1. j \in JournalType
    BY <1>1, StatusUpdateType, StatusConstants
  <2> QED
    BY <2>1, <1>1 DEF StartOp, JournalType, RecordType, Absent, attempt, current
<1>3. /\ AppendEvent(OperationDispatched(at, attempt)) /\ mem' = [mem EXCEPT !.journal = j]
      /\ Goto("dispatched")
      /\ UNCHANGED <<inputs, at, clock, cancelled, reply, verdict, counters>>
  BY DEF Dispatch
<1>4. OperationDispatched(at, attempt) \in EventType
  BY <1>1, EventTypes
<1> HIDE DEF j
<1>5. mem' \in MemType /\ mem'.journal = j
  BY <1>2, <1>3, <1>t DEF ProcessOK, MemType
<1>6. mem'.journal[at'].attempt = attempt
  BY <1>2, <1>3, <1>5
<1>7. clock' \in Nat /\ verdict' \in VerdictType
  BY <1>3, <1>t DEF ProcessOK
<1> QED
  BY <1>1, <1>3, <1>4, <1>5, <1>6, <1>7, AppendStepType DEF ControlPoints

\* The call: the only step that counts a call.
LEMMA CallType ==
    ASSUME TypeInv, CallExternal
    PROVE  TypeInv'
<1>t. InputsOK /\ DurablesOK /\ ProcessOK /\ CountersOK
  BY DEF TypeInv, TypeOK
<1>1. /\ at \in DOMAIN Operations /\ at \in Ops /\ at \in Nat \ {0}
      /\ attempt \in Attempts /\ attempt \in Nat \ {0}
      /\ Answer(at, attempt) \in AnswerType
  BY AttemptFacts DEF CallExternal, InAttempt
<1> DEFINE a == Answer(at, attempt)
           late == TimesOut(a.latency)
           r == [status |-> IF late THEN "error" ELSE a.status, empty |-> a.empty /\ ~late,
                 code |-> IF late THEN "operation_timeout" ELSE a.code, usage |-> a.usage]
<1>2. clock' = clock + a.latency /\ reply' = r /\ Goto("answered")
      /\ calls' = [calls EXCEPT ![at] = [calls[at] EXCEPT ![attempt] = calls[at][attempt] + 1]]
      /\ UNCHANGED <<inputs, durables, mem, at, cancelled, verdict, runs, cancels>>
  BY DEF CallExternal
<1>3. r.status \in AnswerStatus /\ r.code \in ErrorCode \cup {"none"} /\ r.usage \in Usage
  BY <1>1 DEF AnswerType, AnswerStatus, ErrorCode
<1>4. (a.empty /\ ~late) \in BOOLEAN
  OBVIOUS
<1>5. \A rs \in AnswerStatus \cup {"none"}, re \in BOOLEAN, rc \in ErrorCode \cup {"none"}, ru \in Usage :
         [status |-> rs, empty |-> re, code |-> rc, usage |-> ru] \in ReplyType
  BY DEF ReplyType
<1>6. r \in ReplyType
  BY <1>3, <1>4, <1>5, Zenon
<1>7. clock' \in Nat
  BY <1>1, <1>2, <1>t DEF ProcessOK, AnswerType
<1>8. CountersOK'
  BY <1>1, <1>2, <1>t DEF CountersOK
<1>9. DurablesOK'
  BY <1>2, <1>t, PartsUnchanged
<1>10. mem' \in MemType /\ verdict' \in VerdictType /\ at' \in Nat \ {0}
       /\ mem'.journal[at'].attempt = attempt
  BY <1>2, <1>t DEF ProcessOK, attempt, current
<1>11. cancelled' \in BOOLEAN
  BY <1>2, <1>t DEF ProcessOK
<1> HIDE DEF r
<1>12. InputsOK' /\ ProcessOK' /\ Control'
  BY <1>1, <1>2, <1>6, <1>7, <1>10, <1>11, StepType DEF ControlPoints
<1> QED
  BY <1>8, <1>9, <1>12 DEF TypeInv, TypeOK

\* The elapsed time after an outcome, and where the loop goes from there.
LEMMA SettleType ==
    ASSUME TypeInv, SettleUnknown \/ SettleSuccess \/ SettleFailure
    PROVE  TypeInv'
<1>t. ProcessOK
  BY DEF TypeInv, TypeOK
<1>1. Settling /\ UNCHANGED <<inputs, mem, clock, cancelled, reply, counters>>
  BY DEF SettleUnknown, SettleSuccess, SettleFailure
<1>2. /\ at \in DOMAIN Operations /\ at \in Nat \ {0} /\ attempt \in Attempts
      /\ current.error \in ErrorCode \cup {"none"}
  BY <1>1, AttemptFacts DEF Settling, InAttempt
<1>3. ElapsedRecorded(clock, 0) \in EventType /\ AppendEvent(ElapsedRecorded(clock, 0))
  BY <1>1, <1>t, EventTypes DEF Settling, ProcessOK
<1>4. mem' \in MemType /\ clock' \in Nat
  BY <1>1, <1>t DEF ProcessOK
<1>5. UNCHANGED at => mem'.journal[at'].attempt = attempt
  BY <1>1 DEF attempt, current
<1>6. CASE SettleUnknown
  <2>1. Goto("finish") /\ UNCHANGED <<at, verdict>> /\ verdict \in VerdictType
    BY <1>6, <1>t DEF SettleUnknown, ProcessOK
  <2> QED
    BY <2>1, <1>1, <1>2, <1>3, <1>4, AppendStepType DEF ControlPoints, InAttempt
<1>7. CASE SettleSuccess
  <2>1. UNCHANGED verdict /\ verdict \in VerdictType
    BY <1>7, <1>t DEF SettleSuccess, ProcessOK
  <2>2. (Goto("replan") /\ UNCHANGED at) \/ (Goto("loop") /\ at' = at + 1)
    <3>1. CASE ReplyNeedsReplan
      BY <1>7, <3>1 DEF SettleSuccess
    <3>2. CASE ~ReplyNeedsReplan
      BY <1>7, <3>2 DEF SettleSuccess, MovedOn
    <3> QED BY <3>1, <3>2
  <2>3. CASE Goto("replan") /\ UNCHANGED at
    BY <2>1, <2>3, <1>1, <1>2, <1>3, <1>4, <1>5, AppendStepType DEF ControlPoints
  <2>4. CASE Goto("loop") /\ at' = at + 1
    BY <2>1, <2>4, <1>1, <1>2, <1>3, <1>4, AppendStepType DEF ControlPoints, InAttempt
  <2> QED
    BY <2>2, <2>3, <2>4
<1>8. CASE SettleFailure
  <2>1. UNCHANGED at
    BY <1>8 DEF SettleFailure
  <2>2. verdict' \in VerdictType
    BY <1>8, <1>2, <1>t DEF SettleFailure, Conclude, VerdictType, TERMINAL, ErrorCode, ProcessOK
  <2>3. Goto("finish") \/ (Goto("schedule") /\ attempt < MaxAttempts)
    BY <1>8 DEF SettleFailure, Allows
  <2>4. CASE Goto("finish")
    BY <2>1, <2>2, <2>4, <1>1, <1>2, <1>3, <1>4, AppendStepType DEF ControlPoints, InAttempt
  <2>5. CASE Goto("schedule") /\ attempt < MaxAttempts
    BY <2>1, <2>2, <2>5, <1>1, <1>2, <1>3, <1>4, <1>5, AppendStepType DEF ControlPoints
  <2> QED
    BY <2>3, <2>4, <2>5
<1> QED
  BY <1>6, <1>7, <1>8

\* Recording an answer: the outcome is appended, then charged in memory.
LEMMA OutcomeType ==
    ASSUME TypeInv, RecordUnknown \/ RecordSuccess \/ RecordFailure
    PROVE  TypeInv'
<1>t. InputsOK /\ DurablesOK /\ ProcessOK /\ CountersOK
  BY DEF TypeInv, TypeOK
<1>1. /\ at \in DOMAIN Operations /\ at \in Ops /\ at \in Nat \ {0} /\ at \in Nat
      /\ attempt \in Attempts /\ attempt \in Nat \ {0} /\ KindOf(at) \in Kinds
      /\ mem.journal \in JournalType /\ Present(mem.journal, at)
      /\ mem.journal[at] \in [attempt : Attempts, status : OperationStatus,
                              error : ErrorCode \cup {"none"}]
  BY AttemptFacts DEF RecordUnknown, RecordSuccess, RecordFailure, InAttempt, current
<1>2. reply.usage \in Usage /\ FailureCode \in ErrorCode /\ mem.ledger \in LedgerType
  BY <1>t, StatusConstants DEF ProcessOK, ReplyType, FailureCode, MemType
<1>3. UNCHANGED <<inputs, counters>>
  BY DEF RecordUnknown, RecordSuccess, RecordFailure
\* Every way of settling keeps the attempt of the record.
<1>4. /\ MarkUnknown(mem.journal, at)[at].attempt = attempt
      /\ MarkSucceeded(mem.journal, at)[at].attempt = attempt
      /\ MarkFailed(mem.journal, at, FailureCode)[at].attempt = attempt
  BY <1>1 DEF MarkUnknown, MarkSucceeded, MarkFailed, SetStatus, JournalType, attempt, current
<1>5. /\ MarkUnknown(mem.journal, at) \in JournalType
      /\ MarkSucceeded(mem.journal, at) \in JournalType
      /\ MarkFailed(mem.journal, at, FailureCode) \in JournalType
  BY <1>1, <1>2, StatusUpdateType
<1>6. \A outcome \in {"succeeded", "failed_known"} :
         Reconcile(mem.ledger, ChargeOf(at, attempt, outcome)) \in LedgerType
  <2> SUFFICES ASSUME NEW outcome \in {"succeeded", "failed_known"}
               PROVE  ChargeOf(at, attempt, outcome) \in ChargeType
    BY <1>2, ReconcileType
  <2> QED
    BY <1>1, <1>2 DEF ChargeOf, ChargeType
\* A settled attempt, from the ledger and the journal it leaves.
<1>7. ASSUME NEW l \in LedgerType, NEW j \in JournalType, j[at].attempt = attempt,
             NEW e \in EventType, AppendEvent(e), Goto("settle"),
             mem' = [mem EXCEPT !.ledger = l, !.journal = j],
             UNCHANGED <<at, clock, cancelled, reply>>, verdict' \in VerdictType
      PROVE  TypeInv'
  <2>1. mem' \in MemType /\ mem'.journal[at'].attempt = attempt /\ clock' \in Nat
    BY <1>7, <1>t DEF ProcessOK, MemType
  <2> QED
    BY <2>1, <1>1, <1>3, <1>7, AppendStepType DEF ControlPoints, InAttempt
<1>8. ASSUME NEW e \in EventType, AppendEvent(e), Raise
      PROVE  TypeInv'
  BY <1>3, <1>8, <1>t, AppendType, RaiseType, PartsUnchanged DEF TypeInv, TypeOK
<1>9. CASE RecordUnknown
  <2>1. AppendEvent(OperationUnknown(at, attempt)) /\ OperationUnknown(at, attempt) \in EventType
    BY <1>9, <1>1, EventTypes DEF RecordUnknown
  <2>2. mem' = [mem EXCEPT !.ledger = mem.ledger, !.journal = MarkUnknown(mem.journal, at)]
    BY <1>9, <1>t DEF RecordUnknown, ProcessOK, MemType
  <2>3. verdict' \in VerdictType /\ Goto("settle") /\ UNCHANGED <<at, clock, cancelled, reply>>
    BY <1>9, StatusConstants DEF RecordUnknown, Conclude, VerdictType, TERMINAL
  <2> QED
    BY <2>1, <2>2, <2>3, <1>2, <1>4, <1>5, <1>7
<1>10. CASE RecordSuccess
  <2> DEFINE c == ChargeOf(at, attempt, "succeeded")
             e == OperationSucceeded(at, attempt, reply.usage, reply.status)
  <2>1. AppendEvent(e) /\ e \in EventType
    BY <1>10, <1>1, <1>2, EventTypes DEF RecordSuccess
  <2> HIDE DEF e
  <2>2. CASE CanReconcile(mem.ledger, spec, c)
    <3>1. /\ mem' = [mem EXCEPT !.ledger = Reconcile(mem.ledger, c),
                                !.journal = MarkSucceeded(mem.journal, at)]
          /\ Goto("settle") /\ UNCHANGED <<at, clock, cancelled, reply, verdict>>
      BY <1>10, <2>2 DEF RecordSuccess
    <3>2. Reconcile(mem.ledger, c) \in LedgerType /\ verdict' \in VerdictType
      BY <3>1, <1>6, <1>t DEF ProcessOK
    <3> HIDE DEF c
    <3> QED
      BY <2>1, <3>1, <3>2, <1>4, <1>5, <1>7
  <2>3. CASE ~CanReconcile(mem.ledger, spec, c)
    BY <1>10, <2>1, <2>3, <1>8 DEF RecordSuccess
  <2> QED
    BY <2>2, <2>3
<1>11. CASE RecordFailure
  <2> DEFINE c == ChargeOf(at, attempt, "failed_known")
             e == OperationFailed(at, attempt, reply.usage, FailureCode)
  <2>1. AppendEvent(e) /\ e \in EventType
    BY <1>11, <1>1, <1>2, EventTypes DEF RecordFailure
  <2> HIDE DEF e
  <2>2. CASE CanReconcile(mem.ledger, spec, c)
    <3>1. /\ mem' = [mem EXCEPT !.ledger = Reconcile(mem.ledger, c),
                                !.journal = MarkFailed(mem.journal, at, FailureCode)]
          /\ Goto("settle") /\ UNCHANGED <<at, clock, cancelled, reply, verdict>>
      BY <1>11, <2>2 DEF RecordFailure
    <3>2. Reconcile(mem.ledger, c) \in LedgerType /\ verdict' \in VerdictType
      BY <3>1, <1>6, <1>t DEF ProcessOK
    <3> HIDE DEF c
    <3> QED
      BY <2>1, <3>1, <3>2, <1>4, <1>5, <1>7
  <2>3. CASE ~CanReconcile(mem.ledger, spec, c)
    BY <1>11, <2>1, <2>3, <1>8 DEF RecordFailure
  <2> QED
    BY <2>2, <2>3
<1> QED
  BY <1>9, <1>10, <1>11

\* An attempt that cannot be dispatched.
LEMMA RejectedType ==
    ASSUME TypeInv, DispatchRejected
    PROVE  TypeInv'
BY RefusedType DEF DispatchRejected

\* The checkpoint, a crash, a torn append and a cancellation.
LEMMA EnvironmentType ==
    ASSUME TypeInv, WriteCheckpoint \/ RequestCancel \/ Crash \/ CrashWhileAppending
    PROVE  TypeInv'
<1>t. InputsOK /\ DurablesOK /\ ProcessOK /\ CountersOK /\ Control
  BY DEF TypeInv, TypeOK
<1>p. at \in Nat \ {0} /\ verdict \in VerdictType
  BY <1>t DEF ProcessOK
<1>1. CASE WriteCheckpoint
  <2>1. UNCHANGED <<inputs, stream, torn, view, counters>>
    BY <1>1 DEF WriteCheckpoint
  <2>2. InputsOK' /\ ProcessOK' /\ Control'
    <3>1. CASE view.ok
      BY <1>1, <3>1, <2>1, <1>p, MoveType DEF WriteCheckpoint, ControlPoints, InAttempt
    <3>2. CASE ~view.ok
      BY <1>1, <3>2, <2>1, RaiseType DEF WriteCheckpoint
    <3> QED BY <3>1, <3>2
  <2>3. checkpoint' \in [sequence : Nat \cup {-1}, view : ViewType]
    <3>1. Len(stream) \in Nat /\ view \in ViewType
      BY <1>t DEF DurablesOK
    <3>2. checkpoint' = [sequence |-> Len(stream), view |-> view] \/ checkpoint' = checkpoint
      BY <1>1 DEF WriteCheckpoint, CheckpointView
    <3> QED
      BY <3>1, <3>2, <1>t DEF DurablesOK
  <2>4. stream' \in Seq(EventType) /\ view' \in ViewType
    BY <2>1, <1>t DEF DurablesOK
  <2>5. torn' \in BOOLEAN
    BY <2>1, <1>t DEF DurablesOK
  <2>6. CountersOK'
    BY <2>1, <1>t, PartsUnchanged
  <2> QED
    BY <2>2, <2>3, <2>4, <2>5, <2>6 DEF TypeInv, TypeOK, DurablesOK
<1>2. CASE RequestCancel
  <2>1. UNCHANGED <<inputs, durables, pc, mem, at, clock, reply, verdict, calls, runs>>
    BY <1>2 DEF RequestCancel
  <2>2. cancelled' \in BOOLEAN
    BY <1>2 DEF RequestCancel
  <2>3. cancels' \in 0..MaxCancels
    BY <1>2, <1>t, ConfigurationAssumption DEF RequestCancel, CountersOK
  <2>4. pc' \in ControlPoints /\ mem' \in MemType /\ at' \in Nat \ {0} /\ clock' \in Nat
        /\ reply' \in ReplyType /\ verdict' \in VerdictType
    BY <2>1, <1>t DEF ProcessOK
  <2>5. CountersOK'
    BY <2>1, <2>3, <1>t DEF CountersOK
  <2>6. InputsOK' /\ DurablesOK' /\ Control'
    BY <2>1, <1>t, PartsUnchanged DEF Control, attempt, current
  <2> QED
    BY <2>2, <2>4, <2>5, <2>6 DEF TypeInv, TypeOK, ProcessOK
<1>3. CASE Crash \/ CrashWhileAppending
  <2>1. /\ UNCHANGED <<inputs, stream, view, checkpoint, mem, at, clock, cancelled, reply, verdict,
                       counters>>
        /\ Goto("down")
    BY <1>3 DEF Crash, CrashWhileAppending, durables
  <2>2. torn' \in BOOLEAN
    BY <1>3, <1>t DEF Crash, CrashWhileAppending, durables, DurablesOK
  <2>3. stream' \in Seq(EventType) /\ view' \in ViewType
        /\ checkpoint' \in [sequence : Nat \cup {-1}, view : ViewType]
    BY <2>1, <1>t DEF DurablesOK
  <2>4. InputsOK' /\ ProcessOK' /\ Control'
    BY <2>1, <1>p, MoveType DEF ControlPoints, InAttempt
  <2>5. CountersOK'
    BY <2>1, <1>t, PartsUnchanged
  <2> QED
    BY <2>2, <2>3, <2>4, <2>5 DEF TypeInv, TypeOK, DurablesOK
<1> QED
  BY <1>1, <1>2, <1>3

\* What a replay concludes at the end of the stream is a view again.
LEMMA FinalizeType ==
    ASSUME NEW v \in ViewType
    PROVE  Finalize(v).journal \in JournalType
<1> DEFINE lost(op) == [v.journal[op] EXCEPT !.status = "outcome_unknown", !.error = "unknown_outcome"]
           j == [op \in Ops |-> IF v.journal[op].status = "started" THEN lost(op) ELSE v.journal[op]]
<1>1. Finalize(v).journal = j
  BY DEF Finalize, ViewType
<1>2. ASSUME NEW op \in Ops
      PROVE  (IF v.journal[op].status = "started" THEN lost(op) ELSE v.journal[op]) \in RecordType
  <2>1. v.journal[op] \in RecordType
    BY DEF ViewType, JournalType
  <2>2. CASE v.journal[op].status = "started"
    <3>1. v.journal[op] \in [attempt : Attempts, status : OperationStatus,
                             error : ErrorCode \cup {"none"}]
      BY <2>1, <2>2 DEF RecordType, Absent
    <3>2. \A r \in [attempt : Attempts, status : OperationStatus, error : ErrorCode \cup {"none"}] :
             [r EXCEPT !.status = "outcome_unknown", !.error = "unknown_outcome"] \in RecordType
      BY StatusConstants DEF RecordType
    <3> QED
      BY <2>2, <3>1, <3>2
  <2>3. CASE v.journal[op].status # "started"
    BY <2>1, <2>3
  <2> QED
    BY <2>2, <2>3
<1> QED
  BY <1>1, <1>2 DEF JournalType

\* A new process, on a readable stream or not.
LEMMA LaunchType ==
    ASSUME TypeInv, Start \/ StartRejected
    PROVE  TypeInv'
<1>t. InputsOK /\ DurablesOK /\ ProcessOK /\ CountersOK
  BY DEF TypeInv, TypeOK
<1>1. CountersOK'
  BY <1>t, ConfigurationAssumption DEF Start, StartProcess, StartRejected, CountersOK
<1>2. CASE Start
  <2>1. DurablesOK' /\ UNCHANGED inputs
    BY <1>2, <1>t, AppendType, PartsUnchanged, EventTypes DEF Start
  <2>2. view.status \in RunStatus /\ view.ledger \in LedgerType
    BY <1>t DEF DurablesOK, ViewType
  <2>3. Finalize(view).journal \in JournalType
    BY <1>t, FinalizeType DEF DurablesOK
  <2>4. mem' \in MemType /\ clock' \in Nat
    BY <1>2, <2>2, <2>3 DEF Start, MemType, LedgerType
  <2>5. NoReply \in ReplyType /\ NoVerdict \in VerdictType
    BY DEF NoReply, ReplyType, NoVerdict, VerdictType, Usage, TERMINAL
  <2>6. at' = 1 /\ reply' \in ReplyType /\ verdict' \in VerdictType
    BY <1>2, <2>5 DEF Start, StartProcess
  <2>7. cancelled' \in BOOLEAN
    BY <1>2 DEF Start, StartProcess
  <2>8. Goto("approve") \/ Goto("loop")
    BY <1>2 DEF Start
  <2>9. InputsOK' /\ ProcessOK' /\ Control'
    BY <2>1, <2>4, <2>6, <2>7, <2>8, StepType DEF ControlPoints, InAttempt
  <2> QED
    BY <1>1, <2>1, <2>9 DEF TypeInv, TypeOK
<1>3. CASE StartRejected
  <2>1. Raise /\ UNCHANGED inputs /\ UNCHANGED durables
    BY <1>3 DEF StartRejected
  <2> QED
    BY <1>1, <2>1, <1>t, RaiseType, PartsUnchanged DEF TypeInv, TypeOK
<1> QED
  BY <1>2, <1>3

\* Nothing happens.
LEMMA StutterType == TypeInv /\ UNCHANGED vars => TypeInv'
<1> SUFFICES ASSUME TypeInv, UNCHANGED vars PROVE TypeInv'
  OBVIOUS
<1>t. InputsOK /\ DurablesOK /\ ProcessOK /\ CountersOK /\ Control
  BY DEF TypeInv, TypeOK
<1>1. UNCHANGED <<inputs, durables, process, counters>>
  BY DEF vars
<1>2. InputsOK' /\ DurablesOK' /\ CountersOK'
  BY <1>t, <1>1, PartsUnchanged
<1>3. ProcessOK'
  BY <1>t, <1>1 DEF ProcessOK, process
<1>4. Control'
  BY <1>t, <1>1 DEF Control, process, attempt, current, Operations, inputs
<1> QED
  BY <1>2, <1>3, <1>4 DEF TypeInv, TypeOK

\* Every step of the harness, whatever the script, keeps the types.
THEOREM StepTypeInv == TypeInv /\ [Next]_vars => TypeInv'
<1> SUFFICES ASSUME TypeInv, [Next]_vars PROVE TypeInv'
  OBVIOUS
<1>1. CASE UNCHANGED vars
  BY <1>1, StutterType
<1>2. CASE Launch
  BY <1>2, LaunchType DEF Launch
<1>3. CASE ApproveBrief \/ BeginResearch
  BY <1>3, LifecycleType
<1>4. CASE Looping
  BY <1>4, QuietType, ReplanType, CancelOperationType, PlanOperationType, RetryType DEF Looping
<1>5. CASE Attempting
  BY <1>5, RetryType, ReserveRetryType, DispatchType, QuietType, CallType, OutcomeType, SettleType,
     ReplanType, RejectedType DEF Attempting
<1>6. CASE Finishing
  BY <1>6, QuietType, LifecycleType, EnvironmentType DEF Finishing
<1>7. CASE RequestCancel \/ Crash \/ CrashWhileAppending
  BY <1>7, EnvironmentType
<1> QED
  BY <1>1, <1>2, <1>3, <1>4, <1>5, <1>6, <1>7 DEF Next, Execute

\* TypeOK holds in every reachable state: whatever is on disk or in memory
\* after any crashes and resumptions has the shape the code's models give it.
THEOREM TypeCorrect == Spec => []TypeOK
<1>1. Spec => []TypeInv
  BY InitType, StepTypeInv, PTL DEF Spec
<1>2. TypeInv => TypeOK
  BY DEF TypeInv
<1> QED
  BY <1>1, <1>2, PTL

---------------------------------------------------------------------------
(* No attempt is called twice, whatever the script, the budget, the crashes *)
(* and the resumptions. A journal that was reduced from the stream          *)
(* remembers every call that was made, because the dispatch is durable      *)
(* before the call, and no event gives an attempt back.                     *)


\* A record that attempt n can no longer be dispatched from.
Consumed(r, n) == r.attempt > n \/ (r.attempt = n /\ r.status \notin {"planned", "reserved"})

\* Journal j remembers every call of c.
Remembers(j, c) == \A op \in Ops, n \in Attempts : c[op][n] > 0 => Consumed(j[op], n)

ViewRemembers == view.ok => Remembers(view.journal, calls)
MemRemembers == Running => Remembers(mem.journal, calls)

\* Between the dispatch and the call, the attempt is uncalled and taken.
Authorised ==
    pc = "dispatched" =>
        /\ calls[at][attempt] = 0
        /\ Consumed(current, attempt)
        /\ Dispatched(at, attempt)
        /\ view.ok => Consumed(view.journal[at], attempt)

CallInv == AtMostOneCall /\ ViewRemembers /\ MemRemembers /\ Authorised

---------------------------------------------------------------------------
(* What the journal's operations do to consumed attempts *)

\* No operation of the journal gives a consumed attempt back, except one that
\* starts the record over with an attempt that is not a later one.
LEMMA JournalConsumes ==
    ASSUME NEW j \in JournalType, NEW op \in Ops, NEW n \in Attempts, Consumed(j[op], n),
           NEW o \in Ops, NEW m \in Attempts
    PROVE  /\ CanReserveOp(j, o, m) => Consumed(ReserveOp(j, o, m)[op], n)
           /\ Consumed(StartOp(j, o, m)[op], n)
           /\ Consumed(MarkSucceeded(j, o)[op], n)
           /\ Consumed(MarkUnknown(j, o)[op], n)
           /\ \A code : Consumed(MarkFailed(j, o, code)[op], n)
           /\ Consumed(CancelBeforeDispatch(j, o)[op], n)
           /\ ~Present(j, o) => o # op
           /\ o # op => Consumed(Add(j, o, m)[op], n)
           /\ o # op \/ n < m => \A status, error : Consumed(NewAttempt(j, o, m, status, error)[op], n)
<1>1. j[op] \in RecordType /\ n \in Nat \ {0} /\ m \in Nat \ {0}
  BY ConfigurationAssumption DEF JournalType, Attempts
<1>2. j[op] \in [attempt : Attempts, status : OperationStatus, error : ErrorCode \cup {"none"}]
  BY <1>1 DEF RecordType, Absent, Consumed
<1>3. \A s, e : LET r == [[j[op] EXCEPT !.status = s] EXCEPT !.error = e]
                IN  r.attempt = j[op].attempt /\ r.status = s
  BY <1>2
<1>4. \A s : LET r == [j[op] EXCEPT !.status = s] IN r.attempt = j[op].attempt /\ r.status = s
  BY <1>2
<1>5. DOMAIN j = Ops
  BY DEF JournalType
<1>6. CanReserveOp(j, o, m) => Consumed(ReserveOp(j, o, m)[op], n)
  BY <1>1, <1>4, <1>5 DEF CanReserveOp, IsCurrent, ReserveOp, Consumed
<1>7. /\ Consumed(StartOp(j, o, m)[op], n)
      /\ Consumed(CancelBeforeDispatch(j, o)[op], n)
  BY <1>1, <1>4, <1>5 DEF StartOp, CancelBeforeDispatch, Consumed
<1>8. \A s \in {"succeeded", "failed_known", "outcome_unknown"} : \A e :
         Consumed(SetStatus(j, o, s, e)[op], n)
  BY <1>1, <1>3, <1>5 DEF SetStatus, Consumed
<1>9. ~Present(j, o) => o # op
  BY <1>2 DEF Present, OperationStatus
<1>10. /\ o # op => Consumed(Add(j, o, m)[op], n)
       /\ o # op \/ n < m => \A status, error : Consumed(NewAttempt(j, o, m, status, error)[op], n)
  BY <1>1, <1>5 DEF Add, NewAttempt, Consumed
<1> QED
  BY <1>6, <1>7, <1>8, <1>9, <1>10 DEF MarkSucceeded, MarkUnknown, MarkFailed

\* A reduction step gives no consumed attempt back, unless it reserves an
\* attempt that is not a later one.
LEMMA ReduceConsumes ==
    ASSUME NEW v \in ViewType, NEW e \in EventType, NEW s, NEW op \in Ops, NEW n \in Attempts,
           Consumed(v.journal[op], n),
           e.type = "operation_reserved" /\ e.op = op => n < e.attempt
    PROVE  Consumed(ReduceEvent(v, e, s).journal[op], n)
<1>t. v.journal \in JournalType /\ DOMAIN v = {"ok", "status", "ledger", "journal"}
      /\ n \in Nat
  BY ConfigurationAssumption DEF ViewType, Attempts
<1>r. Rejected(v).journal = v.journal
  BY DEF Rejected, ViewType
<1>k. \A j, l : /\ [v EXCEPT !.journal = j].journal = j
                /\ [v EXCEPT !.ledger = l, !.journal = j].journal = j
                /\ [v EXCEPT !.ledger = l].journal = v.journal
                /\ [v EXCEPT !.status = l].journal = v.journal
  BY <1>t DEF ViewType
<1>0. CASE ~v.ok
  BY <1>0 DEF ReduceEvent
<1>1. CASE v.ok /\ (e = RunStarted \/ (\E from, to \in RunStatus : e = Lifecycle(from, to)))
  BY <1>1, <1>r, <1>k DEF ReduceEvent, RunStarted, Lifecycle, ReduceLifecycle
<1>2. ASSUME v.ok, NEW seconds \in Nat, NEW delay \in Nat, e = ElapsedRecorded(seconds, delay)
      PROVE  Consumed(ReduceEvent(v, e, s).journal[op], n)
  <2>1. ReduceEvent(v, e, s) = [v EXCEPT !.ledger = RecordElapsed(v.ledger, seconds)]
    BY <1>2 DEF ReduceEvent, ElapsedRecorded
  <2> QED
    BY <2>1, <1>k
<1>3. ASSUME v.ok, NEW o \in Ops, NEW m \in Attempts, NEW kind \in Kinds, NEW usage \in Usage,
             e = OperationReserved(o, m, kind, usage)
      PROVE  Consumed(ReduceEvent(v, e, s).journal[op], n)
  <2> DEFINE j == WithAttempt(v.journal, o, m)
  <2>1. e.op = o /\ e.attempt = m /\ (o = op => n < m)
    BY <1>3 DEF OperationReserved
  <2>2. j \in JournalType /\ Consumed(j[op], n)
    BY <1>t, <2>1, JournalConsumes, NewRecordType DEF WithAttempt
  <2>3. CanReserveOp(j, o, m) => Consumed(ReserveOp(j, o, m)[op], n)
    BY <2>2, JournalConsumes
  <2>4. ReduceEvent(v, e, s) = ReduceReserved(v, e, s)
    BY <1>3 DEF ReduceEvent, OperationReserved
  <2> HIDE DEF j
  <2> QED
    BY <2>1, <2>3, <2>4, <1>r, <1>k DEF ReduceReserved, j
<1>4. ASSUME v.ok, NEW o \in Ops, NEW m \in Attempts,
             \/ e = OperationDispatched(o, m)
             \/ e = OperationUnknown(o, m)
             \/ \E usage \in Usage, answer \in {"success", "abstain"} :
                   e = OperationSucceeded(o, m, usage, answer)
             \/ \E usage \in Usage, code \in ErrorCode : e = OperationFailed(o, m, usage, code)
      PROVE  Consumed(ReduceEvent(v, e, s).journal[op], n)
  <2>1. /\ Consumed(StartOp(v.journal, o, m)[op], n)
        /\ Consumed(MarkUnknown(v.journal, o)[op], n)
        /\ Consumed(MarkSucceeded(v.journal, o)[op], n)
        /\ \A code : Consumed(MarkFailed(v.journal, o, code)[op], n)
    BY <1>t, JournalConsumes
  <2>2. CASE e = OperationDispatched(o, m)
    BY <1>4, <2>1, <2>2, <1>r, <1>k DEF ReduceEvent, ReduceDispatched, OperationDispatched
  <2>3. CASE e = OperationUnknown(o, m)
    BY <1>4, <2>1, <2>3, <1>r, <1>k DEF ReduceEvent, ReduceUnknown, OperationUnknown
  <2>4. ASSUME NEW usage \in Usage, NEW answer \in {"success", "abstain"},
               e = OperationSucceeded(o, m, usage, answer)
        PROVE  Consumed(ReduceEvent(v, e, s).journal[op], n)
    <3>1. ReduceEvent(v, e, s) = ReduceSucceeded(v, e, s) /\ e.op = o
      BY <1>4, <2>4 DEF ReduceEvent, OperationSucceeded
    <3> QED
      BY <2>1, <3>1, <1>r, <1>k DEF ReduceSucceeded
  <2>5. ASSUME NEW usage \in Usage, NEW code \in ErrorCode, e = OperationFailed(o, m, usage, code)
        PROVE  Consumed(ReduceEvent(v, e, s).journal[op], n)
    <3>1. ReduceEvent(v, e, s) = ReduceFailed(v, e, s) /\ e.op = o
      BY <1>4, <2>5 DEF ReduceEvent, OperationFailed
    <3> QED
      BY <2>1, <3>1, <1>r, <1>k DEF ReduceFailed
  <2> QED
    BY <1>4, <2>2, <2>3, <2>4, <2>5
<1>5. ASSUME v.ok, NEW o \in Ops, NEW m \in Attempts, e = OperationCancelled(o, m)
      PROVE  Consumed(ReduceEvent(v, e, s).journal[op], n)
  <2> DEFINE j == IF Present(v.journal, o) THEN v.journal ELSE Add(v.journal, o, m)
  <2>1. j \in JournalType /\ Consumed(j[op], n)
    BY <1>t, JournalConsumes, NewRecordType
  <2>2. Consumed(CancelBeforeDispatch(j, o)[op], n)
    BY <2>1, JournalConsumes
  <2>3. ReduceEvent(v, e, s) = ReduceCancelled(v, e) /\ e.op = o /\ e.attempt = m
    BY <1>5 DEF ReduceEvent, OperationCancelled
  <2> HIDE DEF j
  <2> QED
    BY <2>2, <2>3, <1>r, <1>k DEF ReduceCancelled, j
<1>6. ASSUME v.ok, NEW o \in Ops, NEW m \in Attempts,
             \/ \E delay \in Nat : e = RetryScheduled(o, m, delay)
             \/ \E admitted \in BOOLEAN : e = ReplanDecided(o, m, admitted)
      PROVE  Consumed(ReduceEvent(v, e, s).journal[op], n)
  BY <1>6, <1>r, <1>k DEF ReduceEvent, RetryScheduled, ReplanDecided, ReduceReplan
<1> QED
  BY <1>0, <1>1, <1>2, <1>3, <1>4, <1>5, <1>6, EventCases

\* An event never turns a rejected stream into an accepted one.
LEMMA ReduceRejected ==
    ASSUME NEW v, NEW e, NEW s, ReduceEvent(v, e, s).ok
    PROVE  v.ok
BY DEF ReduceEvent

\* Concluding that a started operation has an unknown outcome gives nothing back.
LEMMA FinalizeRemembers ==
    ASSUME NEW v \in ViewType, NEW c, Remembers(v.journal, c)
    PROVE  Remembers(Finalize(v).journal, c)
<1> SUFFICES ASSUME NEW op \in Ops, NEW n \in Attempts, Consumed(v.journal[op], n)
             PROVE  Consumed(Finalize(v).journal[op], n)
  BY DEF Remembers
<1>1. Finalize(v).journal[op] =
        IF v.journal[op].status = "started"
        THEN [v.journal[op] EXCEPT !.status = "outcome_unknown", !.error = "unknown_outcome"]
        ELSE v.journal[op]
  BY DEF Finalize, ViewType
<1>2. v.journal[op] \in RecordType
  BY DEF ViewType, JournalType
<1>3. \A r \in RecordType :
         LET q == [r EXCEPT !.status = "outcome_unknown", !.error = "unknown_outcome"]
         IN  q.attempt = r.attempt /\ q.status = "outcome_unknown"
  BY DEF RecordType, Absent
<1> QED
  BY <1>1, <1>2, <1>3 DEF Consumed

---------------------------------------------------------------------------
(* The invariant, step by step *)

\* What is dispatched stays dispatched.
LEMMA DispatchedStays ==
    ASSUME NEW e \in EventType, stream \in Seq(EventType), stream' = Append(stream, e),
           NEW op, NEW n, Dispatched(op, n)
    PROVE  Dispatched(op, n)'
<1>1. PICK i \in DOMAIN stream : /\ stream[i].type = "operation_dispatched"
                                 /\ stream[i].op = op /\ stream[i].attempt = n
  BY DEF Dispatched, EventsOf
<1>2. i \in DOMAIN stream' /\ stream'[i] = stream[i]
  BY <1>1
<1> QED
  BY <1>1, <1>2 DEF Dispatched, EventsOf

\* A step that touches neither the stream nor a journal.
LEMMA StillCalls ==
    ASSUME CallInv, UNCHANGED <<stream, view, calls>>,
           Running' => Running /\ mem'.journal = mem.journal,
           pc' # "dispatched" \/ UNCHANGED <<pc, mem, at>>
    PROVE  CallInv'
<1>1. AtMostOneCall'
  BY DEF CallInv, AtMostOneCall, Dispatched, EventsOf
<1>2. ViewRemembers' /\ MemRemembers'
  BY DEF CallInv, ViewRemembers, MemRemembers, Remembers
<1>3. CASE UNCHANGED <<pc, mem, at>>
  BY <1>1, <1>2, <1>3 DEF CallInv, Authorised, current, attempt, Dispatched, EventsOf
<1>4. CASE pc' # "dispatched"
  BY <1>1, <1>2, <1>4 DEF CallInv, Authorised
<1> QED
  BY <1>3, <1>4

\* A step that appends an event and calls nothing: a reservation must be for
\* an attempt later than every call, and the memory must still remember.
LEMMA AppendStep ==
    ASSUME TypeInv, CallInv, NEW e \in EventType, AppendEvent(e), UNCHANGED calls,
           e.type = "operation_reserved" =>
              \A n \in Attempts : calls[e.op][n] > 0 => n < e.attempt,
           Running' => Remembers(mem'.journal, calls)
    PROVE  AtMostOneCall' /\ ViewRemembers' /\ MemRemembers'
<1>t. view \in ViewType /\ stream \in Seq(EventType)
  BY DEF TypeInv, TypeOK, DurablesOK
<1>1. stream' = Append(stream, e) /\ view' = ReduceEvent(view, e, spec)
  BY DEF AppendEvent
<1>2. AtMostOneCall'
  BY <1>t, <1>1, DispatchedStays DEF CallInv, AtMostOneCall
<1>3. ViewRemembers'
  <2> SUFFICES ASSUME view'.ok, NEW op \in Ops, NEW n \in Attempts, calls[op][n] > 0
               PROVE  Consumed(view'.journal[op], n)
    BY DEF ViewRemembers, Remembers
  <2>1. Consumed(view.journal[op], n)
    BY <1>1, ReduceRejected DEF CallInv, ViewRemembers, Remembers
  <2> QED
    BY <2>1, <1>t, <1>1, ReduceConsumes
<1>4. MemRemembers'
  BY DEF MemRemembers
<1> QED
  BY <1>2, <1>3, <1>4

\* The steps of the process that append something other than a reservation,
\* and leave the journal of the process alone.
LEMMA PlainAppend ==
    ASSUME TypeInv, CallInv, Running, NEW e \in EventType, AppendEvent(e), UNCHANGED calls,
           e.type # "operation_reserved", mem'.journal = mem.journal, pc' # "dispatched"
    PROVE  CallInv'
BY AppendStep DEF CallInv, MemRemembers, Authorised

\* The steps of a run that move its status, its clock or its schedule.
LEMMA PlainSteps ==
    ASSUME TypeInv, CallInv,
           \/ ApproveBrief \/ BeginResearch \/ FinishLifecycle \/ Complete
           \/ RecoverReplan \/ ReplanAfterAnswer
           \/ RetryUnscheduled \/ ScheduleRetry \/ Backoff
           \/ SettleUnknown \/ SettleSuccess \/ SettleFailure
    PROVE  CallInv'
<1>t. InputsOK /\ ProcessOK
  BY DEF TypeInv, TypeOK
<1>m. mem \in MemType
  BY <1>t DEF ProcessOK
<1>1. CASE ApproveBrief \/ BeginResearch \/ FinishLifecycle \/ Complete
  <2>1. PICK to \in RunStatus : LifecycleTo(to)
    BY <1>1, <1>t DEF ApproveBrief, BeginResearch, FinishLifecycle, Complete, RunStatus, ProcessOK,
                VerdictType, TERMINAL
  <2>2. Lifecycle(mem.status, to) \in EventType /\ Lifecycle(mem.status, to).type # "operation_reserved"
    BY <1>m, EventTypes DEF MemType, Lifecycle
  <2>3. mem'.journal = mem.journal
    BY <1>m, <2>1 DEF LifecycleTo, MemType
  <2>4. Running /\ pc' # "dispatched" /\ UNCHANGED calls
    BY <1>1 DEF ApproveBrief, BeginResearch, FinishLifecycle, Complete, Goto, Running, counters
  <2> QED
    BY <2>1, <2>2, <2>3, <2>4, PlainAppend DEF LifecycleTo
<1>2. CASE RecoverReplan \/ ReplanAfterAnswer
  <2>1. at \in Ops /\ attempt \in Attempts
    BY <1>2, AttemptFacts DEF RecoverReplan, ReplanAfterAnswer, InAttempt
  <2>2. DecideReplan /\ UNCHANGED calls /\ Running
    BY <1>2 DEF RecoverReplan, ReplanAfterAnswer, AtOperation, Running, counters
  <2>3. PICK admitted \in BOOLEAN : AppendEvent(ReplanDecided(at, attempt, admitted))
    <3>1. Admits(mem.ledger.replans, spec.maxReplans) \in BOOLEAN
      BY DEF Admits
    <3> QED
      BY <2>2, <3>1 DEF DecideReplan
  <2>4. ReplanDecided(at, attempt, admitted) \in EventType
        /\ ReplanDecided(at, attempt, admitted).type # "operation_reserved"
    BY <2>1, EventTypes DEF ReplanDecided
  <2>5. mem'.journal = mem.journal
    BY <1>m, <2>2 DEF DecideReplan, MemType
  <2>6. pc' # "dispatched"
    BY <2>2 DEF DecideReplan, MovedOn, Goto
  <2> QED
    BY <2>2, <2>3, <2>4, <2>5, <2>6, PlainAppend
<1>3. CASE RetryUnscheduled \/ ScheduleRetry
  <2>1. at \in Ops /\ attempt \in Attempts /\ attempt \in Nat
    BY <1>3, AttemptFacts
       DEF RetryUnscheduled, ScheduleRetry, Retries, Proceeds, Undecided, InAttempt
  <2>2. DelayFor(backoff, attempt) \in Nat
    BY <2>1, <1>t, ConfigurationTypes
  <2> DEFINE e == RetryScheduled(at, attempt, DelayFor(backoff, attempt))
  <2>3. e \in EventType /\ e.type # "operation_reserved"
    BY <2>1, <2>2, EventTypes DEF RetryScheduled
  <2>4. AppendEvent(e) /\ UNCHANGED <<mem, calls>> /\ Running /\ pc' # "dispatched"
    BY <1>3 DEF RetryUnscheduled, ScheduleRetry, Retries, Proceeds, Undecided, AtOperation, Running,
                Goto, counters
  <2> HIDE DEF e
  <2> QED
    BY <2>3, <2>4, PlainAppend
<1>4. CASE Backoff \/ SettleUnknown \/ SettleSuccess \/ SettleFailure
  <2>1. PICK e : AppendEvent(e) /\ \E seconds, delay \in Nat : e = ElapsedRecorded(seconds, delay)
    <3>1. CASE Backoff
      <4>1. DelayFor(backoff, attempt) \in Nat
        BY <3>1, <1>t, AttemptFacts, ConfigurationTypes DEF Backoff, InAttempt
      <4>2. AppendEvent(ElapsedRecorded(clock', DelayFor(backoff, attempt))) /\ clock' \in Nat
        BY <3>1, <4>1, <1>t DEF Backoff, ProcessOK
      <4> QED
        BY <4>1, <4>2
    <3>2. CASE SettleUnknown \/ SettleSuccess \/ SettleFailure
      BY <3>2, <1>t DEF SettleUnknown, SettleSuccess, SettleFailure, Settling, ProcessOK
    <3> QED
      BY <1>4, <3>1, <3>2
  <2>2. e \in EventType /\ e.type # "operation_reserved"
    BY <2>1, EventTypes DEF ElapsedRecorded
  <2>3. UNCHANGED <<mem, calls>> /\ Running /\ pc' # "dispatched"
    BY <1>4 DEF Backoff, SettleUnknown, SettleSuccess, SettleFailure, Settling, Running, Goto,
                MovedOn, Conclude, counters
  <2> QED
    BY <2>1, <2>2, <2>3, PlainAppend
<1> QED
  BY <1>1, <1>2, <1>3, <1>4

\* Where the journal has nothing on an operation, it was never called.
LEMMA UncalledWhenAbsent ==
    ASSUME TypeInv, MemRemembers, Running, NEW op \in Ops, ~Present(mem.journal, op), NEW n \in Attempts
    PROVE  ~(calls[op][n] > 0)
BY JournalConsumes DEF MemRemembers, Remembers, TypeInv, TypeOK, ProcessOK, MemType

\* Reservations, first and later, and the cancellation of a first one.
LEMMA ReserveSteps ==
    ASSUME TypeInv, CallInv, PlanOperation \/ ReserveRetry \/ CancelOperation
    PROVE  CallInv'
<1>t. InputsOK /\ ProcessOK /\ CountersOK /\ Control
  BY DEF TypeInv, TypeOK
<1>m. mem \in MemType /\ mem.journal \in JournalType
  BY <1>t DEF ProcessOK, MemType
<1>0. /\ Running /\ UNCHANGED calls /\ MemRemembers
      /\ pc' # "dispatched"
  BY DEF PlanOperation, ReserveRetry, CancelOperation, Proceeds, Undecided, AtOperation, Running,
         Goto, Raise, counters, CallInv
<1>a. AtOperation => at \in Ops /\ 1 \in Attempts
  <2>1. AtOperation => at \in DOMAIN Operations
    BY <1>t, ConfigurationTypes DEF AtOperation, ProcessOK
  <2> QED
    BY <2>1, <1>t, ScriptTypes, ConfigurationTypes
\* The memory after a step that changes no other record than that of at.
<1>j. ASSUME NEW j, mem'.journal = j,
             \A op \in Ops, n \in Attempts :
                Consumed(mem.journal[op], n) /\ calls[op][n] > 0 => Consumed(j[op], n)
      PROVE  Running' => Remembers(mem'.journal, calls)
  BY <1>0, <1>j DEF MemRemembers, Remembers
<1>1. CASE PlanOperation /\ CanReserve(mem.ledger, spec, ReservationOf(at, 1))
  <2>1. at \in Ops /\ 1 \in Attempts /\ ~Present(mem.journal, at) /\ at \in DOMAIN Operations
    BY <1>1, <1>a, <1>t, ConfigurationTypes
       DEF PlanOperation, Proceeds, Undecided, AtOperation, Present, current, ProcessOK
  <2> DEFINE e == OperationReserved(at, 1, KindOf(at), Answer(at, 1).usage)
             j == ReserveOp(Add(mem.journal, at, 1), at, 1)
  <2>2. e \in EventType /\ e.op = at
    BY <2>1, <1>t, ScriptTypes, EventTypes DEF OperationReserved
  <2>3. \A n \in Attempts : ~(calls[at][n] > 0)
    BY <2>1, <1>0, UncalledWhenAbsent
  <2>4. AppendEvent(e) /\ mem' = [mem EXCEPT !.ledger = Reserve(@, ReservationOf(at, 1)), !.journal = j]
    BY <1>1 DEF PlanOperation
  <2>5. mem'.journal = j
    BY <2>4, <1>m DEF MemType
  <2>6. ASSUME NEW op \in Ops, op # at
        PROVE  j[op] = mem.journal[op]
    BY <2>6, <1>m DEF ReserveOp, Add, JournalType
  <2> HIDE DEF e, j
  <2>7. Running' => Remembers(mem'.journal, calls)
    BY <2>3, <2>5, <2>6, <1>j
  <2> QED
    BY <2>2, <2>3, <2>4, <2>7, <1>0, AppendStep DEF CallInv, Authorised
<1>2. CASE ReserveRetry /\ CanReserve(mem.ledger, spec, ReservationOf(at, attempt + 1))
  <2>1. /\ at \in Ops /\ at \in DOMAIN Operations /\ KindOf(at) \in Kinds
        /\ attempt \in Attempts /\ attempt \in Nat \ {0} /\ attempt < MaxAttempts
    BY <1>2, <1>t, AttemptFacts DEF ReserveRetry, InAttempt, Control
  <2> DEFINE m == attempt + 1
             r == ReservationOf(at, m)
             e == OperationReserved(at, m, r.kind, r.usage)
             j == NewAttempt(mem.journal, at, m, "reserved", CarriedError)
  <2>2. m \in Attempts /\ m \in Nat \ {0}
    BY <2>1, ConfigurationAssumption DEF Attempts
  <2>3. e \in EventType /\ e.op = at /\ e.attempt = m
    BY <2>1, <2>2, <1>t, ScriptTypes, EventTypes DEF OperationReserved, ReservationOf
  <2>4. \A n \in Attempts : calls[at][n] > 0 => n < m
    <3> SUFFICES ASSUME NEW n \in Attempts, calls[at][n] > 0 PROVE n < m
      OBVIOUS
    <3>1. Consumed(current, n)
      BY <2>1, <1>0 DEF MemRemembers, Remembers, current
    <3>2. n \in Nat
      BY <1>t, ConfigurationTypes
    <3> QED
      BY <3>1, <3>2, <2>1 DEF Consumed, attempt
  <2>5. AppendEvent(e) /\ mem' = [mem EXCEPT !.ledger = Reserve(@, r), !.journal = j]
    BY <1>2 DEF ReserveRetry
  <2>6. mem'.journal = j
    BY <2>5, <1>m DEF MemType
  <2>7. ASSUME NEW op \in Ops, NEW n \in Attempts, Consumed(mem.journal[op], n), calls[op][n] > 0
        PROVE  Consumed(j[op], n)
    BY <2>1, <2>2, <2>4, <2>7, <1>m, JournalConsumes
  <2> HIDE DEF e, j, m
  <2>8. Running' => Remembers(mem'.journal, calls)
    BY <2>6, <2>7, <1>j
  <2> QED
    BY <2>3, <2>4, <2>5, <2>8, <1>0, AppendStep DEF CallInv, Authorised
<1>3. CASE CancelOperation
  <2>1. at \in Ops /\ 1 \in Attempts /\ ~Present(mem.journal, at)
    BY <1>3, <1>a DEF CancelOperation, Undecided, Present, current
  <2> DEFINE j == CancelBeforeDispatch(Add(mem.journal, at, 1), at)
  <2>2. OperationCancelled(at, 1) \in EventType
        /\ OperationCancelled(at, 1).type # "operation_reserved"
    BY <2>1, EventTypes DEF OperationCancelled
  <2>3. \A n \in Attempts : ~(calls[at][n] > 0)
    BY <2>1, <1>0, UncalledWhenAbsent
  <2>4. AppendEvent(OperationCancelled(at, 1)) /\ mem'.journal = j
    BY <1>3, <1>m DEF CancelOperation, MemType
  <2>5. ASSUME NEW op \in Ops, op # at
        PROVE  j[op] = mem.journal[op]
    BY <2>5, <1>m DEF CancelBeforeDispatch, Add, JournalType
  <2> HIDE DEF j
  <2>6. Running' => Remembers(mem'.journal, calls)
    BY <2>3, <2>4, <2>5, <1>j
  <2> QED
    BY <2>2, <2>4, <2>6, <1>0, AppendStep DEF CallInv, Authorised
<1>4. CASE \/ PlanOperation /\ ~CanReserve(mem.ledger, spec, ReservationOf(at, 1))
           \/ ReserveRetry /\ ~CanReserve(mem.ledger, spec, ReservationOf(at, attempt + 1))
  <2>1. UNCHANGED durables /\ Raise
    BY <1>4 DEF PlanOperation, ReserveRetry
  <2> QED
    BY <2>1, <1>0, StillCalls DEF durables, Raise
<1> QED
  BY <1>1, <1>2, <1>3, <1>4

\* The outcome of an attempt: its record leaves "started" for good.
LEMMA OutcomeSteps ==
    ASSUME TypeInv, CallInv, RecordUnknown \/ RecordSuccess \/ RecordFailure
    PROVE  CallInv'
<1>t. ProcessOK
  BY DEF TypeInv, TypeOK
<1>m. mem \in MemType /\ mem.journal \in JournalType
  BY <1>t DEF ProcessOK, MemType
<1>0. Running /\ UNCHANGED calls /\ MemRemembers /\ pc' # "dispatched"
  BY DEF RecordUnknown, RecordSuccess, RecordFailure, Running, Goto, Raise, counters, CallInv
<1>1. at \in Ops /\ attempt \in Attempts
  BY AttemptFacts DEF RecordUnknown, RecordSuccess, RecordFailure, InAttempt
<1>2. PICK e \in EventType : AppendEvent(e) /\ e.type # "operation_reserved"
  <2>1. CASE RecordUnknown
    BY <2>1, <1>1, EventTypes DEF RecordUnknown, OperationUnknown
  <2>2. CASE RecordSuccess
    <3>1. OperationSucceeded(at, attempt, reply.usage, reply.status) \in EventType
      BY <2>2, <1>1, <1>t, EventTypes DEF RecordSuccess, ProcessOK, ReplyType
    <3> QED
      BY <2>2, <3>1 DEF RecordSuccess, OperationSucceeded
  <2>3. CASE RecordFailure
    <3>1. FailureCode \in ErrorCode /\ reply.usage \in Usage
      BY <1>t, StatusConstants DEF FailureCode, ProcessOK, ReplyType
    <3>2. OperationFailed(at, attempt, reply.usage, FailureCode) \in EventType
      BY <3>1, <1>1, EventTypes
    <3> QED
      BY <2>3, <3>2 DEF RecordFailure, OperationFailed
  <2> QED
    BY <2>1, <2>2, <2>3
<1>3. \/ ~Running'
      \/ mem'.journal \in {MarkUnknown(mem.journal, at), MarkSucceeded(mem.journal, at),
                           MarkFailed(mem.journal, at, FailureCode)}
  BY <1>m DEF RecordUnknown, RecordSuccess, RecordFailure, Raise, Goto, Running, MemType
<1>4. Running' => Remembers(mem'.journal, calls)
  <2> SUFFICES ASSUME Running', NEW op \in Ops, NEW n \in Attempts, calls[op][n] > 0
               PROVE  Consumed(mem'.journal[op], n)
    BY DEF Remembers
  <2>1. Consumed(mem.journal[op], n)
    BY <1>0 DEF MemRemembers, Remembers
  <2> QED
    BY <2>1, <1>1, <1>3, <1>m, JournalConsumes
<1> QED
  BY <1>0, <1>2, <1>4, AppendStep DEF CallInv, Authorised

\* The dispatch: the attempt was never called, and is taken from here on.
LEMMA DispatchStep ==
    ASSUME TypeInv, CallInv, Dispatch
    PROVE  CallInv'
<1>t. ProcessOK /\ CountersOK /\ view \in ViewType /\ stream \in Seq(EventType) /\ InputsOK
  BY DEF TypeInv, TypeOK, DurablesOK
<1>m. mem \in MemType /\ mem.journal \in JournalType
  BY <1>t DEF ProcessOK, MemType
<1>1. /\ at \in Ops /\ attempt \in Attempts /\ attempt \in Nat \ {0}
      /\ current \in [attempt : Attempts, status : OperationStatus, error : ErrorCode \cup {"none"}]
  BY AttemptFacts DEF Dispatch, InAttempt
<1> DEFINE e == OperationDispatched(at, attempt)
           j == StartOp(mem.journal, at, attempt)
<1>2. e \in EventType /\ e.type = "operation_dispatched" /\ e.op = at /\ e.attempt = attempt
  BY <1>1, EventTypes DEF OperationDispatched
<1>3. /\ AppendEvent(e) /\ mem'.journal = j /\ UNCHANGED <<at, calls>>
      /\ Running /\ pc' = "dispatched"
  BY <1>m DEF Dispatch, MemType, Goto, Running, counters
<1>4. calls[at][attempt] = 0
  <2>1. ~Consumed(current, attempt)
    BY <1>1 DEF Dispatch, CanStart, Consumed, current, attempt
  <2>2. ~(calls[at][attempt] > 0)
    BY <2>1, <1>1, <1>3 DEF CallInv, MemRemembers, Remembers, current
  <2>3. calls[at][attempt] \in Nat
    BY <1>1, <1>t DEF CountersOK
  <2> QED
    BY <2>2, <2>3
<1>5. Running' => Remembers(mem'.journal, calls)
  <2> SUFFICES ASSUME NEW op \in Ops, NEW n \in Attempts, calls[op][n] > 0
               PROVE  Consumed(j[op], n)
    BY <1>3 DEF Remembers
  <2>1. Consumed(mem.journal[op], n)
    BY <1>3 DEF CallInv, MemRemembers, Remembers
  <2> QED
    BY <2>1, <1>1, <1>m, JournalConsumes
<1>6. j[at].attempt = attempt /\ j[at].status = "started"
  BY <1>1, <1>m DEF StartOp, JournalType, current, attempt
<1>7. attempt' = attempt /\ Consumed(current, attempt)'
  BY <1>3, <1>6 DEF attempt, current, Consumed
<1>8. Dispatched(at, attempt)'
  <2>1. stream' = Append(stream, e)
    BY <1>3 DEF AppendEvent
  <2> HIDE DEF e
  <2>2. Len(stream) + 1 \in DOMAIN stream' /\ stream'[Len(stream) + 1] = e
    BY <2>1, <1>2, <1>t
  <2> QED
    BY <2>2, <1>2, <1>3, <1>7 DEF Dispatched, EventsOf
<1>9. view'.ok => Consumed(view'.journal[at], attempt)
  <2> SUFFICES ASSUME view'.ok PROVE Consumed(view'.journal[at], attempt)
    OBVIOUS
  <2>1. view.ok /\ view' = ReduceEvent(view, e, spec)
    BY <1>3, ReduceRejected DEF AppendEvent
  <2>2. view' = ReduceDispatched(view, e)
    BY <2>1, <1>2 DEF ReduceEvent
  <2>3. CanStart(view.journal, at, attempt)
    BY <2>2, <1>2, <1>t DEF ReduceDispatched, Rejected, ViewType
  <2>4. view'.journal = StartOp(view.journal, at, attempt)
    BY <2>2, <2>3, <1>2, <1>t DEF ReduceDispatched, ViewType
  <2>5. view.journal \in JournalType /\ view.journal[at] \in RecordType
    BY <1>1, <1>t DEF ViewType, JournalType
  <2>6. view'.journal[at] = [view.journal[at] EXCEPT !.status = "started"]
    BY <2>4, <2>5, <1>1 DEF StartOp, JournalType
  <2>7. view'.journal[at].attempt = attempt /\ view'.journal[at].status = "started"
    BY <2>3, <2>5, <2>6 DEF CanStart, IsCurrent, RecordType, Absent
  <2> QED
    BY <2>7 DEF Consumed
<1> HIDE DEF e, j
<1>10. AtMostOneCall' /\ ViewRemembers' /\ MemRemembers'
  BY <1>2, <1>3, <1>5, AppendStep
<1>11. Authorised'
  BY <1>3, <1>4, <1>7, <1>8, <1>9 DEF Authorised
<1> QED
  BY <1>10, <1>11 DEF CallInv

\* The call: the one step that counts, made once and after its dispatch.
LEMMA CallStep ==
    ASSUME TypeInv, CallInv, CallExternal
    PROVE  CallInv'
<1>1. at \in Ops /\ attempt \in Attempts /\ calls \in [Ops -> [Attempts -> Nat]]
  BY AttemptFacts DEF CallExternal, InAttempt, TypeInv, TypeOK, CountersOK
<1>2. /\ calls' = [calls EXCEPT ![at] = [calls[at] EXCEPT ![attempt] = calls[at][attempt] + 1]]
      /\ UNCHANGED <<stream, view, mem, at>> /\ pc' = "answered" /\ pc = "dispatched"
  BY DEF CallExternal, durables, Goto
<1>3. calls[at][attempt] = 0 /\ Consumed(current, attempt) /\ Dispatched(at, attempt)
      /\ (view.ok => Consumed(view.journal[at], attempt))
  BY <1>2 DEF CallInv, Authorised
<1>4. /\ calls'[at][attempt] = 1
      /\ \A op \in Ops, n \in Attempts : op # at \/ n # attempt => calls'[op][n] = calls[op][n]
  BY <1>1, <1>2, <1>3
<1>5. AtMostOneCall'
  <2> SUFFICES ASSUME NEW op \in Ops, NEW n \in Attempts
               PROVE  calls'[op][n] <= 1 /\ (calls'[op][n] = 1 => Dispatched(op, n)')
    BY DEF AtMostOneCall
  <2>1. Dispatched(op, n)' = Dispatched(op, n)
    BY <1>2 DEF Dispatched, EventsOf
  <2>2. calls[op][n] <= 1 /\ (calls[op][n] = 1 => Dispatched(op, n))
    BY DEF CallInv, AtMostOneCall
  <2>3. CASE op = at /\ n = attempt
    BY <2>1, <2>3, <1>3, <1>4
  <2>4. CASE op # at \/ n # attempt
    BY <2>1, <2>2, <2>4, <1>4
  <2> QED
    BY <2>3, <2>4
<1>6. ViewRemembers'
  BY <1>2, <1>3, <1>4 DEF CallInv, ViewRemembers, Remembers
<1>7. MemRemembers'
  BY <1>2, <1>3, <1>4 DEF CallInv, MemRemembers, Remembers, Running, current
<1> QED
  BY <1>2, <1>5, <1>6, <1>7 DEF CallInv, Authorised

\* A new process takes over what a replay of the stream remembers.
LEMMA StartStep ==
    ASSUME TypeInv, CallInv, Start
    PROVE  CallInv'
<1>1. view \in ViewType /\ view.ok /\ UNCHANGED calls
  BY DEF TypeInv, TypeOK, DurablesOK, Start
<1>2. Remembers(Finalize(view).journal, calls)
  BY <1>1, FinalizeRemembers DEF CallInv, ViewRemembers
<1>3. mem'.journal = Finalize(view).journal /\ pc' # "dispatched"
  BY DEF Start, Goto
<1>4. CASE stream = <<>>
  <2>1. AppendEvent(RunStarted) /\ RunStarted \in EventType /\ RunStarted.type # "operation_reserved"
    BY <1>4, EventTypes DEF Start, RunStarted
  <2> QED
    BY <2>1, <1>1, <1>2, <1>3, AppendStep DEF CallInv, Authorised
<1>5. CASE stream # <<>>
  <2>1. UNCHANGED <<stream, view>>
    BY <1>5 DEF Start, durables
  <2>2. AtMostOneCall' /\ ViewRemembers'
    BY <2>1, <1>1 DEF CallInv, AtMostOneCall, ViewRemembers, Remembers, Dispatched, EventsOf
  <2> QED
    BY <2>2, <1>1, <1>2, <1>3 DEF CallInv, MemRemembers, Authorised
<1> QED
  BY <1>4, <1>5

\* The steps that write no event.
LEMMA QuietCalls ==
    ASSUME TypeInv, CallInv,
           \/ SkipSucceeded \/ GiveUp \/ TakeUpAttempt \/ RetryScheduledBefore
           \/ DispatchTooLate \/ DispatchRejected \/ LoopExhausted \/ FinishWithoutLifecycle
           \/ WriteCheckpoint \/ RequestCancel \/ Crash \/ CrashWhileAppending \/ StartRejected
           \/ UNCHANGED vars
    PROVE  CallInv'
<1>1. UNCHANGED <<stream, view, calls, mem>>
  BY DEF SkipSucceeded, GiveUp, TakeUpAttempt, RetryScheduledBefore, DispatchTooLate, DispatchRejected,
         LoopExhausted, FinishWithoutLifecycle, WriteCheckpoint, RequestCancel, Crash,
         CrashWhileAppending, StartRejected, Raise, durables, counters, process, vars
<1>2. /\ Running' => Running
      /\ pc' # "dispatched" \/ UNCHANGED <<pc, at>>
  BY DEF SkipSucceeded, GiveUp, TakeUpAttempt, RetryScheduledBefore, DispatchTooLate, DispatchRejected,
         LoopExhausted, FinishWithoutLifecycle, WriteCheckpoint, RequestCancel, Crash,
         CrashWhileAppending, StartRejected, Raise, Goto, MovedOn, Running, AtOperation, Undecided,
         Proceeds, Retries, process, vars
<1> QED
  BY <1>1, <1>2, StillCalls

\* Nothing is called before the first process starts.
LEMMA InitCalls == Init => CallInv
<1> SUFFICES ASSUME Init PROVE CallInv
  OBVIOUS
<1>1. /\ \A op \in Ops, n \in Attempts : calls[op][n] = 0
      /\ pc = "down"
  BY DEF Init, Attempts
<1> QED
  BY <1>1 DEF CallInv, AtMostOneCall, ViewRemembers, MemRemembers, Remembers, Authorised, Running

\* Every step keeps the invariant.
THEOREM StepCallInv == TypeInv /\ CallInv /\ [Next]_vars => CallInv'
<1> SUFFICES ASSUME TypeInv, CallInv, [Next]_vars PROVE CallInv'
  OBVIOUS
<1>1. CASE UNCHANGED vars \/ RequestCancel \/ Crash \/ CrashWhileAppending
  BY <1>1, QuietCalls
<1>2. CASE Launch
  BY <1>2, StartStep, QuietCalls DEF Launch
<1>3. CASE ApproveBrief \/ BeginResearch
  BY <1>3, PlainSteps
<1>4. CASE Looping
  BY <1>4, QuietCalls, PlainSteps, ReserveSteps DEF Looping
<1>5. CASE Attempting
  BY <1>5, QuietCalls, PlainSteps, ReserveSteps, DispatchStep, CallStep, OutcomeSteps DEF Attempting
<1>6. CASE Finishing
  BY <1>6, QuietCalls, PlainSteps DEF Finishing
<1> QED
  BY <1>1, <1>2, <1>3, <1>4, <1>5, <1>6 DEF Next, Execute

\* AtMostOneCall holds in every reachable state, for every script, budget,
\* retry schedule, number of processes and choice of crash points: an attempt
\* is called at most once, and only after its dispatch is on disk.
THEOREM CalledAtMostOnce == Spec => []AtMostOneCall
<1>1. Spec => [](TypeInv /\ CallInv)
  <2>1. Init => TypeInv /\ CallInv
    BY InitType, InitCalls
  <2>2. TypeInv /\ CallInv /\ [Next]_vars => (TypeInv /\ CallInv)'
    BY StepTypeInv, StepCallInv
  <2> QED
    BY <2>1, <2>2, PTL DEF Spec
<1>2. CallInv => AtMostOneCall
  BY DEF CallInv
<1> QED
  BY <1>1, <1>2, PTL

---------------------------------------------------------------------------
(* The books of a run *)

\* The record of an operation that the stream determines.
Entry(op) == view.journal[op]

\* What a replay makes of a record: an attempt in flight is lost, and the
\* error that a reserved one carries over is not looked at.
Settled(r) ==
    IF r.status \in {"started", "outcome_unknown"}
    THEN [r EXCEPT !.status = "outcome_unknown", !.error = "unknown_outcome"]
    ELSE IF r.status = "reserved" THEN [r EXCEPT !.error = "none"] ELSE r

\* A lost outcome has the error code of one.
Concluded(j) == \A op \in Ops : j[op].status = "outcome_unknown" => j[op].error = "unknown_outcome"

\* A process that runs has the books of a replay of its stream.
Agreement ==
    Running =>
        /\ view.ok
        /\ mem.status = view.status
        /\ mem.ledger = [view.ledger EXCEPT !.elapsed = mem.ledger.elapsed]
        /\ \A op \in Ops : Settled(mem.journal[op]) = Settled(Entry(op))
        /\ Concluded(mem.journal)

\* Statuses of an attempt whose reservation is outstanding.
Open == {"reserved", "started", "outcome_unknown"}
OpenOps == {op \in DOMAIN Operations : Entry(op).status \in Open}

\* An operation is touched only when all before it have succeeded.
InOrder ==
    \A op \in Ops : Entry(op).status # "absent" =>
        /\ op \in DOMAIN Operations
        /\ \A p \in DOMAIN Operations : p < op => Entry(p).status = "succeeded"

\* The records the stream can leave: none is only planned, and only a first
\* attempt is cancelled.
Recorded ==
    /\ Concluded(view.journal)
    /\ \A op \in Ops : /\ Entry(op).status # "planned"
                       /\ Entry(op).status = "cancelled_before_dispatch" => Entry(op).attempt = 1

\* The ledger holds exactly the reservations of the attempts that are open.
HeldExactly == view.ledger.reservations = {ReservationOf(op, Entry(op).attempt) : op \in OpenOps}

\* Only attempts that are over were charged.
ChargedPast ==
    \A c \in view.ledger.charges :
        /\ c.op \in DOMAIN Operations
        /\ \/ c.attempt < Entry(c.op).attempt
           \/ c.attempt = Entry(c.op).attempt /\ Entry(c.op).status \in {"succeeded", "failed_known"}

\* A run is closed as complete, or about to be, when every operation succeeded.
ClosedWhenDone ==
    view.status \in {"validating", "complete"} =>
        \A op \in DOMAIN Operations : Entry(op).status = "succeeded"

\* What is reserved can be charged: without the reservation itself, there is
\* room for its usage and its call.
HeldAffordable ==
    \A op \in OpenOps :
        Affordable(Release(view.ledger, op, Entry(op).attempt), spec, KindOf(op),
                   Answer(op, Entry(op).attempt).usage, FALSE)

Books == InOrder /\ Recorded /\ HeldExactly /\ HeldAffordable /\ ChargedPast /\ ClosedWhenDone

\* Where the loop stands: everything before its operation has succeeded, and
\* its control point tells the status of the operation's record.
LoopStands ==
    Running =>
        /\ \A p \in DOMAIN Operations : p < at => Entry(p).status = "succeeded"
        /\ pc \in {"dispatched", "answered"} => Entry(at).status = "started"
        /\ pc = "answered" => reply.usage = Answer(at, attempt).usage
        /\ pc \in {"schedule", "backoff", "rereserve"} => Entry(at).status = "failed_known"
        /\ pc = "replan" => Entry(at).status = "succeeded"
        /\ pc = "settle" => Entry(at).status # "started"
        /\ pc = "settle" /\ Entry(at).status = "outcome_unknown" => verdict.terminal # "complete"
        /\ pc = "finish" /\ verdict.terminal = "complete" => at > Len(Operations)

\* A stream is rejected by nothing but the limit on retries, which is looked at
\* when an attempt that is in flight is charged.
RejectedByRetries ==
    ~view.ok => \E op \in Ops : /\ Entry(op).status = "started"
                                /\ ~Within(view.ledger.retries + Entry(op).attempt - 1, spec.maxRetries)

BookInv == Agreement /\ Books /\ LoopStands /\ RejectedByRetries

---------------------------------------------------------------------------
(* Ledgers that differ in their elapsed time only *)

Tokens(S) == MapThenSumSet(LAMBDA r : Total(r.usage), S)

\* The tokens reserved depend on nothing but the reservations.
LEMMA TokensOf == \A l : ReservedTokens(l) = Tokens(l.reservations)
BY DEF ReservedTokens, Tokens

\* The ledger of a process that has its own clock, field by field.
LEMMA OwnClock ==
    ASSUME NEW l \in LedgerType, NEW x \in Nat
    PROVE  LET m == [l EXCEPT !.elapsed = x]
           IN  /\ m \in LedgerType
               /\ m.calls = l.calls /\ m.input = l.input /\ m.output = l.output
               /\ m.retries = l.retries /\ m.replans = l.replans
               /\ m.reservations = l.reservations /\ m.charges = l.charges
               /\ m.elapsed = x
BY DEF LedgerType

\* What is affordable does not depend on the time that has elapsed.
LEMMA SameAffordable ==
    ASSUME NEW a, NEW b, a.calls = b.calls, a.input = b.input, a.output = b.output,
           a.reservations = b.reservations, NEW s, NEW kind, NEW usage, NEW w
    PROVE  Affordable(a, s, kind, usage, w) <=> Affordable(b, s, kind, usage, w)
<1>1. ReservedTokens(a) = ReservedTokens(b)
  BY TokensOf
<1> QED
  BY <1>1 DEF Affordable

\* Such a process draws the same conclusions about its budget.
LEMMA SameChecks ==
    ASSUME NEW l \in LedgerType, NEW x \in Nat, NEW m, m = [l EXCEPT !.elapsed = x], NEW s
    PROVE  /\ \A op, n : Held(m, op, n) <=> Held(l, op, n)
           /\ \A r : CanReserve(m, s, r) <=> CanReserve(l, s, r)
           /\ \A c : CanReconcile(m, s, c) <=> CanReconcile(l, s, c)
<1>1. /\ m.calls = l.calls /\ m.input = l.input /\ m.output = l.output
      /\ m.retries = l.retries /\ m.reservations = l.reservations /\ m.charges = l.charges
  BY OwnClock
<1>2. \A op, n : Held(m, op, n) <=> Held(l, op, n)
  BY <1>1 DEF Held
<1>3. \A op, n : Charged(m, op, n) <=> Charged(l, op, n)
  BY <1>1 DEF Charged
<1>4. ASSUME NEW r
      PROVE  CanReserve(m, s, r) <=> CanReserve(l, s, r)
  <2>1. Affordable(m, s, r.kind, r.usage, TRUE) <=> Affordable(l, s, r.kind, r.usage, TRUE)
    BY <1>1, SameAffordable
  <2> QED
    BY <2>1, <1>1, <1>2, <1>3 DEF CanReserve
<1>5. ASSUME NEW c
      PROVE  CanReconcile(m, s, c) <=> CanReconcile(l, s, c)
  <2> DEFINE a == Release(m, c.op, c.attempt)
             b == Release(l, c.op, c.attempt)
  <2>1. a.calls = b.calls /\ a.input = b.input /\ a.output = b.output
        /\ a.reservations = b.reservations
    BY <1>1 DEF Release, LedgerType
  <2> HIDE DEF a, b
  <2>2. Affordable(a, s, c.kind, c.usage, FALSE) <=> Affordable(b, s, c.kind, c.usage, FALSE)
    BY <2>1, SameAffordable
  <2> QED
    BY <2>2, <1>1, <1>3 DEF CanReconcile, a, b
<1> QED
  BY <1>2, <1>4, <1>5

\* And the same entries keep the two ledgers alike.
LEMMA SameUpdates ==
    ASSUME NEW l \in LedgerType, NEW x \in Nat, NEW m, m = [l EXCEPT !.elapsed = x]
    PROVE  /\ \A r : Reserve(m, r) = [Reserve(l, r) EXCEPT !.elapsed = x]
           /\ \A c \in ChargeType : Reconcile(m, c) = [Reconcile(l, c) EXCEPT !.elapsed = x]
           /\ RecordReplan(m) = [RecordReplan(l) EXCEPT !.elapsed = x]
           /\ \A seconds : m = [RecordElapsed(l, seconds) EXCEPT !.elapsed = x]
<1>1. m.charges = l.charges
  BY OwnClock
<1>2. \A r : Reserve(m, r) = [Reserve(l, r) EXCEPT !.elapsed = x]
  BY DEF Reserve, LedgerType
<1>3. ASSUME NEW c \in ChargeType
      PROVE  Reconcile(m, c) = [Reconcile(l, c) EXCEPT !.elapsed = x]
  <2>1. Release(m, c.op, c.attempt) = [Release(l, c.op, c.attempt) EXCEPT !.elapsed = x]
    BY DEF Release, LedgerType
  <2>2. Release(l, c.op, c.attempt) \in LedgerType
    BY DEF Release, LedgerType
  <2> DEFINE a == Release(l, c.op, c.attempt)
  <2> HIDE DEF a
  <2>3. LET b == [a EXCEPT !.elapsed = x]
        IN  [b EXCEPT !.calls[c.kind] = @ + 1, !.input = @ + c.usage.input,
                      !.output = @ + c.usage.output, !.retries = @ + c.attempt - 1,
                      !.charges = @ \cup {c}]
            = [[a EXCEPT !.calls[c.kind] = @ + 1, !.input = @ + c.usage.input,
                         !.output = @ + c.usage.output, !.retries = @ + c.attempt - 1,
                         !.charges = @ \cup {c}] EXCEPT !.elapsed = x]
    BY <2>2 DEF a, LedgerType
  <2> QED
    BY <1>1, <2>1, <2>3 DEF Reconcile, a
<1>4. RecordReplan(m) = [RecordReplan(l) EXCEPT !.elapsed = x]
  BY DEF RecordReplan, LedgerType
<1>5. \A seconds : m = [RecordElapsed(l, seconds) EXCEPT !.elapsed = x]
  BY DEF RecordElapsed, LedgerType
<1> QED
  BY <1>2, <1>3, <1>4, <1>5

---------------------------------------------------------------------------
(* The records of the process and those of the stream *)

\* The records of both sides are records.
LEMMA EntryTypes ==
    ASSUME TypeInv, NEW op \in Ops
    PROVE  /\ Entry(op) \in RecordType /\ mem.journal[op] \in RecordType
           /\ Entry(op).attempt \in Nat /\ Entry(op).status \in OperationStatus \cup {"absent"}
           /\ Entry(op).status = "absent" => Entry(op).attempt = 0
           /\ Entry(op).status # "absent" =>
                 Entry(op) \in [attempt : Attempts, status : OperationStatus,
                                error : ErrorCode \cup {"none"}]
<1>1. Entry(op) \in RecordType /\ mem.journal[op] \in RecordType
  BY DEF TypeInv, TypeOK, DurablesOK, ProcessOK, ViewType, MemType, JournalType, Entry
<1>2. Attempts \subseteq Nat
  BY ConfigurationTypes DEF TypeInv, TypeOK
<1>3. Entry(op) = Absent \/ Entry(op) \in [attempt : Attempts, status : OperationStatus,
                                           error : ErrorCode \cup {"none"}]
  BY <1>1 DEF RecordType
<1>4. CASE Entry(op) = Absent
  <2>1. Absent.attempt = 0 /\ Absent.status = "absent"
    BY DEF Absent
  <2> QED
    BY <1>1, <1>4, <2>1
<1>5. CASE Entry(op) # Absent
  <2>1. Entry(op).attempt \in Attempts /\ Entry(op).status \in OperationStatus
        /\ Entry(op).status # "absent"
    BY <1>3, <1>5 DEF OperationStatus
  <2> QED
    BY <1>1, <1>2, <1>3, <1>5, <2>1
<1> QED
  BY <1>4, <1>5

\* What is on disk and in memory, as the lemmas about the reducer want it.
LEMMA BookTypes ==
    ASSUME TypeInv
    PROVE  /\ InputsOK /\ DurablesOK /\ ProcessOK /\ CountersOK /\ Control
           /\ view \in ViewType /\ view.ledger \in LedgerType /\ view.journal \in JournalType
           /\ mem \in MemType /\ mem.ledger \in LedgerType /\ mem.journal \in JournalType
           /\ mem.ledger.elapsed \in Nat
           /\ stream \in Seq(EventType)
BY DEF TypeInv, TypeOK, DurablesOK, ProcessOK, ViewType, MemType, LedgerType

\* Two records that settle alike are of the same attempt, and of the same
\* status unless one of them is in flight.
LEMMA SettledAlike ==
    ASSUME NEW r \in RecordType, NEW q \in RecordType, Settled(r) = Settled(q)
    PROVE  /\ r.attempt = q.attempt
           /\ \A s \in {"absent", "planned", "reserved", "succeeded", "failed_known",
                        "cancelled_before_dispatch"} : r.status = s <=> q.status = s
           /\ r.status \in {"started", "outcome_unknown"} <=> q.status \in {"started", "outcome_unknown"}
           /\ r.status \notin {"started", "outcome_unknown", "reserved"} => r = q
<1>1. \A p \in RecordType :
        /\ Settled(p).attempt = p.attempt
        /\ Settled(p).status = IF p.status \in {"started", "outcome_unknown"} THEN "outcome_unknown"
                               ELSE p.status
        /\ p.status \notin {"started", "outcome_unknown", "reserved"} => Settled(p) = p
  BY DEF RecordType, Absent, Settled
<1> QED
  BY <1>1

\* What the process reads in its own journal about an operation.
LEMMA MemEntry ==
    ASSUME TypeInv, Agreement, Running, NEW op \in Ops
    PROVE  /\ mem.journal[op].attempt = Entry(op).attempt
           /\ \A s \in {"absent", "planned", "reserved", "succeeded", "failed_known",
                        "cancelled_before_dispatch"} :
                 mem.journal[op].status = s <=> Entry(op).status = s
           /\ mem.journal[op].status \in {"started", "outcome_unknown"}
                 <=> Entry(op).status \in {"started", "outcome_unknown"}
           /\ mem.journal[op].status \notin {"started", "outcome_unknown", "reserved"} =>
                 mem.journal[op] = Entry(op)
BY EntryTypes, SettledAlike DEF Agreement

\* And in its own ledger.
LEMMA MemLedger ==
    ASSUME TypeInv, Agreement, Running, NEW s
    PROVE  /\ \A op, n : Held(mem.ledger, op, n) <=> Held(view.ledger, op, n)
           /\ \A r : CanReserve(mem.ledger, s, r) <=> CanReserve(view.ledger, s, r)
           /\ \A c : CanReconcile(mem.ledger, s, c) <=> CanReconcile(view.ledger, s, c)
           /\ mem.ledger.replans = view.ledger.replans
           /\ mem.ledger.reservations = view.ledger.reservations
<1> DEFINE l == view.ledger
           x == mem.ledger.elapsed
           m == mem.ledger
<1>1. l \in LedgerType /\ x \in Nat /\ m = [l EXCEPT !.elapsed = x]
  BY BookTypes DEF Agreement
<1> HIDE DEF l, x, m
<1>2. /\ \A op, n : Held(m, op, n) <=> Held(l, op, n)
      /\ \A r : CanReserve(m, s, r) <=> CanReserve(l, s, r)
      /\ \A c : CanReconcile(m, s, c) <=> CanReconcile(l, s, c)
  BY <1>1, SameChecks
<1>3. m.replans = l.replans /\ m.reservations = l.reservations
  BY <1>1, OwnClock
<1> QED
  BY <1>2, <1>3 DEF l, m

\* The operation of the loop, while it is looked at or attempted.
AtWork == pc \in InAttempt \/ AtOperation

\* It is an operation of the script, and there is a process to work on it.
LEMMA WorkFacts ==
    ASSUME TypeInv, AtWork
    PROVE  at \in DOMAIN Operations /\ at \in Ops /\ at \in Nat \ {0} /\ Running
<1>1. InputsOK /\ ProcessOK /\ Control
  BY BookTypes
<1>2. at \in DOMAIN Operations
  BY <1>1, ConfigurationTypes DEF AtWork, Control, AtOperation, ProcessOK
<1>3. Running
  BY DEF AtWork, AtOperation, InAttempt, Running
<1> QED
  BY <1>1, <1>2, <1>3, ScriptTypes, ConfigurationTypes

\* No operation but that of the loop can be open, unless it is done.
LEMMA OpenAtLoop ==
    ASSUME TypeInv, InOrder, NEW o \in DOMAIN Operations, Entry(o).status # "succeeded",
           \A p \in DOMAIN Operations : p < o => Entry(p).status = "succeeded"
    PROVE  /\ \A op \in Ops : op # o /\ op \in DOMAIN Operations => op < o \/ op > o
           /\ \A op \in Ops : op > o => Entry(op).status = "absent"
           /\ \A op \in Ops : op \notin DOMAIN Operations => Entry(op).status = "absent"
           /\ \A op \in OpenOps : op = o
<1>1. DOMAIN Operations \subseteq Nat /\ DOMAIN Operations \subseteq Ops /\ Ops \subseteq Nat
  BY BookTypes, ConfigurationTypes, ScriptTypes
<1>2. \A op \in Ops : op > o => Entry(op).status = "absent"
  BY <1>1 DEF InOrder
<1>3. \A op \in OpenOps : op = o
  BY <1>1, <1>2 DEF OpenOps, Open
<1> QED
  BY <1>1, <1>2, <1>3 DEF InOrder

---------------------------------------------------------------------------
(* What the reducer makes of the events it accepts *)

\* A view with another record for an operation, and another ledger.
WithEntry(v, op, rec, l) == [v EXCEPT !.ledger = l, !.journal = [v.journal EXCEPT ![op] = rec]]

\* The fields of such a view.
LEMMA WithEntryFields ==
    ASSUME NEW v \in ViewType, NEW op \in Ops, NEW rec, NEW l
    PROVE  LET w == WithEntry(v, op, rec, l)
           IN  /\ w.ok = v.ok /\ w.status = v.status /\ w.ledger = l
               /\ w.journal[op] = rec
               /\ \A p \in Ops : p # op => w.journal[p] = v.journal[p]
BY DEF WithEntry, ViewType, JournalType

\* operation_reserved of a new operation, or of a later attempt.
LEMMA AcceptReserved ==
    ASSUME NEW v \in ViewType, v.ok, NEW op \in Ops, NEW n \in Attempts, NEW kind, NEW usage, NEW s,
           NEW r, r = [op |-> op, attempt |-> n, kind |-> kind, usage |-> usage],
           CanReserve(v.ledger, s, r), ~Present(v.journal, op) \/ v.journal[op].attempt # n
    PROVE  ReduceEvent(v, OperationReserved(op, n, kind, usage), s)
             = WithEntry(v, op, [attempt |-> n, status |-> "reserved", error |-> "none"],
                         Reserve(v.ledger, r))
<1> DEFINE j == WithAttempt(v.journal, op, n)
           planned == [attempt |-> n, status |-> "planned", error |-> "none"]
           rec == [attempt |-> n, status |-> "reserved", error |-> "none"]
<1>t. v.journal \in JournalType /\ DOMAIN v.journal = Ops
  BY DEF ViewType, JournalType
<1>1. j = [v.journal EXCEPT ![op] = planned]
  BY DEF WithAttempt, Add, NewAttempt
<1>2. j[op] = planned
  BY <1>1, <1>t
<1>3. CanReserveOp(j, op, n)
  BY <1>2 DEF CanReserveOp, IsCurrent, Present
<1>4. ReserveOp(j, op, n) = [v.journal EXCEPT ![op] = rec]
  BY <1>1, <1>2, <1>t DEF ReserveOp
<1> HIDE DEF j, rec
<1>5. ReduceEvent(v, OperationReserved(op, n, kind, usage), s)
        = ReduceReserved(v, OperationReserved(op, n, kind, usage), s)
  BY DEF ReduceEvent, OperationReserved
<1>6. ReduceReserved(v, OperationReserved(op, n, kind, usage), s)
        = [v EXCEPT !.ledger = Reserve(v.ledger, r), !.journal = ReserveOp(j, op, n)]
  BY <1>3 DEF ReduceReserved, OperationReserved, j
<1> QED
  BY <1>4, <1>5, <1>6 DEF WithEntry, rec

\* operation_dispatched of an attempt that is reserved.
LEMMA AcceptDispatched ==
    ASSUME NEW v \in ViewType, v.ok, NEW op \in Ops, NEW n, NEW s,
           v.journal[op].status = "reserved", v.journal[op].attempt = n
    PROVE  ReduceEvent(v, OperationDispatched(op, n), s)
             = WithEntry(v, op, [v.journal[op] EXCEPT !.status = "started"], v.ledger)
<1>1. CanStart(v.journal, op, n)
  BY DEF CanStart, IsCurrent, Present
<1>2. ReduceEvent(v, OperationDispatched(op, n), s)
        = [v EXCEPT !.journal = StartOp(v.journal, op, n)]
  BY <1>1 DEF ReduceEvent, ReduceDispatched, OperationDispatched
<1>3. StartOp(v.journal, op, n) = [v.journal EXCEPT ![op] = [v.journal[op] EXCEPT !.status = "started"]]
  BY DEF StartOp, ViewType, JournalType
<1> QED
  BY <1>2, <1>3 DEF WithEntry, ViewType

\* operation_unknown of an attempt that holds a reservation.
LEMMA AcceptUnknown ==
    ASSUME NEW v \in ViewType, v.ok, NEW op \in Ops, NEW n, NEW s,
           Held(v.ledger, op, n), IsCurrent(v.journal, op, n)
    PROVE  ReduceEvent(v, OperationUnknown(op, n), s)
             = WithEntry(v, op, [v.journal[op] EXCEPT !.status = "outcome_unknown",
                                                      !.error = "unknown_outcome"], v.ledger)
<1>1. ReduceEvent(v, OperationUnknown(op, n), s) = [v EXCEPT !.journal = MarkUnknown(v.journal, op)]
  BY DEF ReduceEvent, ReduceUnknown, OperationUnknown, CanMark
<1>2. MarkUnknown(v.journal, op)
        = [v.journal EXCEPT ![op] = [v.journal[op] EXCEPT !.status = "outcome_unknown",
                                                          !.error = "unknown_outcome"]]
  BY DEF MarkUnknown, SetStatus, ViewType, JournalType
<1> QED
  BY <1>1, <1>2 DEF WithEntry, ViewType

\* operation_succeeded of an attempt that holds a reservation: charged when the
\* ledger takes the charge, rejected otherwise.
LEMMA AcceptSucceeded ==
    ASSUME NEW v \in ViewType, v.ok, NEW op \in Ops, NEW n, NEW usage, NEW answer, NEW s,
           Held(v.ledger, op, n), IsCurrent(v.journal, op, n),
           NEW e, e = OperationSucceeded(op, n, usage, answer),
           NEW c, c = ChargeFor(v.ledger, e, "succeeded")
    PROVE  ReduceEvent(v, e, s) =
             IF CanReconcile(v.ledger, s, c)
             THEN WithEntry(v, op, [v.journal[op] EXCEPT !.status = "succeeded", !.error = "none"],
                            Reconcile(v.ledger, c))
             ELSE Rejected(v)
<1>1. e.type = "operation_succeeded" /\ e.op = op /\ e.attempt = n
  BY DEF OperationSucceeded
<1>2. MarkSucceeded(v.journal, op)
        = [v.journal EXCEPT ![op] = [v.journal[op] EXCEPT !.status = "succeeded", !.error = "none"]]
  BY DEF MarkSucceeded, SetStatus, ViewType, JournalType
<1>3. ReduceEvent(v, e, s) = ReduceSucceeded(v, e, s)
  BY <1>1 DEF ReduceEvent
<1>4. CanSettle(v, e, "succeeded", s) <=> CanReconcile(v.ledger, s, c)
  BY <1>1 DEF CanSettle, CanMark
<1>5. ReduceSucceeded(v, e, s) =
        IF CanSettle(v, e, "succeeded", s)
        THEN [v EXCEPT !.ledger = Reconcile(v.ledger, c), !.journal = MarkSucceeded(v.journal, op)]
        ELSE Rejected(v)
  BY <1>1 DEF ReduceSucceeded
<1> QED
  BY <1>2, <1>3, <1>4, <1>5 DEF WithEntry

\* operation_failed, the same way.
LEMMA AcceptFailed ==
    ASSUME NEW v \in ViewType, v.ok, NEW op \in Ops, NEW n, NEW usage, NEW code, NEW s,
           Held(v.ledger, op, n), IsCurrent(v.journal, op, n),
           NEW e, e = OperationFailed(op, n, usage, code),
           NEW c, c = ChargeFor(v.ledger, e, "failed_known")
    PROVE  ReduceEvent(v, e, s) =
             IF CanReconcile(v.ledger, s, c)
             THEN WithEntry(v, op, [v.journal[op] EXCEPT !.status = "failed_known", !.error = code],
                            Reconcile(v.ledger, c))
             ELSE Rejected(v)
<1>1. e.type = "operation_failed" /\ e.op = op /\ e.attempt = n /\ e.code = code
  BY DEF OperationFailed
<1>2. MarkFailed(v.journal, op, code)
        = [v.journal EXCEPT ![op] = [v.journal[op] EXCEPT !.status = "failed_known", !.error = code]]
  BY DEF MarkFailed, SetStatus, ViewType, JournalType
<1>3. ReduceEvent(v, e, s) = ReduceFailed(v, e, s)
  BY <1>1 DEF ReduceEvent
<1>4. CanSettle(v, e, "failed_known", s) <=> CanReconcile(v.ledger, s, c)
  BY <1>1 DEF CanSettle, CanMark
<1>5. ReduceFailed(v, e, s) =
        IF CanSettle(v, e, "failed_known", s)
        THEN [v EXCEPT !.ledger = Reconcile(v.ledger, c), !.journal = MarkFailed(v.journal, op, code)]
        ELSE Rejected(v)
  BY <1>1 DEF ReduceFailed
<1> QED
  BY <1>2, <1>3, <1>4, <1>5 DEF WithEntry

\* operation_cancelled of an operation that was never planned.
LEMMA AcceptCancelled ==
    ASSUME NEW v \in ViewType, v.ok, NEW op \in Ops, NEW n, NEW s, ~Present(v.journal, op)
    PROVE  ReduceEvent(v, OperationCancelled(op, n), s)
             = WithEntry(v, op, [attempt |-> n, status |-> "cancelled_before_dispatch",
                                 error |-> "none"], v.ledger)
<1> DEFINE j == Add(v.journal, op, n)
           planned == [attempt |-> n, status |-> "planned", error |-> "none"]
           rec == [attempt |-> n, status |-> "cancelled_before_dispatch", error |-> "none"]
<1>t. DOMAIN v.journal = Ops
  BY DEF ViewType, JournalType
<1>1. j = [v.journal EXCEPT ![op] = planned] /\ j[op] = planned
  BY <1>t DEF Add
<1>2. CanCancel(j, op, n)
  BY <1>1 DEF CanCancel, IsCurrent, Present
<1>3. CancelBeforeDispatch(j, op) = [v.journal EXCEPT ![op] = rec]
  BY <1>1, <1>t DEF CancelBeforeDispatch
<1> HIDE DEF j, rec
<1>4. ReduceEvent(v, OperationCancelled(op, n), s) = [v EXCEPT !.journal = CancelBeforeDispatch(j, op)]
  BY <1>2 DEF ReduceEvent, ReduceCancelled, OperationCancelled, j
<1> QED
  BY <1>3, <1>4 DEF WithEntry, rec, ViewType

\* The events that say something to a later process, and nothing to the books.
LEMMA AcceptNotes ==
    ASSUME NEW v, v.ok, NEW s
    PROVE  /\ ReduceEvent(v, RunStarted, s) = v
           /\ \A op, n, delay : ReduceEvent(v, RetryScheduled(op, n, delay), s) = v
BY DEF ReduceEvent, RunStarted, RetryScheduled

\* lifecycle_transition from the status the run has.
LEMMA AcceptLifecycle ==
    ASSUME NEW v, v.ok, NEW s, NEW to, CanTransition(v.status, to)
    PROVE  ReduceEvent(v, Lifecycle(v.status, to), s) = [v EXCEPT !.status = to]
BY DEF ReduceEvent, Lifecycle, ReduceLifecycle

\* replan_decided, which counts when the replan was admitted.
LEMMA AcceptReplan ==
    ASSUME NEW v, v.ok, NEW s, NEW op, NEW n
    PROVE  /\ ReduceEvent(v, ReplanDecided(op, n, FALSE), s) = v
           /\ CanRecordReplan(v.ledger, s) =>
                 ReduceEvent(v, ReplanDecided(op, n, TRUE), s)
                   = [v EXCEPT !.ledger = RecordReplan(v.ledger)]
BY DEF ReduceEvent, ReplanDecided, ReduceReplan

\* elapsed_recorded.
LEMMA AcceptElapsed ==
    ASSUME NEW v, v.ok, NEW s, NEW seconds, NEW delay
    PROVE  ReduceEvent(v, ElapsedRecorded(seconds, delay), s)
             = [v EXCEPT !.ledger = RecordElapsed(v.ledger, seconds)]
BY DEF ReduceEvent, ElapsedRecorded

---------------------------------------------------------------------------
(* What each step does to the books *)

\* The reservation of an open operation, as the ledger holds it.
LEMMA HeldWhenOpen ==
    ASSUME TypeInv, HeldExactly, NEW op, op \in OpenOps
    PROVE  /\ ReservationOf(op, Entry(op).attempt) \in view.ledger.reservations
           /\ Held(view.ledger, op, Entry(op).attempt)
           /\ ReservedKind(view.ledger, op, Entry(op).attempt) = KindOf(op)
<1>1. ReservationOf(op, Entry(op).attempt) \in view.ledger.reservations
  BY DEF HeldExactly
<1>2. \A r \in view.ledger.reservations : r.op = op => r.kind = KindOf(op)
  BY DEF HeldExactly, ReservationOf
<1>3. Held(view.ledger, op, Entry(op).attempt)
  BY <1>1 DEF Held, ReservationOf
<1> QED
  BY <1>1, <1>2, <1>3 DEF ReservedKind, Held

\* And the other way round.
LEMMA OpenWhenHeld ==
    ASSUME HeldExactly, NEW op, NEW n, Held(view.ledger, op, n)
    PROVE  op \in OpenOps /\ Entry(op).attempt = n
BY DEF HeldExactly, Held, ReservationOf

\* A reservation: of the first attempt of an operation that was never planned,
\* or of the attempt after a failure, when nothing else is outstanding.
LEMMA ReserveEffect ==
    ASSUME TypeInv, BookInv, NEW n, NEW r, r = ReservationOf(at, n), CanReserve(mem.ledger, spec, r),
           \/ PlanOperation /\ n = 1
           \/ ReserveRetry /\ n = attempt + 1
    PROVE  /\ at \in DOMAIN Operations /\ at \in Ops /\ Running /\ n \in Attempts
           /\ \/ Entry(at).status = "absent" /\ n = 1
              \/ Entry(at).status = "failed_known" /\ n = Entry(at).attempt + 1
           /\ view.ok /\ view.ledger.reservations = {}
           /\ r \in ReservationType /\ r.kind = KindOf(at) /\ r.usage = Answer(at, n).usage
           /\ Affordable(view.ledger, spec, r.kind, r.usage, TRUE)
           /\ stream' = Append(stream, OperationReserved(at, n, r.kind, r.usage))
           /\ view' = WithEntry(view, at, [attempt |-> n, status |-> "reserved", error |-> "none"],
                                Reserve(view.ledger, r))
           /\ \E error : mem' = WithEntry(mem, at, [attempt |-> n, status |-> "reserved",
                                                    error |-> error], Reserve(mem.ledger, r))
           /\ Goto("attempt") /\ UNCHANGED <<inputs, at, clock, cancelled, reply, verdict, counters,
                                             torn, checkpoint>>
<1>t. InputsOK /\ Control /\ view \in ViewType /\ mem \in MemType /\ Agreement /\ Books /\ LoopStands
  BY BookTypes DEF BookInv
<1>w. AtWork
  BY DEF PlanOperation, Proceeds, Undecided, ReserveRetry, AtWork, InAttempt
<1>1. at \in DOMAIN Operations /\ at \in Ops /\ at \in Nat \ {0} /\ Running
  BY <1>w, WorkFacts
<1>2. attempt = Entry(at).attempt /\ (current.status = "absent" <=> Entry(at).status = "absent")
  BY <1>1, <1>t, MemEntry DEF current, attempt
<1>3. /\ n \in Attempts
      /\ \/ Entry(at).status = "absent" /\ n = 1
         \/ Entry(at).status = "failed_known" /\ n = Entry(at).attempt + 1
      /\ \E error : mem' = WithEntry(mem, at, [attempt |-> n, status |-> "reserved",
                                               error |-> error], Reserve(mem.ledger, r))
      /\ AppendEvent(OperationReserved(at, n, r.kind, r.usage))
      /\ Goto("attempt") /\ UNCHANGED <<inputs, at, clock, cancelled, reply, verdict, counters>>
  <2>1. CASE PlanOperation /\ n = 1
    <3>1. /\ mem' = [mem EXCEPT !.ledger = Reserve(mem.ledger, r),
                                !.journal = ReserveOp(Add(mem.journal, at, 1), at, 1)]
          /\ AppendEvent(OperationReserved(at, 1, KindOf(at), Answer(at, 1).usage))
          /\ Goto("attempt") /\ UNCHANGED <<inputs, at, clock, cancelled, reply, verdict, counters>>
          /\ current.status = "absent"
      BY <2>1 DEF PlanOperation
    <3>2. ReserveOp(Add(mem.journal, at, 1), at, 1)
            = [mem.journal EXCEPT ![at] = [attempt |-> 1, status |-> "reserved", error |-> "none"]]
      BY <1>1, <1>t DEF ReserveOp, Add, MemType, JournalType
    <3>3. r.kind = KindOf(at) /\ r.usage = Answer(at, 1).usage
      BY <2>1 DEF ReservationOf
    <3> QED
      BY <2>1, <3>1, <3>2, <3>3, <1>2, <1>t, ConfigurationTypes DEF WithEntry
  <2>2. CASE ReserveRetry /\ n = attempt + 1
    <3>1. /\ mem' = [mem EXCEPT !.ledger = Reserve(mem.ledger, r),
                                !.journal = NewAttempt(mem.journal, at, n, "reserved", CarriedError)]
          /\ AppendEvent(OperationReserved(at, n, r.kind, r.usage))
          /\ Goto("attempt") /\ UNCHANGED <<inputs, at, clock, cancelled, reply, verdict, counters>>
          /\ pc = "rereserve"
      BY <2>2 DEF ReserveRetry
    <3>2. n \in Attempts
      BY <2>2, <3>1, <1>t, ConfigurationTypes DEF Control, Attempts, InAttempt
    <3>3. Entry(at).status = "failed_known"
      BY <3>1, <1>1, <1>t DEF LoopStands
    <3> QED
      BY <2>2, <3>1, <3>2, <3>3, <1>2 DEF WithEntry, NewAttempt
  <2> QED
    BY <2>1, <2>2
<1>4. r \in ReservationType /\ r.kind = KindOf(at) /\ r.usage = Answer(at, n).usage
      /\ r = [op |-> at, attempt |-> n, kind |-> r.kind, usage |-> r.usage]
  <2>1. n \in Nat \ {0} /\ KindOf(at) \in Kinds /\ Answer(at, n).usage \in Usage
    BY <1>1, <1>3, <1>t, ScriptTypes, ConfigurationTypes
  <2> QED
    BY <2>1, <1>1 DEF ReservationOf, ReservationType
<1>5. view.ledger.reservations = {}
  <2>1. at \notin OpenOps
    BY <1>3 DEF OpenOps, Open
  <2>2. OpenOps = {}
    BY <2>1, <1>1, <1>3, <1>t, OpenAtLoop DEF Books, LoopStands
  <2> QED
    BY <2>2, <1>t DEF Books, HeldExactly
<1>6. view.ok /\ CanReserve(view.ledger, spec, r)
  BY <1>1, <1>t, MemLedger DEF Agreement
<1>7. Affordable(view.ledger, spec, r.kind, r.usage, TRUE)
  BY <1>5, <1>6 DEF CanReserve
<1>8. view' = WithEntry(view, at, [attempt |-> n, status |-> "reserved", error |-> "none"],
                        Reserve(view.ledger, r))
  <2>1. ~Present(view.journal, at) \/ view.journal[at].attempt # n
    <3>1. Entry(at).attempt \in Nat
      BY <1>1, EntryTypes
    <3> QED
      BY <3>1, <1>3 DEF Present, Entry
  <2>2. view' = ReduceEvent(view, OperationReserved(at, n, r.kind, r.usage), spec)
    BY <1>3 DEF AppendEvent
  <2> QED
    BY <2>1, <2>2, <1>1, <1>3, <1>4, <1>6, <1>t, AcceptReserved
<1> QED
  BY <1>1, <1>3, <1>4, <1>5, <1>6, <1>7, <1>8 DEF AppendEvent

\* A dispatch: the attempt that is reserved is started.
LEMMA DispatchEffect ==
    ASSUME TypeInv, BookInv, Dispatch
    PROVE  /\ at \in DOMAIN Operations /\ at \in Ops /\ Running /\ view.ok
           /\ Entry(at).status = "reserved" /\ attempt = Entry(at).attempt
           /\ stream' = Append(stream, OperationDispatched(at, attempt))
           /\ view' = WithEntry(view, at, [Entry(at) EXCEPT !.status = "started"], view.ledger)
           /\ mem' = WithEntry(mem, at, [current EXCEPT !.status = "started"], mem.ledger)
           /\ Goto("dispatched") /\ UNCHANGED <<inputs, at, clock, cancelled, reply, verdict,
                                                counters, torn, checkpoint>>
<1>t. view \in ViewType /\ mem \in MemType /\ Agreement /\ Books
  BY BookTypes DEF BookInv
<1>1. at \in DOMAIN Operations /\ at \in Ops /\ Running
  BY WorkFacts DEF Dispatch, AtWork, InAttempt
<1>2. attempt = Entry(at).attempt /\ current.status \in {"planned", "reserved"}
  BY <1>1, <1>t, MemEntry DEF Dispatch, CanStart, IsCurrent, current, attempt
<1>3. Entry(at).status = "reserved"
  BY <1>1, <1>2, <1>t, MemEntry DEF Books, Recorded, current
<1>4. view' = WithEntry(view, at, [Entry(at) EXCEPT !.status = "started"], view.ledger)
  BY <1>1, <1>2, <1>3, <1>t, AcceptDispatched DEF Dispatch, AppendEvent, Entry, Agreement
<1>5. mem' = WithEntry(mem, at, [current EXCEPT !.status = "started"], mem.ledger)
  BY <1>1, <1>t DEF Dispatch, StartOp, WithEntry, MemType, JournalType, current
<1> QED
  BY <1>1, <1>2, <1>3, <1>4, <1>5, <1>t DEF Dispatch, AppendEvent, Agreement

\* A lost answer: the attempt in flight has an outcome nobody knows.
LEMMA UnknownEffect ==
    ASSUME TypeInv, BookInv, RecordUnknown
    PROVE  /\ at \in DOMAIN Operations /\ at \in Ops /\ Running /\ view.ok
           /\ Entry(at).status = "started" /\ attempt = Entry(at).attempt
           /\ stream' = Append(stream, OperationUnknown(at, attempt))
           /\ view' = WithEntry(view, at, [Entry(at) EXCEPT !.status = "outcome_unknown",
                                                            !.error = "unknown_outcome"], view.ledger)
           /\ mem' = WithEntry(mem, at, [current EXCEPT !.status = "outcome_unknown",
                                                        !.error = "unknown_outcome"], mem.ledger)
           /\ Conclude("failed", "unknown_outcome") /\ Goto("settle")
           /\ UNCHANGED <<inputs, at, clock, cancelled, reply, counters, torn, checkpoint>>
<1>t. view \in ViewType /\ mem \in MemType /\ Agreement /\ Books
  BY BookTypes DEF BookInv
<1>1. at \in DOMAIN Operations /\ at \in Ops /\ Running
  BY WorkFacts DEF RecordUnknown, AtWork, InAttempt
<1>2. attempt = Entry(at).attempt /\ Entry(at).status = "started" /\ view.ok
  BY <1>1, <1>t, MemEntry DEF RecordUnknown, BookInv, LoopStands, Agreement, current, attempt
<1>3. Held(view.ledger, at, attempt) /\ IsCurrent(view.journal, at, attempt)
  BY <1>1, <1>2, <1>t, HeldWhenOpen DEF Books, OpenOps, Open, IsCurrent, Present, Entry
<1>4. view' = WithEntry(view, at, [Entry(at) EXCEPT !.status = "outcome_unknown",
                                                    !.error = "unknown_outcome"], view.ledger)
  BY <1>1, <1>2, <1>3, <1>t, AcceptUnknown DEF RecordUnknown, AppendEvent, Entry
<1>5. mem' = WithEntry(mem, at, [current EXCEPT !.status = "outcome_unknown",
                                                !.error = "unknown_outcome"], mem.ledger)
  BY <1>1, <1>t
     DEF RecordUnknown, MarkUnknown, SetStatus, WithEntry, MemType, JournalType, current
<1> QED
  BY <1>1, <1>2, <1>4, <1>5 DEF RecordUnknown, AppendEvent

\* An attempt in flight has not been charged, and what it asked for when it was
\* reserved still fits the budget: the ledger takes its charge unless the limit
\* on retries is in the way.
LEMMA ChargeInFlight ==
    ASSUME TypeInv, Books, NEW op \in OpenOps, NEW n, n = Entry(op).attempt,
           NEW c, c.op = op, c.attempt = n, c.kind = KindOf(op), c.usage = Answer(op, n).usage
    PROVE  CanReconcile(view.ledger, spec, c) <=> Within(view.ledger.retries + n - 1, spec.maxRetries)
<1>1. ~Charged(view.ledger, op, n) /\ c \notin view.ledger.charges
  <2>1. Entry(op).status \notin {"succeeded", "failed_known"} /\ Entry(op).attempt \in Nat
    BY BookTypes, ScriptTypes, EntryTypes DEF OpenOps, Open
  <2> QED
    BY <2>1 DEF Books, ChargedPast, Charged
<1> DEFINE l == Release(view.ledger, op, n)
<1>2. Affordable(l, spec, c.kind, c.usage, FALSE)
  BY DEF Books, HeldAffordable
<1> HIDE DEF l
<1> QED
  BY <1>1, <1>2 DEF CanReconcile, l

\* The outcome that a step records, the error code that goes with it, and the
\* event it appends.
Records(outcome, error, e) ==
    \/ /\ RecordSuccess /\ outcome = "succeeded" /\ error = "none"
       /\ e = OperationSucceeded(at, attempt, reply.usage, reply.status)
    \/ /\ RecordFailure /\ outcome = "failed_known" /\ error = FailureCode
       /\ e = OperationFailed(at, attempt, reply.usage, FailureCode)

\* A record with the status and the error of an outcome.
Marked(r, status, error) == [r EXCEPT !.status = status, !.error = error]

\* An outcome: written to the stream and charged by both sides, or refused by
\* both, and then for the limit on retries.
LEMMA OutcomeEffect ==
    ASSUME TypeInv, BookInv, NEW outcome \in {"succeeded", "failed_known"}, NEW error, NEW e, NEW c,
           c = ChargeOf(at, attempt, outcome),
           Records(outcome, error, e)
    PROVE  /\ at \in DOMAIN Operations /\ at \in Ops /\ Running /\ view.ok /\ pc = "answered"
           /\ Entry(at).status = "started" /\ attempt = Entry(at).attempt
           /\ stream' = Append(stream, e)
           /\ c \in ChargeType /\ c.op = at /\ c.attempt = attempt /\ c.kind = KindOf(at)
           /\ c.usage = reply.usage /\ c.usage = Answer(at, attempt).usage
           /\ \/ /\ Within(view.ledger.retries + attempt - 1, spec.maxRetries)
                 /\ view' = WithEntry(view, at, Marked(Entry(at), outcome, error),
                                      Reconcile(view.ledger, c))
                 /\ mem' = WithEntry(mem, at, Marked(current, outcome, error),
                                     Reconcile(mem.ledger, c))
                 /\ Goto("settle")
              \/ /\ ~Within(view.ledger.retries + attempt - 1, spec.maxRetries)
                 /\ view' = Rejected(view) /\ Goto("raised")
           /\ UNCHANGED <<inputs, at, clock, cancelled, reply, verdict, counters, torn, checkpoint>>
<1>t. view \in ViewType /\ mem \in MemType /\ Agreement /\ Books /\ InputsOK
  BY BookTypes DEF BookInv
<1>1. at \in DOMAIN Operations /\ at \in Ops /\ at \in Nat /\ Running /\ pc = "answered"
  BY WorkFacts DEF Records, RecordSuccess, RecordFailure, AtWork, InAttempt
<1>2. /\ attempt = Entry(at).attempt /\ Entry(at).status = "started" /\ view.ok
      /\ reply.usage = Answer(at, attempt).usage
  BY <1>1, <1>t, MemEntry DEF BookInv, LoopStands, Agreement, current, attempt
<1>3. at \in OpenOps
  BY <1>1, <1>2 DEF OpenOps, Open
<1>4. attempt \in Nat \ {0}
  BY <1>1, <1>2, EntryTypes, BookTypes, ConfigurationTypes DEF Control, InAttempt
<1>5. c \in ChargeType /\ c.op = at /\ c.attempt = attempt /\ c.kind = KindOf(at) /\ c.usage = reply.usage
      /\ c.outcome = outcome
  <2>1. KindOf(at) \in Kinds /\ Answer(at, attempt).usage \in Usage
    BY <1>1, <1>4, <1>t, ScriptTypes
  <2> QED
    BY <1>1, <1>2, <1>4, <2>1 DEF ChargeOf, ChargeType
<1>6. CanReconcile(view.ledger, spec, c) <=> Within(view.ledger.retries + attempt - 1, spec.maxRetries)
  BY <1>2, <1>3, <1>5, <1>t, ChargeInFlight
<1>7. CanReconcile(mem.ledger, spec, c) <=> CanReconcile(view.ledger, spec, c)
  BY <1>1, <1>t, MemLedger
<1>8. Held(view.ledger, at, attempt) /\ ReservedKind(view.ledger, at, attempt) = KindOf(at)
      /\ IsCurrent(view.journal, at, attempt)
  BY <1>2, <1>3, <1>t, HeldWhenOpen DEF Books, IsCurrent, Present, Entry
<1>9. /\ e.op = at /\ e.attempt = attempt /\ e.usage = reply.usage
      /\ AppendEvent(e)
      /\ UNCHANGED <<inputs, at, clock, cancelled, reply, verdict, counters>>
  BY DEF Records, RecordSuccess, RecordFailure, OperationSucceeded, OperationFailed, Raise
<1>10. c = ChargeFor(view.ledger, e, outcome)
  BY <1>8, <1>9 DEF ChargeFor, ChargeOf
<1>11. view' = IF CanReconcile(view.ledger, spec, c)
               THEN WithEntry(view, at, [Entry(at) EXCEPT !.status = outcome, !.error = error],
                              Reconcile(view.ledger, c))
               ELSE Rejected(view)
  <2>0. view \in ViewType /\ view.ok /\ at \in Ops
        /\ Held(view.ledger, at, attempt) /\ IsCurrent(view.journal, at, attempt)
    BY <1>1, <1>2, <1>8, <1>t
  <2>1. view' = ReduceEvent(view, e, spec)
    BY <1>9 DEF AppendEvent
  <2>2. CASE e = OperationSucceeded(at, attempt, reply.usage, reply.status)
             /\ outcome = "succeeded" /\ error = "none"
    <3>1. c = ChargeFor(view.ledger, e, "succeeded")
      BY <2>2, <1>10
    <3>2. ReduceEvent(view, e, spec) =
            IF CanReconcile(view.ledger, spec, c)
            THEN WithEntry(view, at, [view.journal[at] EXCEPT !.status = "succeeded", !.error = "none"],
                           Reconcile(view.ledger, c))
            ELSE Rejected(view)
      BY <2>0, <2>2, <3>1, AcceptSucceeded
    <3> QED
      BY <2>1, <2>2, <3>2 DEF Entry
  <2>3. CASE e = OperationFailed(at, attempt, reply.usage, FailureCode)
             /\ outcome = "failed_known" /\ error = FailureCode
    <3>1. c = ChargeFor(view.ledger, e, "failed_known")
      BY <2>3, <1>10
    <3>2. ReduceEvent(view, e, spec) =
            IF CanReconcile(view.ledger, spec, c)
            THEN WithEntry(view, at, [view.journal[at] EXCEPT !.status = "failed_known",
                                                              !.error = FailureCode],
                           Reconcile(view.ledger, c))
            ELSE Rejected(view)
      BY <2>0, <2>3, <3>1, AcceptFailed
    <3> QED
      BY <2>1, <2>3, <3>2 DEF Entry
  <2> QED
    BY <2>2, <2>3 DEF Records
<1>12. /\ CanReconcile(mem.ledger, spec, c) =>
            /\ mem' = WithEntry(mem, at, [current EXCEPT !.status = outcome, !.error = error],
                                Reconcile(mem.ledger, c))
            /\ Goto("settle")
       /\ ~CanReconcile(mem.ledger, spec, c) => Goto("raised")
  <2>1. CASE RecordSuccess /\ outcome = "succeeded" /\ error = "none"
    <3>1. MarkSucceeded(mem.journal, at)
            = [mem.journal EXCEPT ![at] = [mem.journal[at] EXCEPT !.status = "succeeded", !.error = "none"]]
      BY <1>1, <1>t DEF MarkSucceeded, SetStatus, MemType, JournalType
    <3>2. IF CanReconcile(mem.ledger, spec, c)
          THEN /\ mem' = [mem EXCEPT !.ledger = Reconcile(mem.ledger, c),
                                     !.journal = MarkSucceeded(mem.journal, at)]
               /\ Goto("settle")
          ELSE Goto("raised")
      BY <2>1 DEF RecordSuccess, Raise
    <3> QED
      BY <2>1, <3>1, <3>2 DEF WithEntry, current
  <2>2. CASE RecordFailure /\ outcome = "failed_known" /\ error = FailureCode
    <3>1. MarkFailed(mem.journal, at, FailureCode)
            = [mem.journal EXCEPT ![at] = [mem.journal[at] EXCEPT !.status = "failed_known",
                                                                  !.error = FailureCode]]
      BY <1>1, <1>t DEF MarkFailed, SetStatus, MemType, JournalType
    <3>2. IF CanReconcile(mem.ledger, spec, c)
          THEN /\ mem' = [mem EXCEPT !.ledger = Reconcile(mem.ledger, c),
                                     !.journal = MarkFailed(mem.journal, at, FailureCode)]
               /\ Goto("settle")
          ELSE Goto("raised")
      BY <2>2 DEF RecordFailure, Raise
    <3> QED
      BY <2>2, <3>1, <3>2 DEF WithEntry, current
  <2> QED
    BY <2>1, <2>2 DEF Records
<1>13. stream' = Append(stream, e) /\ UNCHANGED <<torn, checkpoint>>
  BY <1>9 DEF AppendEvent
<1> QED
  BY <1>1, <1>2, <1>5, <1>6, <1>7, <1>9, <1>11, <1>12, <1>13 DEF Marked

\* A cancellation: an operation that was never planned is closed.
LEMMA CancelEffect ==
    ASSUME TypeInv, BookInv, CancelOperation
    PROVE  LET rec == [attempt |-> 1, status |-> "cancelled_before_dispatch", error |-> "none"]
           IN  /\ at \in DOMAIN Operations /\ at \in Ops /\ Running /\ view.ok
               /\ Entry(at).status = "absent" /\ current.status = "absent"
               /\ stream' = Append(stream, OperationCancelled(at, 1))
               /\ view' = WithEntry(view, at, rec, view.ledger)
               /\ mem' = WithEntry(mem, at, rec, mem.ledger)
               /\ Conclude("failed", "cancelled") /\ Goto("finish")
               /\ UNCHANGED <<inputs, at, clock, cancelled, reply, counters, torn, checkpoint>>
<1> DEFINE rec == [attempt |-> 1, status |-> "cancelled_before_dispatch", error |-> "none"]
<1>t. view \in ViewType /\ mem \in MemType /\ Agreement
  BY BookTypes DEF BookInv
<1>1. at \in DOMAIN Operations /\ at \in Ops /\ Running
  BY WorkFacts DEF CancelOperation, Undecided, AtWork
<1>2. Entry(at).status = "absent" /\ current.status = "absent" /\ view.ok
  BY <1>1, <1>t, MemEntry DEF CancelOperation, Agreement, current
<1>3. view' = WithEntry(view, at, rec, view.ledger)
  BY <1>1, <1>2, <1>t, AcceptCancelled DEF CancelOperation, AppendEvent, Present, Entry
<1>4. mem' = WithEntry(mem, at, rec, mem.ledger)
  <2>1. CancelBeforeDispatch(Add(mem.journal, at, 1), at) = [mem.journal EXCEPT ![at] = rec]
    BY <1>1, <1>t DEF CancelBeforeDispatch, Add, MemType, JournalType
  <2> QED
    BY <2>1, <1>t DEF CancelOperation, WithEntry, MemType
<1> QED
  BY <1>1, <1>2, <1>3, <1>4 DEF CancelOperation, AppendEvent

---------------------------------------------------------------------------
(* Steps that keep the books *)

\* What a run was created with does not change, nor what follows from it.
LEMMA FixedInputs ==
    ASSUME UNCHANGED inputs
    PROVE  /\ scenario' = scenario /\ spec' = spec /\ backoff' = backoff
           /\ Operations' = Operations
           /\ \A op, n : /\ KindOf(op)' = KindOf(op) /\ Answer(op, n)' = Answer(op, n)
                         /\ ReservationOf(op, n)' = ReservationOf(op, n)
BY DEF inputs, Operations, KindOf, Answer, ReservationOf

\* The books after the record of the first operation that has not succeeded
\* is replaced: a record that is open holds its one reservation, one that is
\* not holds none, and only a settled attempt is charged.
LEMMA BooksWithEntry ==
    ASSUME TypeInv, Books, UNCHANGED inputs, NEW o \in DOMAIN Operations, NEW rec, NEW l,
           view' = WithEntry(view, o, rec, l),
           Entry(o).status # "succeeded",
           \A p \in DOMAIN Operations : p < o => Entry(p).status = "succeeded",
           rec.status \in OperationStatus \ {"planned"},
           rec.status = "outcome_unknown" => rec.error = "unknown_outcome",
           rec.status = "cancelled_before_dispatch" => rec.attempt = 1,
           rec.attempt \in Nat, Entry(o).attempt <= rec.attempt,
           Entry(o).attempt = rec.attempt => Entry(o).status # "failed_known",
           l.reservations = IF rec.status \in Open THEN {ReservationOf(o, rec.attempt)} ELSE {},
           rec.status \in Open => Affordable(Release(l, o, rec.attempt), spec, KindOf(o),
                                             Answer(o, rec.attempt).usage, FALSE),
           \A c \in l.charges :
              \/ c \in view.ledger.charges
              \/ c.op = o /\ c.attempt = rec.attempt /\ rec.status \in {"succeeded", "failed_known"}
    PROVE  Books'
<1>t. /\ InputsOK /\ view \in ViewType /\ view.ledger \in LedgerType
      /\ InOrder /\ Recorded /\ HeldExactly /\ HeldAffordable /\ ChargedPast /\ ClosedWhenDone
  BY BookTypes DEF Books
<1>1. o \in Ops /\ Operations' = Operations /\ spec' = spec
  BY <1>t, ScriptTypes, FixedInputs
<1>2. /\ view'.status = view.status /\ view'.ledger = l
      /\ Entry(o)' = rec
      /\ \A p \in Ops : p # o => Entry(p)' = Entry(p)
  BY <1>1, <1>t, WithEntryFields DEF Entry
<1>3. DOMAIN Operations \subseteq Ops /\ Ops \subseteq Nat
  BY <1>t, ScriptTypes, ConfigurationTypes
<1>4. InOrder'
  BY <1>1, <1>2, <1>3, <1>t DEF InOrder
<1>5. Recorded'
  <2>1. Concluded(view.journal)'
    BY <1>2, <1>t DEF Recorded, Concluded, Entry
  <2> QED
    BY <2>1, <1>2, <1>t DEF Recorded
<1>6. OpenOps' = IF rec.status \in Open THEN {o} ELSE {}
  <2>1. \A op \in OpenOps : op = o
    BY <1>t, OpenAtLoop
  <2>2. \A op \in DOMAIN Operations : op # o => Entry(op)' = Entry(op) /\ op \notin OpenOps
    BY <2>1, <1>2, <1>3
  <2>3. OpenOps' = {op \in DOMAIN Operations : Entry(op)'.status \in Open}
    BY <1>1 DEF OpenOps, Open
  <2> QED
    BY <2>2, <2>3, <1>2 DEF OpenOps
<1>7. HeldExactly'
  <2>1. view'.ledger.reservations = {ReservationOf(op, Entry(op)'.attempt) : op \in OpenOps'}
    BY <1>2, <1>6
  <2>2. \A op : ReservationOf(op, Entry(op).attempt)' = ReservationOf(op, Entry(op)'.attempt)
    BY DEF ReservationOf, KindOf, Answer, Operations, inputs
  <2> QED
    BY <2>1, <2>2 DEF HeldExactly
<1>8. HeldAffordable'
  <2> SUFFICES ASSUME NEW op \in OpenOps'
               PROVE  Affordable(Release(view.ledger, op, Entry(op).attempt), spec, KindOf(op),
                                 Answer(op, Entry(op).attempt).usage, FALSE)'
    BY DEF HeldAffordable
  <2>1. op = o /\ rec.status \in Open
    BY <1>6
  <2>2. KindOf(o)' = KindOf(o) /\ Answer(o, Entry(o).attempt)' = Answer(o, rec.attempt)
    BY <1>2 DEF KindOf, Answer, Operations, inputs
  <2> QED
    BY <2>1, <2>2, <1>1, <1>2
<1>9. ChargedPast'
  <2> SUFFICES ASSUME NEW c \in l.charges
               PROVE  /\ c.op \in DOMAIN Operations
                      /\ \/ c.attempt < Entry(c.op)'.attempt
                         \/ c.attempt = Entry(c.op)'.attempt
                            /\ Entry(c.op)'.status \in {"succeeded", "failed_known"}
    BY <1>1, <1>2 DEF ChargedPast
  <2>1. CASE c \in view.ledger.charges
    <3>1. /\ c.op \in DOMAIN Operations
          /\ \/ c.attempt < Entry(c.op).attempt
             \/ c.attempt = Entry(c.op).attempt /\ Entry(c.op).status \in {"succeeded", "failed_known"}
      BY <2>1, <1>t DEF ChargedPast
    <3>2. CASE c.op # o
      BY <3>1, <3>2, <1>2, <1>3
    <3>3. CASE c.op = o
      <4>1. c.attempt \in Nat
        BY <2>1, <1>t DEF LedgerType, ChargeType
      <4>2. Entry(o).attempt \in Nat
        BY <1>1, EntryTypes
      <4> QED
        BY <3>1, <3>3, <4>1, <4>2, <1>2
    <3> QED
      BY <3>2, <3>3
  <2>2. CASE c \notin view.ledger.charges
    BY <2>2, <1>2
  <2> QED
    BY <2>1, <2>2
<1>10. ClosedWhenDone'
  BY <1>2, <1>t DEF ClosedWhenDone
<1> QED
  BY <1>4, <1>5, <1>7, <1>8, <1>9, <1>10 DEF Books

\* The books after a step that leaves the journal alone and changes nothing in
\* the ledger that a reservation or a charge depends on.
LEMMA BooksStill ==
    ASSUME Books, UNCHANGED inputs, view'.journal = view.journal,
           view'.ledger.reservations = view.ledger.reservations,
           view'.ledger.charges = view.ledger.charges, view'.ledger.calls = view.ledger.calls,
           view'.ledger.input = view.ledger.input, view'.ledger.output = view.ledger.output,
           view.ledger \in LedgerType, view'.ledger \in LedgerType,
           view'.status \in {"validating", "complete"} =>
              \A op \in DOMAIN Operations : Entry(op).status = "succeeded"
    PROVE  Books'
<1>t. InOrder /\ Recorded /\ HeldExactly /\ HeldAffordable /\ ChargedPast
  BY DEF Books
<1>1. /\ Operations' = Operations /\ spec' = spec
      /\ \A op : Entry(op)' = Entry(op)
      /\ \A op : KindOf(op)' = KindOf(op)
      /\ \A op : Answer(op, Entry(op).attempt)' = Answer(op, Entry(op).attempt)
      /\ \A op : ReservationOf(op, Entry(op).attempt)' = ReservationOf(op, Entry(op).attempt)
  BY DEF Entry, KindOf, Answer, Operations, ReservationOf, inputs
<1>2. OpenOps' = OpenOps
  BY <1>1 DEF OpenOps, Open
<1>3. InOrder' /\ Recorded'
  BY <1>1, <1>t DEF InOrder, Recorded, Concluded, Entry
<1>4. HeldExactly'
  BY <1>1, <1>2, <1>t DEF HeldExactly
<1>5. HeldAffordable'
  <2> SUFFICES ASSUME NEW op \in OpenOps
               PROVE  Affordable(Release(view'.ledger, op, Entry(op).attempt), spec, KindOf(op),
                                 Answer(op, Entry(op).attempt).usage, FALSE)
    BY <1>1, <1>2 DEF HeldAffordable
  <2> DEFINE a == Release(view.ledger, op, Entry(op).attempt)
             b == Release(view'.ledger, op, Entry(op).attempt)
  <2>1. /\ a.calls = b.calls /\ a.input = b.input /\ a.output = b.output
        /\ a.reservations = b.reservations
    BY DEF Release, LedgerType
  <2>2. Affordable(a, spec, KindOf(op), Answer(op, Entry(op).attempt).usage, FALSE)
    BY <1>t DEF HeldAffordable
  <2> HIDE DEF a, b
  <2>3. Affordable(b, spec, KindOf(op), Answer(op, Entry(op).attempt).usage, FALSE)
    BY <2>1, <2>2, SameAffordable
  <2> QED
    BY <2>3 DEF b
<1>6. ChargedPast'
  BY <1>1, <1>t DEF ChargedPast
<1>7. ClosedWhenDone'
  BY <1>1 DEF ClosedWhenDone
<1> QED
  BY <1>3, <1>4, <1>5, <1>6, <1>7 DEF Books

\* The memory keeps agreeing when it updates its own copies the same way.
LEMMA AgreementWithEntry ==
    ASSUME TypeInv, Agreement, Running, NEW o \in Ops, NEW rec, NEW q, NEW l \in LedgerType, NEW m,
           view' = WithEntry(view, o, rec, l), mem' = WithEntry(mem, o, q, m),
           Settled(q) = Settled(rec), q.status = "outcome_unknown" => q.error = "unknown_outcome",
           m = [l EXCEPT !.elapsed = mem.ledger.elapsed]
    PROVE  Agreement'
<1>t. view \in ViewType /\ mem \in MemType /\ mem.ledger.elapsed \in Nat
  BY BookTypes
<1>1. /\ view'.ok /\ view'.status = view.status /\ view'.ledger = l
      /\ view'.journal[o] = rec
      /\ \A p \in Ops : p # o => view'.journal[p] = view.journal[p]
  BY <1>t, WithEntryFields DEF Agreement
<1>2. /\ mem'.status = mem.status /\ mem'.ledger = m
      /\ mem'.journal[o] = q
      /\ \A p \in Ops : p # o => mem'.journal[p] = mem.journal[p]
  BY <1>t DEF WithEntry, MemType, JournalType
<1>3. m = [l EXCEPT !.elapsed = m.elapsed]
  BY <1>t DEF LedgerType
<1>4. \A op \in Ops : Settled(mem'.journal[op]) = Settled(view'.journal[op])
  BY <1>1, <1>2 DEF Agreement, Entry
<1>5. Concluded(mem'.journal)
  BY <1>2 DEF Agreement, Concluded
<1> QED
  BY <1>1, <1>2, <1>3, <1>4, <1>5 DEF Agreement, Entry, Concluded

---------------------------------------------------------------------------
(* Every step keeps the books *)

\* A record with a new status, and with a new status and error.
LEMMA RecordWith ==
    ASSUME NEW r \in RecordType
    PROVE  /\ \A s : [r EXCEPT !.status = s] = [attempt |-> r.attempt, status |-> s, error |-> r.error]
           /\ \A s, x : [r EXCEPT !.status = s, !.error = x]
                          = [attempt |-> r.attempt, status |-> s, error |-> x]
<1> DEFINE a == r.attempt
           b == r.status
           c == r.error
<1>1. r = [attempt |-> a, status |-> b, error |-> c]
  BY DEF RecordType, Absent
<1> HIDE DEF a, b, c
<1>2. \A s : [r EXCEPT !.status = s] = [attempt |-> a, status |-> s, error |-> c]
  BY <1>1
<1>3. ASSUME NEW s, NEW x
      PROVE  [r EXCEPT !.status = s, !.error = x] = [attempt |-> a, status |-> s, error |-> x]
  <2>1. [r EXCEPT !.status = s, !.error = x] = [[r EXCEPT !.status = s] EXCEPT !.error = x]
    BY <1>1
  <2>2. [[attempt |-> a, status |-> s, error |-> c] EXCEPT !.error = x]
          = [attempt |-> a, status |-> s, error |-> x]
    OBVIOUS
  <2> QED
    BY <1>2, <2>1, <2>2
<1> QED
  BY <1>2, <1>3 DEF a, c

\* Two records of one attempt settle alike once it is in flight or over.
LEMMA SettledWith ==
    ASSUME NEW r \in RecordType, NEW q \in RecordType, q.attempt = r.attempt
    PROVE  /\ Settled([q EXCEPT !.status = "started"]) = Settled([r EXCEPT !.status = "started"])
           /\ \A s, x : [q EXCEPT !.status = s, !.error = x] = [r EXCEPT !.status = s, !.error = x]
<1> DEFINE started(n, x) == [attempt |-> n, status |-> "started", error |-> x]
<1>1. \A n, x : Settled(started(n, x))
                 = [attempt |-> n, status |-> "outcome_unknown", error |-> "unknown_outcome"]
  BY DEF Settled
<1>2. /\ [r EXCEPT !.status = "started"] = started(r.attempt, r.error)
      /\ [q EXCEPT !.status = "started"] = started(q.attempt, q.error)
  BY RecordWith
<1> HIDE DEF started
<1>3. Settled([q EXCEPT !.status = "started"]) = Settled([r EXCEPT !.status = "started"])
  BY <1>1, <1>2
<1>4. ASSUME NEW s, NEW x
      PROVE  [q EXCEPT !.status = s, !.error = x] = [r EXCEPT !.status = s, !.error = x]
  <2>1. [q EXCEPT !.status = s, !.error = x] = [attempt |-> q.attempt, status |-> s, error |-> x]
    BY RecordWith
  <2>2. [r EXCEPT !.status = s, !.error = x] = [attempt |-> r.attempt, status |-> s, error |-> x]
    BY RecordWith
  <2> QED
    BY <2>1, <2>2
<1> QED
  BY <1>3, <1>4

\* A step that replaces the record of the operation of the loop, on both sides.
LEMMA EntryStep ==
    ASSUME TypeInv, BookInv, Running, at \in DOMAIN Operations, UNCHANGED <<inputs, at>>,
           NEW rec, NEW q, NEW l \in LedgerType, NEW m,
           view' = WithEntry(view, at, rec, l), mem' = WithEntry(mem, at, q, m),
           m = [l EXCEPT !.elapsed = mem.ledger.elapsed],
           Settled(q) = Settled(rec), q.status = "outcome_unknown" => q.error = "unknown_outcome",
           Entry(at).status # "succeeded",
           rec.status \in OperationStatus \ {"planned"},
           rec.status = "outcome_unknown" => rec.error = "unknown_outcome",
           rec.status = "cancelled_before_dispatch" => rec.attempt = 1,
           rec.attempt \in Nat, Entry(at).attempt <= rec.attempt,
           Entry(at).attempt = rec.attempt => Entry(at).status # "failed_known",
           l.reservations = IF rec.status \in Open THEN {ReservationOf(at, rec.attempt)} ELSE {},
           rec.status \in Open => Affordable(Release(l, at, rec.attempt), spec, KindOf(at),
                                             Answer(at, rec.attempt).usage, FALSE),
           \A c \in l.charges :
              \/ c \in view.ledger.charges
              \/ c.op = at /\ c.attempt = rec.attempt /\ rec.status \in {"succeeded", "failed_known"},
           pc' \in {"attempt", "dispatched", "settle", "finish"},
           pc' = "dispatched" => rec.status = "started",
           pc' = "settle" => rec.status # "started",
           pc' = "settle" /\ rec.status = "outcome_unknown" => verdict'.terminal # "complete",
           pc' = "finish" => verdict'.terminal # "complete"
    PROVE  BookInv'
<1>t. InputsOK /\ view \in ViewType /\ Agreement /\ Books
      /\ \A p \in DOMAIN Operations : p < at => Entry(p).status = "succeeded"
  BY BookTypes DEF BookInv, LoopStands
<1>1. UNCHANGED inputs /\ at' = at /\ at \in Ops
  BY <1>t, ScriptTypes
<1>2. Books'
  BY <1>t, <1>1, BooksWithEntry
<1>3. Agreement'
  BY <1>t, <1>1, AgreementWithEntry
<1>4. /\ view'.ok /\ Operations' = Operations
      /\ Entry(at)' = rec
      /\ \A p \in Ops : p # at => Entry(p)' = Entry(p)
  BY <1>1, <1>t, WithEntryFields, FixedInputs DEF Entry, Agreement
<1>5. LoopStands'
  <2>1. \A p \in DOMAIN Operations' : p < at' => Entry(p)'.status = "succeeded"
    BY <1>1, <1>4, <1>t, ScriptTypes, ConfigurationTypes
  <2> QED
    BY <2>1, <1>4 DEF LoopStands
<1> QED
  BY <1>2, <1>3, <1>4, <1>5 DEF BookInv, RejectedByRetries

\* A step of a process that leaves the journals alone: what remains is where
\* the loop stands.
LEMMA StillStep ==
    ASSUME TypeInv, BookInv, Running, UNCHANGED inputs, view'.ok,
           view'.journal = view.journal, mem'.journal = mem.journal, mem'.status = view'.status,
           mem'.ledger = [view'.ledger EXCEPT !.elapsed = mem'.ledger.elapsed],
           view'.ledger \in LedgerType,
           view'.ledger.reservations = view.ledger.reservations,
           view'.ledger.charges = view.ledger.charges, view'.ledger.calls = view.ledger.calls,
           view'.ledger.input = view.ledger.input, view'.ledger.output = view.ledger.output,
           view'.status \in {"validating", "complete"} =>
              \A op \in DOMAIN Operations : Entry(op).status = "succeeded"
    PROVE  /\ Agreement' /\ Books' /\ RejectedByRetries'
           /\ Operations' = Operations /\ \A op : Entry(op)' = Entry(op)
<1>1. Agreement /\ Books /\ view.ledger \in LedgerType
  BY BookTypes DEF BookInv
<1>2. Books'
  BY <1>1, BooksStill
<1>3. Agreement'
  BY <1>1 DEF Agreement, Entry
<1> QED
  BY <1>2, <1>3, FixedInputs DEF RejectedByRetries, Entry

\* Reserving the first attempt or a retry.
LEMMA ReserveBooks ==
    ASSUME TypeInv, BookInv, NEW n, NEW r, r = ReservationOf(at, n), CanReserve(mem.ledger, spec, r),
           \/ PlanOperation /\ n = 1
           \/ ReserveRetry /\ n = attempt + 1
    PROVE  BookInv'
<1> DEFINE rec == [attempt |-> n, status |-> "reserved", error |-> "none"]
           l == Reserve(view.ledger, r)
           m == Reserve(mem.ledger, r)
           x == mem.ledger.elapsed
<1>t. /\ InputsOK /\ view.ledger \in LedgerType /\ x \in Nat
      /\ Running => mem.ledger = [view.ledger EXCEPT !.elapsed = x]
  BY BookTypes DEF BookInv, Agreement
<1>1. /\ at \in DOMAIN Operations /\ at \in Ops /\ Running /\ n \in Attempts
      /\ \/ Entry(at).status = "absent" /\ n = 1
         \/ Entry(at).status = "failed_known" /\ n = Entry(at).attempt + 1
      /\ view.ledger.reservations = {}
      /\ r \in ReservationType /\ r.kind = KindOf(at) /\ r.usage = Answer(at, n).usage
      /\ Affordable(view.ledger, spec, r.kind, r.usage, TRUE)
      /\ view' = WithEntry(view, at, rec, l)
      /\ \E error : mem' = WithEntry(mem, at, [attempt |-> n, status |-> "reserved",
                                               error |-> error], m)
      /\ Goto("attempt") /\ UNCHANGED <<inputs, at>>
  BY ReserveEffect
<1>2. PICK error : mem' = WithEntry(mem, at, [attempt |-> n, status |-> "reserved",
                                              error |-> error], m)
  BY <1>1
<1> DEFINE q == [attempt |-> n, status |-> "reserved", error |-> error]
<1>3. l \in LedgerType /\ l.reservations = {ReservationOf(at, n)} /\ l.charges = view.ledger.charges
  BY <1>1, <1>t, ReserveType DEF Reserve, LedgerType
<1>4. m = [l EXCEPT !.elapsed = x]
  <2> HIDE DEF x
  <2>1. mem.ledger = [view.ledger EXCEPT !.elapsed = x] /\ view.ledger \in LedgerType /\ x \in Nat
    BY <1>1, <1>t
  <2>2. m = [l EXCEPT !.elapsed = x]
    BY <2>1, SameUpdates DEF l, m
  <2> QED
    BY <2>2
<1>5. Affordable(Release(l, at, n), spec, KindOf(at), Answer(at, n).usage, FALSE)
  <2> DEFINE a == Release(l, at, n)
  <2>1. /\ a.calls = view.ledger.calls /\ a.input = view.ledger.input
        /\ a.output = view.ledger.output /\ a.reservations = view.ledger.reservations
    BY <1>1, <1>3, <1>t DEF Release, Reserve, LedgerType, ReservationOf
  <2> HIDE DEF a
  <2>2. Affordable(view.ledger, spec, r.kind, r.usage, FALSE)
    <3>1. Cardinality({k \in view.ledger.reservations : k.kind = r.kind}) = 0
      BY <1>1, FS_EmptySet
    <3>2. view.ledger.calls[r.kind] \in Nat
      BY <1>1, <1>t DEF LedgerType, ReservationType
    <3> QED
      BY <1>1, <3>1, <3>2 DEF Affordable
  <2>3. Affordable(a, spec, r.kind, r.usage, FALSE)
    BY <2>1, <2>2, SameAffordable
  <2> QED
    BY <2>3, <1>1 DEF a
<1>6. rec.status = "reserved" /\ rec.attempt = n /\ Settled(q) = Settled(rec) /\ q.status = "reserved"
  BY DEF Settled
<1>7. /\ n \in Nat /\ Entry(at).attempt <= n /\ Entry(at).attempt # n
      /\ Entry(at).status # "succeeded"
  BY <1>1, <1>t, EntryTypes, ConfigurationTypes
<1>8. "reserved" \in Open /\ "reserved" \in OperationStatus /\ pc' = "attempt"
  BY <1>1 DEF Open, OperationStatus, Goto
<1> HIDE DEF rec, l, m, q
<1> QED
  BY <1>1, <1>2, <1>3, <1>4, <1>5, <1>6, <1>7, <1>8, EntryStep DEF q, x

\* What an operation that is open, or has settled, holds in the ledger.
LEMMA HeldAtLoop ==
    ASSUME TypeInv, BookInv, Running, at \in DOMAIN Operations, Entry(at).status # "succeeded"
    PROVE  /\ view.ledger.reservations =
                 IF Entry(at).status \in Open THEN {ReservationOf(at, Entry(at).attempt)} ELSE {}
           /\ Entry(at).status \in Open =>
                 Affordable(Release(view.ledger, at, Entry(at).attempt), spec, KindOf(at),
                            Answer(at, Entry(at).attempt).usage, FALSE)
<1>1. \A op \in OpenOps : op = at
  BY OpenAtLoop DEF BookInv, Books, LoopStands
<1>2. OpenOps = IF Entry(at).status \in Open THEN {at} ELSE {}
  BY <1>1 DEF OpenOps
<1> QED
  BY <1>2 DEF BookInv, Books, HeldExactly, HeldAffordable

\* The process's own record of the attempt it is in, and its own ledger.
LEMMA OwnBooks ==
    ASSUME TypeInv, BookInv, Running, at \in Ops
    PROVE  /\ mem.ledger = [view.ledger EXCEPT !.elapsed = mem.ledger.elapsed]
           /\ view.ledger \in LedgerType /\ mem.ledger.elapsed \in Nat
           /\ attempt = Entry(at).attempt
           /\ current \in RecordType
           /\ Entry(at).attempt \in Nat
BY BookTypes, MemEntry, EntryTypes DEF BookInv, Agreement, current, attempt

\* A dispatch keeps the reservation.
LEMMA DispatchBooks ==
    ASSUME TypeInv, BookInv, Dispatch
    PROVE  BookInv'
<1> DEFINE rec == [Entry(at) EXCEPT !.status = "started"]
           q == [current EXCEPT !.status = "started"]
<1>1. /\ at \in DOMAIN Operations /\ at \in Ops /\ Running /\ UNCHANGED <<inputs, at>>
      /\ Entry(at).status = "reserved"
      /\ view' = WithEntry(view, at, rec, view.ledger)
      /\ mem' = WithEntry(mem, at, q, mem.ledger)
      /\ pc' = "dispatched"
  BY DispatchEffect DEF Goto
<1>2. /\ mem.ledger = [view.ledger EXCEPT !.elapsed = mem.ledger.elapsed]
      /\ view.ledger \in LedgerType
      /\ Entry(at).attempt \in Nat /\ current.attempt = Entry(at).attempt
  BY <1>1, OwnBooks DEF attempt
<1>3. Entry(at) \in RecordType /\ current \in RecordType
      /\ Entry(at).status # "absent" /\ current.status # "absent"
  BY <1>1, EntryTypes, MemEntry DEF BookInv, current
<1>4. /\ rec.status = "started" /\ rec.attempt = Entry(at).attempt
      /\ q.status = "started"
      /\ Settled(q) = Settled(rec)
  <2>1. rec = [attempt |-> Entry(at).attempt, status |-> "started", error |-> Entry(at).error]
    BY <1>3, RecordWith
  <2>2. q = [attempt |-> current.attempt, status |-> "started", error |-> current.error]
    BY <1>3, RecordWith
  <2>3. Settled(q) = Settled(rec)
    BY <1>2, <1>3, SettledWith
  <2> HIDE DEF rec, q
  <2> QED
    BY <2>1, <2>2, <2>3
<1>5. "started" \in Open /\ "started" \in OperationStatus /\ "reserved" \in Open
  BY DEF Open, OperationStatus
<1>6. /\ view.ledger.reservations = {ReservationOf(at, rec.attempt)}
      /\ Affordable(Release(view.ledger, at, rec.attempt), spec, KindOf(at),
                    Answer(at, rec.attempt).usage, FALSE)
  BY <1>1, <1>4, <1>5, HeldAtLoop
<1> HIDE DEF rec, q
<1> DEFINE l == view.ledger
           m == mem.ledger
<1>7. /\ view' = WithEntry(view, at, rec, l) /\ mem' = WithEntry(mem, at, q, m)
      /\ l \in LedgerType /\ m = [l EXCEPT !.elapsed = mem.ledger.elapsed]
      /\ \A c \in l.charges : c \in view.ledger.charges
  BY <1>1, <1>2
<1>8. /\ l.reservations = IF rec.status \in Open THEN {ReservationOf(at, rec.attempt)} ELSE {}
      /\ Affordable(Release(l, at, rec.attempt), spec, KindOf(at), Answer(at, rec.attempt).usage, FALSE)
  BY <1>4, <1>5, <1>6
<1>9. /\ rec.attempt \in Nat /\ Entry(at).attempt <= rec.attempt
      /\ rec.status \in OperationStatus \ {"planned"}
  BY <1>2, <1>4, <1>5
<1> HIDE DEF l, m
<1> QED
  BY <1>1, <1>4, <1>7, <1>8, <1>9, EntryStep

\* So does an outcome that nobody knows.
LEMMA UnknownBooks ==
    ASSUME TypeInv, BookInv, RecordUnknown
    PROVE  BookInv'
<1> DEFINE rec == [Entry(at) EXCEPT !.status = "outcome_unknown", !.error = "unknown_outcome"]
           q == [current EXCEPT !.status = "outcome_unknown", !.error = "unknown_outcome"]
<1>1. /\ at \in DOMAIN Operations /\ at \in Ops /\ Running /\ UNCHANGED <<inputs, at>>
      /\ Entry(at).status = "started"
      /\ view' = WithEntry(view, at, rec, view.ledger)
      /\ mem' = WithEntry(mem, at, q, mem.ledger)
      /\ pc' = "settle" /\ verdict'.terminal = "failed"
  BY UnknownEffect DEF Goto, Conclude
<1>2. /\ mem.ledger = [view.ledger EXCEPT !.elapsed = mem.ledger.elapsed]
      /\ view.ledger \in LedgerType
      /\ Entry(at).attempt \in Nat /\ current.attempt = Entry(at).attempt
  BY <1>1, OwnBooks DEF attempt
<1>3. Entry(at) \in RecordType /\ current \in RecordType
      /\ Entry(at).status # "absent" /\ current.status # "absent"
  BY <1>1, EntryTypes, MemEntry DEF BookInv, current
<1>4. /\ rec.status = "outcome_unknown" /\ rec.error = "unknown_outcome"
      /\ rec.attempt = Entry(at).attempt
      /\ q.status = "outcome_unknown" /\ q.error = "unknown_outcome"
      /\ Settled(q) = Settled(rec)
  <2>1. rec = [attempt |-> Entry(at).attempt, status |-> "outcome_unknown", error |-> "unknown_outcome"]
    BY <1>3, RecordWith
  <2>2. q = [attempt |-> current.attempt, status |-> "outcome_unknown", error |-> "unknown_outcome"]
    BY <1>3, RecordWith
  <2> HIDE DEF rec, q
  <2> QED
    BY <2>1, <2>2, <1>2
<1>5. "started" \in Open /\ "outcome_unknown" \in OperationStatus /\ "outcome_unknown" \in Open
  BY DEF Open, OperationStatus
<1>6. /\ view.ledger.reservations = {ReservationOf(at, rec.attempt)}
      /\ Affordable(Release(view.ledger, at, rec.attempt), spec, KindOf(at),
                    Answer(at, rec.attempt).usage, FALSE)
  BY <1>1, <1>4, <1>5, HeldAtLoop
<1> HIDE DEF rec, q
<1> DEFINE l == view.ledger
           m == mem.ledger
<1>7. /\ view' = WithEntry(view, at, rec, l) /\ mem' = WithEntry(mem, at, q, m)
      /\ l \in LedgerType /\ m = [l EXCEPT !.elapsed = mem.ledger.elapsed]
      /\ \A c \in l.charges : c \in view.ledger.charges
  BY <1>1, <1>2
<1>8. /\ l.reservations = IF rec.status \in Open THEN {ReservationOf(at, rec.attempt)} ELSE {}
      /\ Affordable(Release(l, at, rec.attempt), spec, KindOf(at), Answer(at, rec.attempt).usage, FALSE)
  BY <1>4, <1>5, <1>6
<1>9. /\ rec.attempt \in Nat /\ Entry(at).attempt <= rec.attempt
      /\ rec.status \in OperationStatus \ {"planned"}
  BY <1>2, <1>4, <1>5
<1> HIDE DEF l, m
<1> QED
  BY <1>1, <1>4, <1>7, <1>8, <1>9, EntryStep

\* A refused event leaves the books as they were, and no process behind.
LEMMA RefusedBooks ==
    ASSUME TypeInv, BookInv, UNCHANGED inputs, view' = Rejected(view), pc' = "raised",
           at \in Ops, Entry(at).status = "started",
           ~Within(view.ledger.retries + Entry(at).attempt - 1, spec.maxRetries)
    PROVE  BookInv'
<1>1. view \in ViewType /\ view.ledger \in LedgerType /\ Books
  BY BookTypes DEF BookInv
<1>2. view'.journal = view.journal /\ view'.ledger = view.ledger /\ view'.status = view.status
  BY <1>1 DEF Rejected, ViewType
<1>3. Books'
  BY <1>1, <1>2, BooksStill DEF Books, ClosedWhenDone
<1>4. RejectedByRetries'
  <2>1. /\ spec' = spec /\ Entry(at) = view'.journal[at]
        /\ view'.journal[at].status = "started"
        /\ ~Within(view'.ledger.retries + view'.journal[at].attempt - 1, spec'.maxRetries)
    BY <1>2, FixedInputs DEF Entry
  <2> QED
    BY <2>1 DEF RejectedByRetries, Entry
<1>5. ~Running'
  BY DEF Running
<1> QED
  BY <1>3, <1>4, <1>5 DEF BookInv, Agreement, LoopStands

\* What a charge does to the ledger, field by field.
LEMMA ReconcileFields ==
    ASSUME NEW l \in LedgerType, NEW c \in ChargeType, NEW k, k = Reconcile(l, c)
    PROVE  /\ k.reservations = Release(l, c.op, c.attempt).reservations
           /\ k.charges = l.charges \cup {c}
           /\ k.replans = l.replans /\ k.elapsed = l.elapsed
           /\ c \notin l.charges =>
                 /\ \A kind \in Kinds :
                       k.calls[kind] = l.calls[kind] + (IF kind = c.kind THEN 1 ELSE 0)
                 /\ k.input = l.input + c.usage.input
                 /\ k.output = l.output + c.usage.output
                 /\ k.retries = l.retries + c.attempt - 1
<1> DEFINE rest == Release(l, c.op, c.attempt)
           new == [rest EXCEPT !.calls[c.kind] = @ + 1,
                               !.input = @ + c.usage.input,
                               !.output = @ + c.usage.output,
                               !.retries = @ + c.attempt - 1,
                               !.charges = @ \cup {c}]
<1>1. /\ rest \in LedgerType /\ rest.reservations = Release(l, c.op, c.attempt).reservations
      /\ rest.charges = l.charges /\ rest.calls = l.calls /\ rest.input = l.input
      /\ rest.output = l.output /\ rest.retries = l.retries
      /\ rest.replans = l.replans /\ rest.elapsed = l.elapsed
  BY DEF Release, LedgerType
<1>2. k = IF c \in l.charges THEN rest ELSE new
  BY DEF Reconcile
<1> HIDE DEF rest
<1>3. /\ new.reservations = rest.reservations /\ new.charges = rest.charges \cup {c}
      /\ new.replans = rest.replans /\ new.elapsed = rest.elapsed
      /\ \A kind \in Kinds : new.calls[kind] = rest.calls[kind] + (IF kind = c.kind THEN 1 ELSE 0)
      /\ new.input = rest.input + c.usage.input /\ new.output = rest.output + c.usage.output
      /\ new.retries = rest.retries + c.attempt - 1
  BY <1>1 DEF LedgerType
<1> HIDE DEF new
<1>4. CASE c \in l.charges
  BY <1>1, <1>2, <1>4
<1>5. CASE c \notin l.charges
  BY <1>1, <1>2, <1>3, <1>5
<1> QED
  BY <1>4, <1>5

\* A charge drops the reservation of its attempt and is remembered.
LEMMA ReconcileHeld ==
    ASSUME NEW l \in LedgerType, NEW c \in ChargeType
    PROVE  /\ Reconcile(l, c).reservations = Release(l, c.op, c.attempt).reservations
           /\ Reconcile(l, c).charges = l.charges \cup {c}
BY ReconcileFields

\* An outcome that is charged: the reservation becomes a charge.
LEMMA ChargedBooks ==
    ASSUME TypeInv, BookInv, NEW outcome \in {"succeeded", "failed_known"}, NEW error, NEW e, NEW c,
           c = ChargeOf(at, attempt, outcome),
           Records(outcome, error, e)
    PROVE  BookInv'
<1> DEFINE rec == Marked(Entry(at), outcome, error)
           q == Marked(current, outcome, error)
           l == Reconcile(view.ledger, c)
           m == Reconcile(mem.ledger, c)
           x == mem.ledger.elapsed
<1>2. /\ at \in DOMAIN Operations /\ at \in Ops /\ Running
      /\ Entry(at).status = "started" /\ attempt = Entry(at).attempt
      /\ c \in ChargeType /\ c.op = at /\ c.attempt = attempt
      /\ \/ /\ view' = WithEntry(view, at, rec, l) /\ mem' = WithEntry(mem, at, q, m)
            /\ Goto("settle")
         \/ /\ ~Within(view.ledger.retries + attempt - 1, spec.maxRetries)
            /\ view' = Rejected(view) /\ Goto("raised")
      /\ UNCHANGED <<inputs, at>>
  BY OutcomeEffect
<1>3. mem.ledger = [view.ledger EXCEPT !.elapsed = x]
      /\ view.ledger \in LedgerType /\ x \in Nat
      /\ Entry(at).attempt \in Nat /\ current.attempt = Entry(at).attempt
  BY <1>2, OwnBooks DEF attempt
<1>4. CASE ~Within(view.ledger.retries + attempt - 1, spec.maxRetries) /\ view' = Rejected(view)
           /\ Goto("raised")
  BY <1>2, <1>4, RefusedBooks DEF Goto
<1>5. CASE view' = WithEntry(view, at, rec, l) /\ mem' = WithEntry(mem, at, q, m) /\ Goto("settle")
  <2>1. Entry(at) \in RecordType /\ current \in RecordType
    BY <1>2, EntryTypes DEF current
  <2>2. rec = [attempt |-> Entry(at).attempt, status |-> outcome, error |-> error]
    <3>1. [Entry(at) EXCEPT !.status = outcome, !.error = error]
              = [attempt |-> Entry(at).attempt, status |-> outcome, error |-> error]
      BY <2>1, RecordWith
    <3> QED
      BY <3>1 DEF Marked
  <2>3. q = [attempt |-> current.attempt, status |-> outcome, error |-> error]
    <3>1. [current EXCEPT !.status = outcome, !.error = error]
              = [attempt |-> current.attempt, status |-> outcome, error |-> error]
      BY <2>1, RecordWith
    <3> QED
      BY <3>1 DEF Marked
  <2> HIDE DEF rec, q, x
  <2>4. rec.status = outcome /\ rec.attempt = Entry(at).attempt /\ q = rec
    BY <2>2, <2>3, <1>3
  <2>5. l \in LedgerType /\ m = [l EXCEPT !.elapsed = x]
    <3>1. l \in LedgerType
      BY <1>2, <1>3, ReconcileType
    <3>2. m = [l EXCEPT !.elapsed = x]
      <4>1. \A k \in ChargeType :
               Reconcile(mem.ledger, k) = [Reconcile(view.ledger, k) EXCEPT !.elapsed = x]
        BY <1>3, SameUpdates
      <4> QED
        BY <1>2, <4>1
    <3> QED
      BY <3>1, <3>2
  <2>6. /\ l.reservations = Release(view.ledger, at, attempt).reservations
        /\ l.charges = view.ledger.charges \cup {c}
    BY <1>2, <1>3, ReconcileHeld
  <2>7. l.reservations = {}
    <3>1. view.ledger.reservations = {ReservationOf(at, attempt)}
      BY <1>2, HeldAtLoop DEF Open
    <3>2. Release(view.ledger, at, attempt).reservations
            = {r \in view.ledger.reservations : ~(r.op = at /\ r.attempt = attempt)}
      BY <1>3 DEF Release, LedgerType
    <3> QED
      BY <2>6, <3>1, <3>2 DEF ReservationOf
  <2> HIDE DEF l, m
  <2>8. /\ outcome \notin Open /\ outcome \in OperationStatus \ {"planned"}
        /\ outcome # "outcome_unknown" /\ outcome # "cancelled_before_dispatch"
        /\ pc' = "settle"
    BY <1>5 DEF Open, OperationStatus, Goto
  <2>9. \A k \in l.charges :
          \/ k \in view.ledger.charges
          \/ k.op = at /\ k.attempt = rec.attempt /\ rec.status \in {"succeeded", "failed_known"}
    BY <2>4, <2>6, <1>2
  <2>10. /\ view' = WithEntry(view, at, rec, l) /\ mem' = WithEntry(mem, at, q, m)
         /\ m = [l EXCEPT !.elapsed = mem.ledger.elapsed]
         /\ Settled(q) = Settled(rec)
         /\ rec.attempt \in Nat /\ Entry(at).attempt <= rec.attempt
    BY <1>3, <1>5, <2>4, <2>5 DEF x
  <2> QED
    BY <1>2, <2>4, <2>5, <2>7, <2>8, <2>9, <2>10, EntryStep
<1> QED
  BY <1>2, <1>4, <1>5

\* An outcome, of either kind.
LEMMA OutcomeBooks ==
    ASSUME TypeInv, BookInv, RecordSuccess \/ RecordFailure
    PROVE  BookInv'
<1>1. CASE RecordSuccess
  <2>1. Records("succeeded", "none", OperationSucceeded(at, attempt, reply.usage, reply.status))
    BY <1>1 DEF Records
  <2> QED
    BY <2>1, ChargedBooks
<1>2. CASE RecordFailure
  <2>1. Records("failed_known", FailureCode,
                OperationFailed(at, attempt, reply.usage, FailureCode))
    BY <1>2 DEF Records
  <2> QED
    BY <2>1, ChargedBooks
<1> QED
  BY <1>1, <1>2

\* An operation that is closed before it was planned holds nothing.
LEMMA CancelBooks ==
    ASSUME TypeInv, BookInv, CancelOperation
    PROVE  BookInv'
<1> DEFINE rec == [attempt |-> 1, status |-> "cancelled_before_dispatch", error |-> "none"]
           l == view.ledger
           m == mem.ledger
<1>1. /\ at \in DOMAIN Operations /\ at \in Ops /\ Running /\ UNCHANGED <<inputs, at>>
      /\ Entry(at).status = "absent"
      /\ view' = WithEntry(view, at, rec, l) /\ mem' = WithEntry(mem, at, rec, m)
      /\ pc' = "finish" /\ verdict'.terminal = "failed"
  BY CancelEffect DEF Goto, Conclude
<1>2. l \in LedgerType /\ m = [l EXCEPT !.elapsed = mem.ledger.elapsed]
      /\ Entry(at).attempt = 0
  BY <1>1, OwnBooks, EntryTypes
<1>3. l.reservations = {}
  BY <1>1, HeldAtLoop DEF Open
<1>4. /\ "cancelled_before_dispatch" \notin Open /\ "cancelled_before_dispatch" \in OperationStatus
      /\ rec.attempt = 1 /\ rec.status = "cancelled_before_dispatch" /\ Settled(rec) = Settled(rec)
      /\ rec.attempt \in Nat /\ Entry(at).attempt <= rec.attempt /\ Entry(at).attempt # rec.attempt
      /\ rec.status \in OperationStatus \ {"planned"}
  BY <1>2 DEF Open, OperationStatus
<1>5. \A c \in l.charges : c \in view.ledger.charges
  OBVIOUS
<1> HIDE DEF rec, l, m
<1> QED
  BY <1>1, <1>2, <1>3, <1>4, <1>5, EntryStep

\* A step that appends nothing, of a process that stays or is the last to see
\* the stream as it is.
LEMMA QuietBooks ==
    ASSUME TypeInv, BookInv, UNCHANGED <<inputs, view>>, Running' => Running /\ UNCHANGED mem
    PROVE  /\ Agreement' /\ Books' /\ RejectedByRetries'
           /\ Operations' = Operations /\ \A op : Entry(op)' = Entry(op)
<1>1. UNCHANGED inputs /\ view' = view /\ Agreement /\ Books /\ view.ledger \in LedgerType
  BY BookTypes DEF BookInv
<1>2. Books'
  BY <1>1, BooksStill DEF Books, ClosedWhenDone
<1>3. Agreement'
  BY <1>1 DEF Agreement, Entry
<1> QED
  BY <1>1, <1>2, <1>3, FixedInputs DEF BookInv, RejectedByRetries, Entry

\* The branches of the loop and of an attempt that write nothing.
LEMMA QuietSteps ==
    ASSUME TypeInv, BookInv,
           \/ SkipSucceeded \/ GiveUp \/ TakeUpAttempt \/ RetryScheduledBefore
           \/ DispatchTooLate \/ LoopExhausted \/ FinishWithoutLifecycle \/ CallExternal
    PROVE  BookInv'
<1>1. UNCHANGED inputs /\ UNCHANGED view /\ UNCHANGED mem /\ Running
  BY DEF SkipSucceeded, GiveUp, TakeUpAttempt, RetryScheduledBefore, DispatchTooLate, LoopExhausted,
         FinishWithoutLifecycle, CallExternal, durables, Running, AtOperation, Undecided, Proceeds,
         Retries
<1>2. /\ Agreement' /\ Books' /\ RejectedByRetries'
      /\ Operations' = Operations /\ \A op : Entry(op)' = Entry(op)
  BY <1>1, QuietBooks
<1>t. /\ Len(Operations) \in Nat /\ DOMAIN Operations = 1..Len(Operations) /\ at \in Nat
      /\ \A p \in DOMAIN Operations : p < at => Entry(p).status = "succeeded"
      /\ LoopStands /\ Agreement
  BY <1>1, BookTypes, ConfigurationTypes DEF BookInv, LoopStands, ProcessOK
<1>3. LoopStands'
  <2>1. CASE SkipSucceeded
    <3>1. at \in DOMAIN Operations /\ at \in Ops /\ current.status = "succeeded"
          /\ at' = at + 1 /\ pc' = "loop"
      BY <2>1, WorkFacts DEF SkipSucceeded, AtWork, MovedOn, Goto
    <3>2. Entry(at).status = "succeeded"
      BY <3>1, <1>1, <1>t, MemEntry DEF current
    <3>3. \A p \in DOMAIN Operations : p < at + 1 => Entry(p).status = "succeeded"
      BY <3>2, <1>t
    <3> QED
      BY <3>1, <3>3, <1>2 DEF LoopStands
  <2>2. CASE RetryScheduledBefore
    <3>1. at \in Ops /\ current.status = "failed_known" /\ at' = at /\ pc' \in {"backoff", "rereserve"}
      BY <2>2, WorkFacts DEF RetryScheduledBefore, Retries, Proceeds, Undecided, AtWork, Goto
    <3>2. Entry(at).status = "failed_known"
      BY <3>1, <1>1, <1>t, MemEntry DEF current
    <3> QED
      BY <3>1, <3>2, <1>t, <1>2 DEF LoopStands
  <2>3. CASE GiveUp \/ DispatchTooLate
    <3>1. at' = at /\ pc' = "finish" /\ verdict'.terminal = "failed"
      BY <2>3 DEF GiveUp, DispatchTooLate, Goto, Conclude
    <3> QED
      BY <3>1, <1>t, <1>2 DEF LoopStands
  <2>4. CASE TakeUpAttempt \/ FinishWithoutLifecycle
    <3>1. at' = at /\ pc' \in {"attempt", "checkpoint"}
      BY <2>4 DEF TakeUpAttempt, FinishWithoutLifecycle, Goto
    <3> QED
      BY <3>1, <1>t, <1>2 DEF LoopStands
  <2>5. CASE LoopExhausted
    <3>1. at' = at /\ pc' = "finish" /\ at > Len(Operations)
      BY <2>5 DEF LoopExhausted, Goto
    <3> QED
      BY <3>1, <1>t, <1>2 DEF LoopStands
  <2>6. CASE CallExternal
    <3>1. /\ at' = at /\ pc = "dispatched" /\ pc' = "answered"
          /\ reply'.usage = Answer(at, attempt).usage
      BY <2>6 DEF CallExternal, Goto
    <3>2. Entry(at).status = "started"
      BY <3>1, <1>1, <1>t DEF LoopStands
    <3>3. Answer(at, attempt)' = Answer(at, attempt)
      BY <3>1, <1>1, <1>2 DEF Answer, attempt, current
    <3> QED
      BY <3>1, <3>2, <3>3, <1>t, <1>2 DEF LoopStands
  <2> QED
    BY <2>1, <2>2, <2>3, <2>4, <2>5, <2>6
<1> QED
  BY <1>2, <1>3 DEF BookInv

\* A request to cancel only sets the token; a checkpoint is a copy.
LEMMA AsideSteps ==
    ASSUME TypeInv, BookInv, RequestCancel \/ WriteCheckpoint \/ UNCHANGED vars
    PROVE  BookInv'
<1>1. UNCHANGED <<inputs, view, mem, at, reply, verdict>> /\ (UNCHANGED pc \/ pc' \in {"done", "raised"})
  BY DEF RequestCancel, WriteCheckpoint, Raise, Goto, vars, process, durables
<1>2. /\ Agreement' /\ Books' /\ RejectedByRetries'
      /\ Operations' = Operations /\ \A op : Entry(op)' = Entry(op)
  BY <1>1, QuietBooks DEF Running
<1>3. Answer(at, attempt)' = Answer(at, attempt)
  BY <1>1, <1>2 DEF Answer, attempt, current
<1> QED
  BY <1>1, <1>2, <1>3 DEF BookInv, LoopStands, Running

\* A process that dies or is refused leaves the books to the next one.
LEMMA EndingSteps ==
    ASSUME TypeInv, BookInv,
           \/ Crash \/ CrashWhileAppending \/ StartRejected \/ DispatchRejected
           \/ PlanOperation /\ ~CanReserve(mem.ledger, spec, ReservationOf(at, 1))
           \/ ReserveRetry /\ ~CanReserve(mem.ledger, spec, ReservationOf(at, attempt + 1))
    PROVE  BookInv'
<1>1. UNCHANGED <<inputs, view>> /\ pc' \in {"down", "raised"}
  BY DEF Crash, CrashWhileAppending, StartRejected, DispatchRejected, PlanOperation, ReserveRetry,
         Raise, Goto, durables
<1>2. Agreement' /\ Books' /\ RejectedByRetries'
  BY <1>1, QuietBooks DEF Running
<1> QED
  BY <1>1, <1>2 DEF BookInv, LoopStands, Running

\* Scheduling a retry, by the process that saw the failure or by a later one.
LEMMA ScheduleEffect ==
    ASSUME TypeInv, BookInv, RetryUnscheduled \/ ScheduleRetry
    PROVE  /\ at \in DOMAIN Operations /\ at \in Ops /\ Running /\ view.ok
           /\ Entry(at).status = "failed_known" /\ attempt = Entry(at).attempt
           /\ stream' = Append(stream, RetryScheduled(at, attempt, DelayFor(backoff, attempt)))
           /\ view' = view /\ pc' = "backoff"
           /\ UNCHANGED <<inputs, mem, at, clock, cancelled, reply, verdict, counters, torn, checkpoint>>
<1>1. /\ AppendEvent(RetryScheduled(at, attempt, DelayFor(backoff, attempt)))
      /\ UNCHANGED <<inputs, mem, at, clock, cancelled, reply, verdict, counters>>
      /\ pc' = "backoff" /\ AtWork
  BY DEF RetryUnscheduled, Retries, Proceeds, Undecided, ScheduleRetry, Goto, AtWork, InAttempt
<1>2. /\ at \in DOMAIN Operations /\ at \in Ops /\ Running /\ view \in ViewType /\ view.ok
      /\ Agreement /\ LoopStands
  BY <1>1, WorkFacts, BookTypes DEF BookInv, Agreement
<1>3. view' = view
  <2> DEFINE d == DelayFor(backoff, attempt)
             n == attempt
  <2>1. view' = ReduceEvent(view, RetryScheduled(at, n, d), spec)
    BY <1>1 DEF AppendEvent
  <2> HIDE DEF d, n
  <2>2. \A op, k, delay : ReduceEvent(view, RetryScheduled(op, k, delay), spec) = view
    BY <1>2, AcceptNotes
  <2> QED
    BY <2>1, <2>2
<1>4. Entry(at).status = "failed_known"
  BY <1>2, MemEntry DEF RetryUnscheduled, Retries, ScheduleRetry, LoopStands, current
<1>5. attempt = Entry(at).attempt
  BY <1>2, MemEntry DEF attempt, current
<1> QED
  BY <1>1, <1>2, <1>3, <1>4, <1>5 DEF AppendEvent

\* It is an event that changes no book.
LEMMA ScheduleSteps ==
    ASSUME TypeInv, BookInv, RetryUnscheduled \/ ScheduleRetry
    PROVE  BookInv'
<1>1. /\ UNCHANGED <<inputs, view, mem, at>> /\ pc' = "backoff" /\ Running
      /\ Entry(at).status = "failed_known" /\ LoopStands
  BY ScheduleEffect DEF BookInv
<1>2. /\ Agreement' /\ Books' /\ RejectedByRetries'
      /\ Operations' = Operations /\ \A op : Entry(op)' = Entry(op)
  BY <1>1, QuietBooks
<1> QED
  BY <1>1, <1>2 DEF BookInv, LoopStands

\* What a process that moves the run's status, or its own clock, leaves alone.
LEMMA LedgerAside ==
    ASSUME TypeInv, BookInv, Running, UNCHANGED inputs, NEW l \in LedgerType,
           view' = [view EXCEPT !.ledger = l],
           l.reservations = view.ledger.reservations, l.charges = view.ledger.charges,
           l.calls = view.ledger.calls, l.input = view.ledger.input, l.output = view.ledger.output,
           mem'.journal = mem.journal, mem'.status = mem.status,
           mem'.ledger = [l EXCEPT !.elapsed = mem'.ledger.elapsed]
    PROVE  /\ Agreement' /\ Books' /\ RejectedByRetries'
           /\ Operations' = Operations /\ \A op : Entry(op)' = Entry(op)
<1>1. view \in ViewType /\ Agreement /\ Books
  BY BookTypes DEF BookInv
<1>2. /\ view'.ledger = l /\ view'.journal = view.journal /\ view'.status = view.status
      /\ view'.ok = view.ok
  BY <1>1 DEF ViewType
<1>3. view'.ok /\ mem'.status = view'.status
  BY <1>1, <1>2 DEF Agreement
<1>4. view'.status \in {"validating", "complete"} =>
         \A op \in DOMAIN Operations : Entry(op).status = "succeeded"
  BY <1>1, <1>2 DEF Books, ClosedWhenDone
<1> QED
  BY <1>2, <1>3, <1>4, StillStep

\* The time recorded after an outcome and after a backoff.
LEMMA ElapsedEffect ==
    ASSUME TypeInv, BookInv, Backoff \/ SettleUnknown \/ SettleSuccess \/ SettleFailure
    PROVE  /\ at \in DOMAIN Operations /\ at \in Ops /\ Running /\ view.ok
           /\ attempt = Entry(at).attempt
           /\ pc \in {"settle", "backoff"} /\ UNCHANGED <<inputs, mem, torn, checkpoint, counters>>
           /\ \E delay \in Nat :
                /\ clock' = clock + delay /\ clock' \in Nat
                /\ delay = IF pc = "backoff" THEN DelayFor(backoff, attempt) ELSE 0
                /\ stream' = Append(stream, ElapsedRecorded(clock', delay))
                /\ view' = [view EXCEPT !.ledger = RecordElapsed(view.ledger, clock')]
<1>1. /\ AtWork /\ pc \in {"settle", "backoff"} /\ UNCHANGED <<inputs, mem, counters>>
      /\ Backoff <=> pc = "backoff"
  BY DEF Backoff, SettleUnknown, SettleSuccess, SettleFailure, Settling, AtWork, InAttempt
<1>2. /\ at \in DOMAIN Operations /\ at \in Ops /\ Running /\ view.ok /\ Agreement
      /\ clock \in Nat /\ attempt \in Nat
  BY <1>1, WorkFacts, BookTypes, ConfigurationTypes DEF BookInv, Agreement, ProcessOK, Control, InAttempt
<1>3. attempt = Entry(at).attempt
  BY <1>2, MemEntry DEF attempt, current
<1> DEFINE n == attempt
           delay == IF pc = "backoff" THEN DelayFor(backoff, n) ELSE 0
<1>4. /\ delay \in Nat
      /\ clock' = clock + delay
      /\ AppendEvent(ElapsedRecorded(clock', delay))
  <2>1. CASE pc = "backoff"
    <3>1. /\ clock' = clock + DelayFor(backoff, n)
          /\ AppendEvent(ElapsedRecorded(clock', DelayFor(backoff, n)))
      BY <2>1, <1>1 DEF Backoff
    <3> HIDE DEF n
    <3>2. n \in Nat => DelayFor(backoff, n) \in Nat
      BY BookTypes, ConfigurationTypes
    <3> QED
      BY <2>1, <3>1, <3>2, <1>2 DEF n
  <2>2. CASE pc # "backoff"
    <3>1. clock' = clock /\ AppendEvent(ElapsedRecorded(clock, 0))
      BY <2>2, <1>1 DEF SettleUnknown, SettleSuccess, SettleFailure, Settling
    <3> QED
      BY <2>2, <3>1, <1>2
  <2> QED
    BY <2>1, <2>2
<1> HIDE DEF delay
<1>5. clock' \in Nat
  BY <1>2, <1>4
<1>6. view' = [view EXCEPT !.ledger = RecordElapsed(view.ledger, clock')]
  <2> DEFINE t == clock'
  <2>1. view' = ReduceEvent(view, ElapsedRecorded(t, delay), spec)
    BY <1>4 DEF AppendEvent
  <2> HIDE DEF t
  <2>2. view' = [view EXCEPT !.ledger = RecordElapsed(view.ledger, t)]
    BY <2>1, <1>2, AcceptElapsed
  <2> QED
    BY <2>2 DEF t
<1>7. stream' = Append(stream, ElapsedRecorded(clock', delay)) /\ UNCHANGED <<torn, checkpoint>>
  BY <1>4 DEF AppendEvent
<1> QED
  BY <1>1, <1>2, <1>3, <1>4, <1>5, <1>6, <1>7 DEF delay, n

\* The process keeps its own clock, the ledger of the stream follows it.
LEMMA ElapsedSteps ==
    ASSUME TypeInv, BookInv, Backoff \/ SettleUnknown \/ SettleSuccess \/ SettleFailure
    PROVE  BookInv'
<1> DEFINE seconds == clock'
           l == RecordElapsed(view.ledger, seconds)
<1>1. seconds \in Nat /\ view' = [view EXCEPT !.ledger = l]
  BY ElapsedEffect
<1> HIDE DEF seconds
<1>3. /\ at \in DOMAIN Operations /\ at \in Ops /\ Running /\ UNCHANGED <<inputs, mem>>
      /\ view \in ViewType /\ view.ledger \in LedgerType /\ view.ok
      /\ mem.ledger = [view.ledger EXCEPT !.elapsed = mem.ledger.elapsed]
      /\ mem.ledger.elapsed \in Nat
      /\ Agreement /\ LoopStands
  BY ElapsedEffect, BookTypes DEF BookInv, Agreement
<1>5. /\ l \in LedgerType /\ l.reservations = view.ledger.reservations
      /\ l.charges = view.ledger.charges /\ l.calls = view.ledger.calls
      /\ l.input = view.ledger.input /\ l.output = view.ledger.output
      /\ mem.ledger = [l EXCEPT !.elapsed = mem.ledger.elapsed]
  <2>1. l \in LedgerType
    BY <1>1, <1>3, RecordElapsedType
  <2>2. mem.ledger = [l EXCEPT !.elapsed = mem.ledger.elapsed]
    <3> DEFINE v == view.ledger
               x == mem.ledger.elapsed
               m == mem.ledger
    <3>1. v \in LedgerType /\ x \in Nat /\ m = [v EXCEPT !.elapsed = x]
      BY <1>3
    <3> HIDE DEF v, x, m
    <3>2. \A t : m = [RecordElapsed(v, t) EXCEPT !.elapsed = x]
      BY <3>1, SameUpdates
    <3> QED
      BY <3>2 DEF v, x, m
  <2> QED
    BY <1>3, <2>1, <2>2 DEF RecordElapsed, LedgerType
<1> HIDE DEF l
<1>6. /\ Agreement' /\ Books' /\ RejectedByRetries'
      /\ Operations' = Operations /\ \A op : Entry(op)' = Entry(op)
  BY <1>1, <1>3, <1>5, LedgerAside
<1>7. LoopStands'
  <2>1. CASE Backoff
    <3>1. at' = at /\ pc = "backoff" /\ pc' = "rereserve"
      BY <2>1 DEF Backoff, Goto
    <3> QED
      BY <3>1, <1>3, <1>6 DEF LoopStands
  <2>2. CASE SettleUnknown
    <3>1. at' = at /\ pc = "settle" /\ pc' = "finish" /\ verdict' = verdict
          /\ current.status = "outcome_unknown"
      BY <2>2 DEF SettleUnknown, Settling, Goto
    <3>2. Entry(at).status = "outcome_unknown"
      <4>1. Entry(at).status \in {"started", "outcome_unknown"}
        BY <3>1, <1>3, MemEntry DEF current
      <4> QED
        BY <4>1, <3>1, <1>3 DEF LoopStands
    <3> QED
      BY <3>1, <3>2, <1>3, <1>6 DEF LoopStands
  <2>3. CASE SettleSuccess
    <3>1. /\ pc = "settle" /\ current.status = "succeeded"
          /\ \/ pc' = "replan" /\ at' = at
             \/ pc' = "loop" /\ at' = at + 1
      BY <2>3 DEF SettleSuccess, Settling, MovedOn, Goto
    <3>2. Entry(at).status = "succeeded"
      BY <3>1, <1>3, MemEntry DEF current
    <3>3. \A p \in DOMAIN Operations : p < at + 1 => Entry(p).status = "succeeded"
      BY <3>2, <1>3, BookTypes, ConfigurationTypes DEF LoopStands, ProcessOK
    <3> QED
      BY <3>1, <3>2, <3>3, <1>3, <1>6 DEF LoopStands
  <2>4. CASE SettleFailure
    <3>1. /\ pc = "settle" /\ current.status = "failed_known" /\ at' = at
          /\ \/ pc' = "finish" /\ verdict'.terminal = "failed"
             \/ pc' = "schedule"
      BY <2>4 DEF SettleFailure, Settling, Goto, Conclude
    <3>2. Entry(at).status = "failed_known"
      BY <3>1, <1>3, MemEntry DEF current
    <3> QED
      BY <3>1, <3>2, <1>3, <1>6 DEF LoopStands
  <2> QED
    BY <2>1, <2>2, <2>3, <2>4
<1> QED
  BY <1>6, <1>7 DEF BookInv


\* The replan that the process admits or refuses is the one the ledger of the
\* stream has room for, and both ledgers count it.
Admitted == Admits(mem.ledger.replans, spec.maxReplans)

\* What a decision on a replan writes, counts, and leaves to the loop.
LEMMA ReplanEffect ==
    ASSUME TypeInv, BookInv, RecoverReplan \/ ReplanAfterAnswer
    PROVE  /\ at \in DOMAIN Operations /\ at \in Ops /\ at \in Nat /\ Running /\ view.ok
           /\ Entry(at).status = "succeeded" /\ attempt = Entry(at).attempt
           /\ Admitted <=> view.ledger.replans < spec.maxReplans
           /\ stream' = Append(stream, ReplanDecided(at, attempt, Admitted))
           /\ Admitted => /\ view' = [view EXCEPT !.ledger = RecordReplan(view.ledger)]
                          /\ mem' = [mem EXCEPT !.ledger = RecordReplan(mem.ledger)]
           /\ ~Admitted => view' = view /\ mem' = mem
           /\ \/ pc' = "loop" /\ at' = at + 1
              \/ pc' = "finish" /\ at' = at /\ verdict'.terminal = "insufficient_evidence"
           /\ UNCHANGED <<inputs, clock, cancelled, reply, counters, torn, checkpoint>>
<1>1. /\ DecideReplan /\ AtWork /\ UNCHANGED <<inputs, clock, cancelled, reply, counters>>
      /\ RecoverReplan => current.status = "succeeded"
      /\ ReplanAfterAnswer => pc = "replan"
  BY DEF RecoverReplan, ReplanAfterAnswer, AtWork, InAttempt
<1>2. /\ at \in DOMAIN Operations /\ at \in Ops /\ at \in Nat /\ Running
      /\ view \in ViewType /\ view.ok /\ Agreement /\ LoopStands
  BY <1>1, WorkFacts, BookTypes DEF BookInv, Agreement
<1>3. mem.ledger.replans = view.ledger.replans /\ attempt = Entry(at).attempt
  BY <1>2, MemLedger, MemEntry DEF attempt, current
<1>4. Entry(at).status = "succeeded"
  BY <1>1, <1>2, MemEntry DEF LoopStands, current
<1>5. Admitted <=> view.ledger.replans < spec.maxReplans
  BY <1>3 DEF Admitted, Admits
<1>6. /\ stream' = Append(stream, ReplanDecided(at, attempt, Admitted))
      /\ view' = ReduceEvent(view, ReplanDecided(at, attempt, Admitted), spec)
      /\ UNCHANGED <<torn, checkpoint>>
  BY <1>1 DEF DecideReplan, AppendEvent, Admitted
<1>7. CASE Admitted
  <2>1. Admitted = TRUE
    BY <1>7 DEF Admitted, Admits
  <2> DEFINE n == attempt
             o == at
  <2>2. view' = ReduceEvent(view, ReplanDecided(o, n, TRUE), spec)
    BY <1>6, <2>1
  <2>3. CanRecordReplan(view.ledger, spec)
    BY <1>5, <1>7 DEF CanRecordReplan
  <2> HIDE DEF n, o
  <2>4. view' = [view EXCEPT !.ledger = RecordReplan(view.ledger)]
    BY <2>2, <2>3, <1>2, AcceptReplan
  <2>5. /\ mem' = [mem EXCEPT !.ledger = RecordReplan(mem.ledger)]
        /\ \/ pc' = "loop" /\ at' = at + 1
           \/ pc' = "finish" /\ at' = at /\ verdict'.terminal = "insufficient_evidence"
    BY <1>1, <1>7 DEF DecideReplan, Admitted, Conclude, Goto, MovedOn
  <2> QED
    BY <1>1, <1>2, <1>3, <1>4, <1>5, <1>6, <1>7, <2>4, <2>5
<1>8. CASE ~Admitted
  <2>1. Admitted = FALSE
    BY <1>8 DEF Admitted, Admits
  <2> DEFINE n == attempt
             o == at
  <2>2. view' = ReduceEvent(view, ReplanDecided(o, n, FALSE), spec)
    BY <1>6, <2>1
  <2> HIDE DEF n, o
  <2>3. view' = view
    BY <2>2, <1>2, AcceptReplan
  <2>4. mem' = mem /\ pc' = "finish" /\ at' = at /\ verdict'.terminal = "insufficient_evidence"
    BY <1>1, <1>8 DEF DecideReplan, Admitted, Conclude, Goto
  <2> QED
    BY <1>1, <1>2, <1>3, <1>4, <1>5, <1>6, <1>8, <2>3, <2>4
<1> QED
  BY <1>7, <1>8

\* A decision on a replan.
LEMMA ReplanSteps ==
    ASSUME TypeInv, BookInv, RecoverReplan \/ ReplanAfterAnswer
    PROVE  BookInv'
<1>1. /\ at \in DOMAIN Operations /\ at \in Ops /\ at \in Nat /\ Running /\ Entry(at).status = "succeeded"
      /\ Admitted => /\ view' = [view EXCEPT !.ledger = RecordReplan(view.ledger)]
                     /\ mem' = [mem EXCEPT !.ledger = RecordReplan(mem.ledger)]
      /\ ~Admitted => view' = view /\ mem' = mem
      /\ \/ pc' = "loop" /\ at' = at + 1
         \/ pc' = "finish" /\ at' = at /\ verdict'.terminal = "insufficient_evidence"
      /\ UNCHANGED inputs
  BY ReplanEffect
<1>2. /\ view \in ViewType /\ view.ledger \in LedgerType /\ mem \in MemType
      /\ Agreement /\ LoopStands /\ DOMAIN Operations = 1..Len(Operations) /\ Len(Operations) \in Nat
  BY BookTypes, ConfigurationTypes DEF BookInv
<1>3. /\ Agreement' /\ Books' /\ RejectedByRetries'
      /\ Operations' = Operations /\ \A op : Entry(op)' = Entry(op)
  <2>1. CASE ~Admitted
    BY <2>1, <1>1, QuietBooks
  <2>2. CASE Admitted
    <3> DEFINE v == view.ledger
               l == RecordReplan(v)
               x == mem.ledger.elapsed
               m == mem.ledger
               k == RecordReplan(m)
    <3>1. v \in LedgerType /\ x \in Nat /\ m = [v EXCEPT !.elapsed = x]
      BY <1>1, <1>2, BookTypes DEF Agreement
    <3>2. /\ l \in LedgerType /\ l.reservations = v.reservations /\ l.charges = v.charges
          /\ l.calls = v.calls /\ l.input = v.input /\ l.output = v.output
      <4>1. l \in LedgerType
        BY <1>2, RecordReplanType
      <4> QED
        BY <1>2, <4>1 DEF RecordReplan, LedgerType
    <3> HIDE DEF m, v
    <3>3. k = [l EXCEPT !.elapsed = x]
      <4> HIDE DEF x
      <4> QED
        BY <3>1, SameUpdates
    <3>4. view' = [view EXCEPT !.ledger = l] /\ mem' = [mem EXCEPT !.ledger = k]
      BY <1>1, <2>2 DEF m, v
    <3> HIDE DEF l, k
    <3>5. /\ mem'.ledger = k /\ mem'.journal = mem.journal /\ mem'.status = mem.status
      BY <3>4, <1>2 DEF MemType
    <3>6. k.elapsed = x
      BY <3>3, <3>2 DEF LedgerType
    <3>7. mem'.ledger = [l EXCEPT !.elapsed = mem'.ledger.elapsed]
      BY <3>3, <3>5, <3>6
    <3> QED
      BY <3>2, <3>4, <3>5, <3>7, <1>1, LedgerAside DEF v
  <2> QED
    BY <2>1, <2>2
<1>4. \A p \in DOMAIN Operations : p < at + 1 => Entry(p).status = "succeeded"
  BY <1>1, <1>2 DEF LoopStands
<1>5. LoopStands'
  <2>1. CASE pc' = "loop" /\ at' = at + 1
    BY <2>1, <1>3, <1>4 DEF LoopStands
  <2>2. CASE pc' = "finish" /\ at' = at /\ verdict'.terminal = "insufficient_evidence"
    BY <2>2, <1>1, <1>2, <1>3 DEF LoopStands
  <2> QED
    BY <1>1, <2>1, <2>2
<1> QED
  BY <1>3, <1>5 DEF BookInv

\* The transitions of the run's status, by a process that knows it.
LEMMA LifecycleEffect ==
    ASSUME TypeInv, BookInv, ApproveBrief \/ BeginResearch \/ FinishLifecycle \/ Complete
    PROVE  \E to : /\ CanTransition(view.status, to)
                   /\ to = "validating" => pc = "finish" /\ verdict.terminal = "complete"
                   /\ Running /\ view.ok
                   /\ stream' = Append(stream, Lifecycle(view.status, to))
                   /\ view' = [view EXCEPT !.status = to] /\ mem' = [mem EXCEPT !.status = to]
                   /\ pc' \in {"research", "loop", "validated", "checkpoint"}
                   /\ UNCHANGED <<inputs, at, clock, cancelled, reply, verdict, counters, torn, checkpoint>>
<1>1. PICK to : /\ LifecycleTo(to)
                /\ to = "validating" => pc = "finish" /\ verdict.terminal = "complete"
  <2>1. verdict.terminal # "validating"
    BY BookTypes DEF ProcessOK, VerdictType, TERMINAL
  <2> QED
    BY <2>1 DEF ApproveBrief, BeginResearch, FinishLifecycle, Complete
<1>2. /\ UNCHANGED <<inputs, at, clock, cancelled, reply, verdict, counters>> /\ Running
      /\ pc' \in {"research", "loop", "validated", "checkpoint"}
  BY DEF ApproveBrief, BeginResearch, FinishLifecycle, Complete, Running, Goto
<1>3. view.ok /\ mem.status = view.status
  BY <1>2 DEF BookInv, Agreement
<1>4. /\ CanTransition(view.status, to)
      /\ stream' = Append(stream, Lifecycle(view.status, to))
      /\ view' = ReduceEvent(view, Lifecycle(view.status, to), spec)
      /\ mem' = [mem EXCEPT !.status = to]
      /\ UNCHANGED <<torn, checkpoint>>
  BY <1>1, <1>3 DEF LifecycleTo, AppendEvent
<1>5. view' = [view EXCEPT !.status = to]
  BY <1>3, <1>4, AcceptLifecycle
<1> QED
  BY <1>1, <1>2, <1>3, <1>4, <1>5

\* A run is only closed as complete by a loop that has gone past its operations.
LEMMA LifecycleSteps ==
    ASSUME TypeInv, BookInv, ApproveBrief \/ BeginResearch \/ FinishLifecycle \/ Complete
    PROVE  BookInv'
<1>1. PICK to : /\ CanTransition(view.status, to)
                /\ to = "validating" => pc = "finish" /\ verdict.terminal = "complete"
                /\ Running /\ view.ok
                /\ view' = [view EXCEPT !.status = to] /\ mem' = [mem EXCEPT !.status = to]
                /\ pc' \in {"research", "loop", "validated", "checkpoint"}
                /\ UNCHANGED <<inputs, at>>
  BY LifecycleEffect
<1>3. /\ view \in ViewType /\ view.ledger \in LedgerType /\ mem \in MemType
      /\ mem.status = view.status /\ mem.ledger = [view.ledger EXCEPT !.elapsed = mem.ledger.elapsed]
      /\ Agreement /\ Books /\ LoopStands
      /\ DOMAIN Operations = 1..Len(Operations) /\ Len(Operations) \in Nat /\ at \in Nat
  BY <1>1, BookTypes, ConfigurationTypes DEF BookInv, Agreement, ProcessOK
<1>6. /\ view'.status = to /\ view'.ok = view.ok /\ view'.ledger = view.ledger
      /\ view'.journal = view.journal
      /\ mem'.status = to /\ mem'.ledger = mem.ledger /\ mem'.journal = mem.journal
  BY <1>1, <1>3 DEF ViewType, MemType
<1>7. to \in {"validating", "complete"} => \A op \in DOMAIN Operations : Entry(op).status = "succeeded"
  <2>1. CASE to = "validating"
    BY <2>1, <1>1, <1>3 DEF LoopStands
  <2>2. CASE to = "complete"
    <3>1. view.status = "validating"
      BY <2>2, <1>1 DEF CanTransition, ALLOWED, TERMINAL
    <3> QED
      BY <3>1, <1>3 DEF Books, ClosedWhenDone
  <2> QED
    BY <2>1, <2>2
<1>8. /\ Agreement' /\ Books' /\ RejectedByRetries'
      /\ Operations' = Operations /\ \A op : Entry(op)' = Entry(op)
  <2>1. /\ mem'.status = view'.status /\ view'.ok
        /\ mem'.ledger = [view'.ledger EXCEPT !.elapsed = mem'.ledger.elapsed]
        /\ view'.ledger \in LedgerType
        /\ view'.status \in {"validating", "complete"} =>
              \A op \in DOMAIN Operations : Entry(op).status = "succeeded"
    BY <1>1, <1>3, <1>6, <1>7
  <2> QED
    BY <2>1, <1>1, <1>6, StillStep
<1> QED
  BY <1>1, <1>3, <1>8 DEF BookInv, LoopStands

\* What a replay concludes, it concludes the same of its own conclusions.
LEMMA SettledFinalize ==
    ASSUME NEW v \in ViewType, NEW op \in Ops
    PROVE  /\ Settled(Finalize(v).journal[op]) = Settled(v.journal[op])
           /\ Concluded(v.journal) => Concluded(Finalize(v).journal)
<1>1. \A o \in Ops : Finalize(v).journal[o] =
                       IF v.journal[o].status = "started"
                       THEN [v.journal[o] EXCEPT !.status = "outcome_unknown", !.error = "unknown_outcome"]
                       ELSE v.journal[o]
  BY DEF Finalize, ViewType
<1>2. \A o \in Ops : v.journal[o] \in RecordType
  BY DEF ViewType, JournalType
<1>3. \A r \in RecordType :
        LET q == [r EXCEPT !.status = "outcome_unknown", !.error = "unknown_outcome"]
        IN  r.status = "started" =>
              q.status = "outcome_unknown" /\ q.error = "unknown_outcome" /\ Settled(q) = q
  BY DEF RecordType, Absent, Settled
<1>4. Settled(Finalize(v).journal[op]) = Settled(v.journal[op])
  BY <1>1, <1>2, <1>3 DEF Settled
<1>5. ASSUME Concluded(v.journal), NEW o \in Ops, Finalize(v).journal[o].status = "outcome_unknown"
      PROVE  Finalize(v).journal[o].error = "unknown_outcome"
  <2> DEFINE r == v.journal[o]
             q == Finalize(v).journal[o]
             lost == [r EXCEPT !.status = "outcome_unknown", !.error = "unknown_outcome"]
  <2>1. r \in RecordType /\ q = IF r.status = "started" THEN lost ELSE r
    BY <1>1, <1>2
  <2>2. r.status = "outcome_unknown" => r.error = "unknown_outcome"
    BY <1>5 DEF Concluded
  <2>3. r.status = "started" => lost.error = "unknown_outcome"
    BY <2>1, <1>3
  <2>4. q.status = "outcome_unknown"
    BY <1>5
  <2> HIDE DEF r, q, lost
  <2>5. q.error = "unknown_outcome"
    BY <2>1, <2>2, <2>3, <2>4
  <2> QED
    BY <2>5 DEF q
<1> QED
  BY <1>4, <1>5 DEF Concluded

\* A new process on the stream; the first one writes its first event.
LEMMA StartEffect ==
    ASSUME TypeInv, BookInv, Start
    PROVE  /\ view' = view /\ UNCHANGED inputs
           /\ stream' = stream \/ stream' = Append(stream, RunStarted)
<1>1. view.ok /\ UNCHANGED inputs
  BY DEF Start
<1>2. CASE stream = <<>>
  <2>1. view' = ReduceEvent(view, RunStarted, spec) /\ stream' = Append(stream, RunStarted)
    BY <1>2 DEF Start, AppendEvent
  <2> QED
    BY <2>1, <1>1, AcceptNotes
<1>3. CASE stream # <<>>
  BY <1>3, <1>1 DEF Start, durables
<1> QED
  BY <1>2, <1>3

\* It takes its books from the stream.
LEMMA StartBooks ==
    ASSUME TypeInv, BookInv, Start
    PROVE  BookInv'
<1>1. /\ UNCHANGED inputs /\ view.ok /\ at' = 1 /\ pc' \in {"approve", "loop"}
      /\ mem' = [status |-> view.status, ledger |-> view.ledger, journal |-> Finalize(view).journal]
  BY DEF Start, StartProcess, Goto
<1>2. view \in ViewType /\ view.ledger \in LedgerType /\ Books /\ DOMAIN Operations \subseteq Nat \ {0}
  <2>1. DOMAIN Operations = 1..Len(Operations) /\ Len(Operations) \in Nat
    BY BookTypes, ConfigurationTypes
  <2> QED
    BY <2>1, BookTypes DEF BookInv
<1>3. view' = view
  BY StartEffect
<1>4. /\ Operations' = Operations /\ \A op : Entry(op)' = Entry(op)
  BY <1>1, <1>3, FixedInputs DEF Entry
<1>5. Books'
  BY <1>1, <1>2, <1>3, BooksStill DEF Books, ClosedWhenDone
<1>6. Agreement'
  <2>1. /\ mem'.status = view.status /\ mem'.ledger = view.ledger
        /\ mem'.journal = Finalize(view).journal
    BY <1>1
  <2>2. mem'.ledger = [view.ledger EXCEPT !.elapsed = mem'.ledger.elapsed]
    BY <2>1, <1>2 DEF LedgerType
  <2>3. /\ \A op \in Ops : Settled(Finalize(view).journal[op]) = Settled(view.journal[op])
        /\ Ops = {} \/ Concluded(Finalize(view).journal)
    BY <1>2, SettledFinalize DEF Books, Recorded
  <2>4. Concluded(mem'.journal)
    BY <2>1, <2>3 DEF Concluded
  <2> QED
    BY <1>1, <1>3, <2>1, <2>2, <2>3, <2>4 DEF Agreement, Entry
<1>7. \A p \in DOMAIN Operations : ~(p < 1)
  BY <1>2
<1> QED
  BY <1>1, <1>3, <1>4, <1>5, <1>6, <1>7 DEF BookInv, LoopStands, RejectedByRetries

\* An empty stream, and no process.
LEMMA InitBooks == Init => BookInv
<1> SUFFICES ASSUME Init PROVE BookInv
  OBVIOUS
<1>1. /\ view.ok /\ view.status = "brief_pending" /\ view.ledger = EmptyLedger
      /\ \A op \in Ops : Entry(op).status = "absent" /\ Entry(op).attempt = 0
      /\ pc = "down"
  BY DEF Init, InitialView, Entry, Absent
<1>2. view.ledger.reservations = {} /\ view.ledger.charges = {}
  BY <1>1 DEF EmptyLedger
<1>3. DOMAIN Operations \subseteq Ops
  BY ConfigurationAssumption DEF Init, Operations, ScriptAssumption
<1>4. OpenOps = {}
  BY <1>1, <1>3 DEF OpenOps, Open
<1>5. Books
  BY <1>1, <1>2, <1>4
     DEF Books, InOrder, Recorded, Concluded, HeldExactly, HeldAffordable, ChargedPast, ClosedWhenDone, Entry
<1> QED
  BY <1>1, <1>5 DEF BookInv, Agreement, LoopStands, RejectedByRetries, Running

\* Every step keeps the books.
THEOREM StepBookInv == TypeInv /\ BookInv /\ [Next]_vars => BookInv'
<1> SUFFICES ASSUME TypeInv, BookInv, [Next]_vars PROVE BookInv'
  OBVIOUS
<1>1. CASE UNCHANGED vars \/ RequestCancel \/ WriteCheckpoint
  BY <1>1, AsideSteps
<1>2. CASE Crash \/ CrashWhileAppending
  BY <1>2, EndingSteps
<1>3. CASE Launch
  BY <1>3, StartBooks, EndingSteps DEF Launch
<1>4. CASE ApproveBrief \/ BeginResearch \/ FinishLifecycle \/ Complete
  BY <1>4, LifecycleSteps
<1>5. CASE PlanOperation
  <2> DEFINE r == ReservationOf(at, 1)
  <2>1. CASE CanReserve(mem.ledger, spec, r)
    BY <1>5, <2>1, ReserveBooks
  <2>2. CASE ~CanReserve(mem.ledger, spec, r)
    BY <1>5, <2>2, EndingSteps
  <2> QED
    BY <2>1, <2>2
<1>6. CASE ReserveRetry
  <2> DEFINE n == attempt + 1
             r == ReservationOf(at, n)
  <2>1. CASE CanReserve(mem.ledger, spec, r)
    BY <1>6, <2>1, ReserveBooks
  <2>2. CASE ~CanReserve(mem.ledger, spec, r)
    BY <1>6, <2>2, EndingSteps
  <2> QED
    BY <2>1, <2>2
<1>7. CASE Looping
  BY <1>5, <1>7, QuietSteps, ReplanSteps, CancelBooks, ScheduleSteps DEF Looping
<1>8. CASE Attempting
  BY <1>6, <1>8, ElapsedSteps, DispatchBooks, QuietSteps, EndingSteps, UnknownBooks, OutcomeBooks,
     ReplanSteps, ScheduleSteps DEF Attempting
<1>9. CASE Finishing
  BY <1>9, QuietSteps, LifecycleSteps, AsideSteps DEF Finishing
<1> QED
  BY <1>1, <1>2, <1>3, <1>4, <1>7, <1>8, <1>9 DEF Next, Execute

\* The books are in order in every reachable state.
THEOREM BooksInOrder == Spec => [](TypeInv /\ BookInv)
<1>1. Init => TypeInv /\ BookInv
  BY InitType, InitBooks
<1>2. TypeInv /\ BookInv /\ [Next]_vars => (TypeInv /\ BookInv)'
  BY StepTypeInv, StepBookInv
<1> QED
  BY <1>1, <1>2, PTL DEF Spec

---------------------------------------------------------------------------
(* What the books are good for *)

\* What a replay makes of a record that has the error code of its status.
LEMMA ConcludedRecord ==
    ASSUME NEW r \in RecordType, r.status = "outcome_unknown" => r.error = "unknown_outcome",
           NEW f, f = IF r.status = "started"
                      THEN [r EXCEPT !.status = "outcome_unknown", !.error = "unknown_outcome"] ELSE r
    PROVE  (IF f.status = "reserved" THEN [f EXCEPT !.error = "none"] ELSE f) = Settled(r)
<1>1. CASE r.status = "started"
  <2>1. f.status = "outcome_unknown" /\ f = Settled(r)
    BY <1>1 DEF RecordType, Absent, Settled
  <2> QED
    BY <2>1
<1>2. CASE r.status = "outcome_unknown"
  <2>1. f = r /\ [r EXCEPT !.status = "outcome_unknown", !.error = "unknown_outcome"] = r
    BY <1>2 DEF RecordType, Absent
  <2> QED
    BY <1>2, <2>1 DEF Settled
<1>3. CASE r.status \notin {"started", "outcome_unknown"}
  BY <1>3 DEF Settled
<1> QED
  BY <1>1, <1>2, <1>3

\* So a concluded journal, without its leftovers, is settled record by record.
LEMMA SettledJournal ==
    ASSUME NEW v, NEW j \in JournalType, v.journal = j, Concluded(j),
           Finalize(v).journal = [op \in Ops |->
              IF j[op].status = "started"
              THEN [j[op] EXCEPT !.status = "outcome_unknown", !.error = "unknown_outcome"]
              ELSE j[op]]
    PROVE  WithoutLeftovers(Finalize(v).journal) = [op \in Ops |-> Settled(j[op])]
<1> DEFINE f == Finalize(v).journal
<1>1. ASSUME NEW op \in Ops
      PROVE  (IF f[op].status = "reserved" THEN [f[op] EXCEPT !.error = "none"] ELSE f[op]) = Settled(j[op])
  <2> DEFINE r == j[op]
             g == f[op]
  <2>1. /\ r \in RecordType /\ (r.status = "outcome_unknown" => r.error = "unknown_outcome")
        /\ g = IF r.status = "started"
               THEN [r EXCEPT !.status = "outcome_unknown", !.error = "unknown_outcome"] ELSE r
    BY DEF JournalType, Concluded
  <2> HIDE DEF r, g
  <2>2. (IF g.status = "reserved" THEN [g EXCEPT !.error = "none"] ELSE g) = Settled(r)
    BY <2>1, ConcludedRecord
  <2> QED
    BY <2>2 DEF r, g
<1> HIDE DEF f
<1>2. WithoutLeftovers(f) = [op \in Ops |-> Settled(j[op])]
  BY <1>1 DEF WithoutLeftovers
<1> QED
  BY <1>2 DEF f

\* The memory of a process tells what a replay of its stream would tell.
LEMMA AgreementSuffices == TypeInv /\ BookInv => MemoryAgreesWithStream
<1> SUFFICES ASSUME TypeInv, BookInv, Running, view.ok PROVE
       /\ mem.status = view.status
       /\ [mem.ledger EXCEPT !.elapsed = view.ledger.elapsed] = view.ledger
       /\ WithoutLeftovers(Finalize(mem).journal) = WithoutLeftovers(Finalize(view).journal)
  BY DEF MemoryAgreesWithStream
<1>1. /\ mem \in MemType /\ view \in ViewType /\ view.ledger \in LedgerType
      /\ mem.journal \in JournalType /\ view.journal \in JournalType
      /\ mem.status = view.status /\ mem.ledger = [view.ledger EXCEPT !.elapsed = mem.ledger.elapsed]
      /\ Concluded(mem.journal) /\ Concluded(view.journal)
      /\ \A op \in Ops : Settled(mem.journal[op]) = Settled(view.journal[op])
  BY BookTypes DEF BookInv, Agreement, Books, Recorded, Entry
<1>2. [mem.ledger EXCEPT !.elapsed = view.ledger.elapsed] = view.ledger
  BY <1>1 DEF LedgerType
<1>3. /\ Finalize(mem).journal = [op \in Ops |->
              IF mem.journal[op].status = "started"
              THEN [mem.journal[op] EXCEPT !.status = "outcome_unknown", !.error = "unknown_outcome"]
              ELSE mem.journal[op]]
      /\ Finalize(view).journal = [op \in Ops |->
              IF view.journal[op].status = "started"
              THEN [view.journal[op] EXCEPT !.status = "outcome_unknown", !.error = "unknown_outcome"]
              ELSE view.journal[op]]
  BY <1>1 DEF Finalize, MemType, ViewType
<1>4. WithoutLeftovers(Finalize(mem).journal) = [op \in Ops |-> Settled(mem.journal[op])]
  <2>1. mem.journal \in JournalType /\ Concluded(mem.journal)
    BY <1>1 DEF MemType
  <2> QED
    BY <1>3, <2>1, SettledJournal
<1>5. WithoutLeftovers(Finalize(view).journal) = [op \in Ops |-> Settled(view.journal[op])]
  <2>1. view.journal \in JournalType /\ Concluded(view.journal)
    BY <1>1 DEF ViewType
  <2> QED
    BY <1>3, <2>1, SettledJournal
<1> QED
  BY <1>1, <1>2, <1>4, <1>5

\* MemoryAgreesWithStream for every script, budget, retry schedule and choice
\* of crash points: what run() keeps in its copies beside every append is what
\* the reducer would read back.
THEOREM MemoryIsReplay == Spec => []MemoryAgreesWithStream
BY BooksInOrder, AgreementSuffices, PTL

\* CompleteOnlyIfAllSucceeded for every instance: no order of crashes, retries
\* and resumes closes a run whose script has an operation left.
THEOREM CompleteIsWhole == Spec => []CompleteOnlyIfAllSucceeded
<1>1. BookInv => CompleteOnlyIfAllSucceeded
  BY DEF BookInv, Books, ClosedWhenDone, CompleteOnlyIfAllSucceeded, Entry
<1> QED
  BY <1>1, BooksInOrder, PTL

\* An attempt in flight that the limit on retries has no room for.
RetryUncharged ==
    \E op \in Ops : /\ view.journal[op].status = "started"
                    /\ ~Within(view.ledger.retries + view.journal[op].attempt - 1, spec.maxRetries)

\* The only way to leave an unreadable stream behind is a retry that was
\* dispatched beyond max_retries and whose outcome the ledger then refuses
\* (RetryLimitZero shows that way taken); without a limit on retries
\* StreamStaysReplayable holds for every instance.
THEOREM OnlyRetriesReject ==
    Spec => [](/\ StreamStaysReplayable \/ RetryUncharged
               /\ spec.maxRetries = NoLimit => StreamStaysReplayable)
<1>1. BookInv => /\ StreamStaysReplayable \/ RetryUncharged
                 /\ spec.maxRetries = NoLimit => StreamStaysReplayable
  BY DEF BookInv, RejectedByRetries, StreamStaysReplayable, RetryUncharged, Within, Entry
<1> QED
  BY <1>1, BooksInOrder, PTL
=============================================================================
