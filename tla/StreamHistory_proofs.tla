------------------------ MODULE StreamHistory_proofs ------------------------
(***************************************************************************)
(* What the stream tells of the past of a run, carried along as invariants *)
(* on top of the books: how many attempts were dispatched and what they    *)
(* may have cost (Quotas), which replans were decided (Replans), how long  *)
(* every retry waited (Time), and that the view and the checkpoint are     *)
(* what a replay of the stream gives (Replays). Each part is an invariant  *)
(* of its own and proves one property of the runs. The last sections show  *)
(* that the harness implements DurableDispatch, whose state can be read    *)
(* off the books and the place of the process.                             *)
(***************************************************************************)
EXTENDS CrashSafeHarness_proofs, WellFoundedInduction

---------------------------------------------------------------------------
(* Sums over at most one reservation *)

\* Nothing reserved, no tokens.
LEMMA TokensOfNone == Tokens({}) = 0
<1>1. Tokens({}) = MapThenFoldSet(+, 0, LAMBDA r : Total(r.usage), LAMBDA s : CHOOSE x \in s : TRUE, {})
  BY DEF Tokens, MapThenSumSet
<1>2. \A g : g = [s \in SUBSET {} |->
                    IF s = {} THEN 0
                    ELSE LET x == CHOOSE x \in s : TRUE IN Total(x.usage) + g[s \ {x}]]
              => g[{}] = 0
  OBVIOUS
<1> QED
  BY <1>1, <1>2 DEF MapThenFoldSet

\* One reservation, its tokens.
LEMMA TokensOfOne ==
    ASSUME NEW r, Total(r.usage) \in Nat
    PROVE  Tokens({r}) = Total(r.usage)
<1> DEFINE T(x) == Total(x.usage)
           C(s) == CHOOSE x \in s : TRUE
           w == [s \in SUBSET {r} |-> IF s = {} THEN 0 ELSE T(r)]
           Folds(g) == g = [s \in SUBSET {r} |->
                              IF s = {} THEN 0 ELSE LET x == C(s) IN T(x) + g[s \ {x}]]
<1>1. Tokens({r}) = MapThenFoldSet(+, 0, T, C, {r})
  BY DEF Tokens, MapThenSumSet
<1>2. \A s : s \in SUBSET {r} <=> s = {} \/ s = {r}
  OBVIOUS
<1>c. C({r}) = r /\ {r} \ {r} = {} /\ {r} # {}
  OBVIOUS
<1>3. T(r) \in Nat
  OBVIOUS
<1> HIDE DEF C, T
<1>4. \A s \in SUBSET {r} : w[s] = IF s = {} THEN 0 ELSE LET x == C(s) IN T(x) + w[s \ {x}]
  <2>1. w[{}] = 0 /\ w[{r}] = T(r)
    BY <1>2, <1>c
  <2>2. \A s : s = {} \/ s = {r} => w[s] = IF s = {} THEN 0 ELSE LET x == C(s) IN T(x) + w[s \ {x}]
    <3> HIDE DEF w
    <3>1. T(r) + w[{}] = T(r)
      BY <2>1, <1>3
    <3>2. T(C({r})) + w[{r} \ {C({r})}] = w[{r}]
      BY <1>c, <2>1, <3>1
    <3> QED
      BY <1>c, <2>1, <3>2
  <2> QED
    BY <1>2, <2>2
<1>5. Folds(w)
  BY <1>4
<1>6. \A g : Folds(g) => g[{r}] = T(r)
  <2> SUFFICES ASSUME NEW g, Folds(g) PROVE g[{r}] = T(r)
    OBVIOUS
  <2>1. g[{}] = 0
    BY <1>2
  <2>2. g[{r}] = T(C({r})) + g[{r} \ {C({r})}]
    <3>1. \A s \in SUBSET {r} : g[s] = IF s = {} THEN 0 ELSE LET x == C(s) IN T(x) + g[s \ {x}]
      OBVIOUS
    <3>2. {r} \in SUBSET {r}
      BY <1>2
    <3> HIDE DEF Folds
    <3> QED
      BY <3>1, <3>2, <1>c
  <2>3. g[{r}] = T(r) + g[{}]
    BY <2>2, <1>c
  <2> QED
    BY <2>1, <2>3, <1>3
<1>7. MapThenFoldSet(+, 0, T, C, {r}) = (CHOOSE g : Folds(g))[{r}]
  BY DEF MapThenFoldSet
<1> HIDE DEF w, Folds
<1>8. (CHOOSE g : Folds(g))[{r}] = T(r)
  BY <1>5, <1>6
<1> QED
  BY <1>1, <1>7, <1>8 DEF T

---------------------------------------------------------------------------
(* How a stream grows *)

\* The stream with one more event, position by position.
LEMMA Grown ==
    ASSUME NEW s \in Seq(EventType), NEW e, NEW t, t = Append(s, e)
    PROVE  /\ Len(s) \in Nat /\ Len(t) = Len(s) + 1
           /\ DOMAIN s = 1..Len(s) /\ DOMAIN t = DOMAIN s \cup {Len(s) + 1}
           /\ Len(s) + 1 \notin DOMAIN s
           /\ \A i \in DOMAIN s : t[i] = s[i] /\ i < Len(s) + 1
           /\ t[Len(s) + 1] = e
           /\ IsFiniteSet(DOMAIN s)
<1>1. Len(s) \in Nat /\ DOMAIN s = 1..Len(s)
  OBVIOUS
<1>2. IsFiniteSet(1..Len(s))
  BY <1>1, FS_Interval
<1> QED
  BY <1>1, <1>2

\* Positions counted before and after.
LEMMA CountGrown ==
    ASSUME NEW s \in Seq(EventType), NEW S \in SUBSET (DOMAIN s)
    PROVE  /\ IsFiniteSet(S) /\ Cardinality(S) \in Nat
           /\ Cardinality(S \cup {Len(s) + 1}) = Cardinality(S) + 1
<1>1. IsFiniteSet(DOMAIN s) /\ Len(s) + 1 \notin DOMAIN s
  <2> DEFINE t == Append(s, 0)
  <2>1. IsFiniteSet(DOMAIN s) /\ Len(s) + 1 \notin DOMAIN s
    BY Grown
  <2> QED
    BY <2>1
<1>2. IsFiniteSet(S)
  BY <1>1, FS_Subset
<1>3. Cardinality(S) \in Nat
  BY <1>2, FS_CardinalityType
<1>4. Cardinality(S \cup {Len(s) + 1}) = IF Len(s) + 1 \in S THEN Cardinality(S) ELSE Cardinality(S) + 1
  BY <1>2, FS_AddElement
<1> QED
  BY <1>1, <1>2, <1>3, <1>4

\* An event that leaves the journal and what was reserved and charged alone.
Notes(e) ==
    /\ stream' = Append(stream, e)
    /\ e.type \in {"run_started", "lifecycle_transition", "retry_scheduled", "replan_decided",
                   "elapsed_recorded"}
    /\ view'.ok /\ view'.journal = view.journal
    /\ view'.ledger.reservations = view.ledger.reservations
    /\ view'.ledger.charges = view.ledger.charges /\ view'.ledger.calls = view.ledger.calls
    /\ view'.ledger.input = view.ledger.input /\ view'.ledger.output = view.ledger.output
    /\ e.type # "replan_decided" => view'.ledger.replans = view.ledger.replans
    /\ e.type # "elapsed_recorded" => view'.ledger.elapsed = view.ledger.elapsed

\* ... and the actions that write each kind of it.
Tells(e) ==
    /\ Notes(e)
    /\ e.type = "replan_decided" => RecoverReplan \/ ReplanAfterAnswer
    /\ e.type = "retry_scheduled" => RetryUnscheduled \/ ScheduleRetry
    /\ e.type = "elapsed_recorded" => Backoff \/ SettleUnknown \/ SettleSuccess \/ SettleFailure

\* The reservation of attempt n, which either of the two actions makes.
Reserving(n) ==
    /\ CanReserve(mem.ledger, spec, ReservationOf(at, n))
    /\ \/ PlanOperation /\ n = 1
       \/ ReserveRetry /\ n = attempt + 1

\* The steps that write nothing.
Silent ==
    \/ SkipSucceeded \/ GiveUp \/ TakeUpAttempt \/ RetryScheduledBefore \/ DispatchTooLate
    \/ DispatchRejected \/ CallExternal \/ LoopExhausted \/ FinishWithoutLifecycle
    \/ WriteCheckpoint \/ RequestCancel \/ Crash \/ CrashWhileAppending \/ StartRejected
    \/ UNCHANGED vars
    \/ PlanOperation /\ ~CanReserve(mem.ledger, spec, ReservationOf(at, 1))
    \/ ReserveRetry /\ ~CanReserve(mem.ledger, spec, ReservationOf(at, attempt + 1))

\* The steps that write an event and touch no book but the replans and the time.
Noting ==
    \/ Start \/ ApproveBrief \/ BeginResearch \/ FinishLifecycle \/ Complete
    \/ RetryUnscheduled \/ ScheduleRetry \/ RecoverReplan \/ ReplanAfterAnswer
    \/ Backoff \/ SettleUnknown \/ SettleSuccess \/ SettleFailure

\* Every step is of one of these kinds.
LEMMA StepKinds ==
    ASSUME [Next]_vars
    PROVE  \/ Silent \/ Noting \/ Dispatch \/ RecordUnknown \/ RecordSuccess \/ RecordFailure
           \/ CancelOperation \/ \E n : Reserving(n)
<1>1. PlanOperation => Silent \/ Reserving(1)
  BY DEF Silent, Reserving
<1>2. ReserveRetry => Silent \/ Reserving(attempt + 1)
  BY DEF Silent, Reserving
<1>3. Looping => PlanOperation \/ Silent \/ Noting \/ CancelOperation
  BY DEF Looping, Silent, Noting
<1>4. Attempting => \/ ReserveRetry \/ Silent \/ Noting \/ Dispatch \/ RecordUnknown
                    \/ RecordSuccess \/ RecordFailure
  BY DEF Attempting, Silent, Noting
<1>5. Finishing \/ Launch \/ ApproveBrief \/ BeginResearch => Silent \/ Noting
  BY DEF Finishing, Launch, Silent, Noting
<1>6. RequestCancel \/ Crash \/ CrashWhileAppending \/ UNCHANGED vars => Silent
  BY DEF Silent
<1> QED
  BY <1>1, <1>2, <1>3, <1>4, <1>5, <1>6 DEF Next, Execute

\* A silent step leaves the stream and what it says alone.
LEMMA SilentEffect ==
    ASSUME Silent
    PROVE  UNCHANGED <<inputs, stream, view>>
BY DEF Silent, SkipSucceeded, GiveUp, TakeUpAttempt, RetryScheduledBefore, DispatchTooLate,
       DispatchRejected, CallExternal, LoopExhausted, FinishWithoutLifecycle, WriteCheckpoint,
       RequestCancel, Crash, CrashWhileAppending, StartRejected, PlanOperation, ReserveRetry,
       durables, vars

\* A noting step writes a note, unless it starts a process on an old stream.
LEMMA NotingEffect ==
    ASSUME TypeInv, BookInv, Noting
    PROVE  /\ UNCHANGED inputs
           /\ UNCHANGED <<stream, view>> \/ \E e : Tells(e)
<1>t. view \in ViewType /\ view.ledger \in LedgerType
  BY BookTypes
<1>1. CASE Start
  <2>1. view.ok
    BY <1>1 DEF Start
  <2>2. stream' = Append(stream, RunStarted) /\ view' = view => Notes(RunStarted)
    BY <2>1 DEF Notes, RunStarted
  <2>3. RunStarted.type = "run_started"
    BY DEF RunStarted
  <2> QED
    BY <1>1, <2>2, <2>3, StartEffect DEF Tells
<1>2. CASE ApproveBrief \/ BeginResearch \/ FinishLifecycle \/ Complete
  <2>1. PICK to : /\ view.ok /\ stream' = Append(stream, Lifecycle(view.status, to))
                  /\ view' = [view EXCEPT !.status = to] /\ UNCHANGED inputs
    BY <1>2, LifecycleEffect
  <2>2. Notes(Lifecycle(view.status, to)) /\ Lifecycle(view.status, to).type = "lifecycle_transition"
    BY <2>1, <1>t DEF Notes, Lifecycle, ViewType
  <2> QED
    BY <2>1, <2>2 DEF Tells
<1>3. CASE RetryUnscheduled \/ ScheduleRetry
  <2> DEFINE d == DelayFor(backoff, attempt)
             e == RetryScheduled(at, attempt, d)
  <2>1. view.ok /\ stream' = Append(stream, e) /\ view' = view /\ UNCHANGED inputs
    BY <1>3, ScheduleEffect
  <2> HIDE DEF d
  <2>2. Notes(e) /\ e.type = "retry_scheduled"
    BY <2>1 DEF Notes, RetryScheduled
  <2> QED
    BY <1>3, <2>1, <2>2 DEF Tells
<1>4. CASE RecoverReplan \/ ReplanAfterAnswer
  <2> DEFINE e == ReplanDecided(at, attempt, Admitted)
  <2>1. /\ view.ok /\ stream' = Append(stream, e) /\ UNCHANGED inputs
        /\ Admitted => view' = [view EXCEPT !.ledger = RecordReplan(view.ledger)]
        /\ ~Admitted => view' = view
    BY <1>4, ReplanEffect
  <2>2. e.type = "replan_decided"
    BY DEF ReplanDecided
  <2> HIDE DEF e
  <2>3. Admitted => Notes(e)
    BY <2>1, <2>2, <1>t DEF Notes, RecordReplan, ViewType, LedgerType
  <2>4. ~Admitted => Notes(e)
    BY <2>1, <2>2 DEF Notes
  <2> QED
    BY <1>4, <2>1, <2>2, <2>3, <2>4 DEF Tells
<1>5. CASE Backoff \/ SettleUnknown \/ SettleSuccess \/ SettleFailure
  <2> DEFINE now == clock'
  <2>1. PICK delay \in Nat :
           /\ view.ok /\ UNCHANGED inputs
           /\ stream' = Append(stream, ElapsedRecorded(now, delay))
           /\ view' = [view EXCEPT !.ledger = RecordElapsed(view.ledger, now)]
    BY <1>5, ElapsedEffect
  <2> HIDE DEF now
  <2>2. Notes(ElapsedRecorded(now, delay)) /\ ElapsedRecorded(now, delay).type = "elapsed_recorded"
    BY <2>1, <1>t DEF Notes, ElapsedRecorded, RecordElapsed, ViewType, LedgerType
  <2>3. Tells(ElapsedRecorded(now, delay))
    BY <1>5, <2>2 DEF Tells
  <2> QED
    BY <2>1, <2>3
<1> QED
  BY <1>1, <1>2, <1>3, <1>4, <1>5 DEF Noting

---------------------------------------------------------------------------
(* Calls and tokens *)

\* Dispatches of a kind over all processes, and whether one of them is still
\* without a charge.
Sent(kind) == {i \in EventsOf("operation_dispatched") : KindOf(stream[i].op) = kind}
Flying == {"started", "outcome_unknown"}
InFlight(kind) ==
    IF \E op \in DOMAIN Operations : KindOf(op) = kind /\ Entry(op).status \in Flying THEN 1 ELSE 0

\* Every dispatch was charged as a call, or is the one in flight.
SentAreCharged == \A kind \in Kinds : Cardinality(Sent(kind)) = view.ledger.calls[kind] + InFlight(kind)

\* What was charged is within the limits, the tokens with what is held.
ChargedWithin ==
    /\ \A kind \in Kinds : /\ Within(view.ledger.calls[kind], spec.maxAttempts[kind])
                           /\ Within(view.ledger.calls[kind], spec.maxCalls[kind])
    /\ Within(view.ledger.input + view.ledger.output + Tokens(view.ledger.reservations), spec.maxTotal)

Quotas == SentAreCharged /\ ChargedWithin

\* The dispatches after one more event.
LEMMA SentGrown ==
    ASSUME TypeInv, UNCHANGED inputs, NEW e, stream' = Append(stream, e), NEW kind
    PROVE  /\ Cardinality(Sent(kind)) \in Nat
           /\ Cardinality(Sent(kind))' =
                 IF e.type = "operation_dispatched" /\ KindOf(e.op) = kind
                 THEN Cardinality(Sent(kind)) + 1 ELSE Cardinality(Sent(kind))
<1> DEFINE S == Sent(kind)
           T == Sent(kind)'
<1>1. /\ stream \in Seq(EventType) /\ DOMAIN stream' = DOMAIN stream \cup {Len(stream) + 1}
      /\ Len(stream) + 1 \notin DOMAIN stream
      /\ \A i \in DOMAIN stream : stream'[i] = stream[i]
      /\ stream'[Len(stream) + 1] = e
  BY BookTypes, Grown
<1>2. \A op : KindOf(op)' = KindOf(op)
  BY FixedInputs
<1>3. \A i : i \in S <=> i \in DOMAIN stream /\ stream[i].type = "operation_dispatched"
                                            /\ KindOf(stream[i].op) = kind
  BY DEF Sent, EventsOf
<1>4. \A i : i \in T <=> i \in DOMAIN stream' /\ stream'[i].type = "operation_dispatched"
                                             /\ KindOf(stream'[i].op) = kind
  BY <1>2 DEF Sent, EventsOf
<1>5. S \in SUBSET (DOMAIN stream)
  BY <1>3
<1> HIDE DEF S, T
<1>6. Cardinality(S) \in Nat /\ Cardinality(S \cup {Len(stream) + 1}) = Cardinality(S) + 1
  BY <1>1, <1>5, CountGrown
<1> DEFINE one == e.type = "operation_dispatched" /\ KindOf(e.op) = kind
<1>7. T = IF one THEN S \cup {Len(stream) + 1} ELSE S
  BY <1>1, <1>3, <1>4
<1> HIDE DEF one
<1>8. Cardinality(T) = IF one THEN Cardinality(S) + 1 ELSE Cardinality(S)
  BY <1>6, <1>7
<1> QED
  BY <1>6, <1>8 DEF S, T, one

\* The attempt in flight before and after the record of the loop's operation
\* is replaced.
LEMMA FlightStep ==
    ASSUME TypeInv, BookInv, UNCHANGED inputs, Running, at \in DOMAIN Operations,
           Entry(at).status # "succeeded", NEW rec, NEW l, view' = WithEntry(view, at, rec, l), NEW kind
    PROVE  /\ InFlight(kind) = IF Entry(at).status \in Flying /\ KindOf(at) = kind THEN 1 ELSE 0
           /\ InFlight(kind)' = IF rec.status \in Flying /\ KindOf(at) = kind THEN 1 ELSE 0
<1>1. view \in ViewType /\ at \in Ops /\ DOMAIN Operations \subseteq Ops
  BY BookTypes, ScriptTypes
<1>2. /\ view'.journal[at] = rec
      /\ \A op \in DOMAIN Operations : op # at => view'.journal[op] = view.journal[op]
  <2> DEFINE w == WithEntry(view, at, rec, l)
  <2>1. w.journal[at] = rec /\ \A op \in Ops : op # at => w.journal[op] = view.journal[op]
    BY <1>1, WithEntryFields
  <2> HIDE DEF w
  <2> QED
    BY <1>1, <2>1 DEF w
<1>3. \A op \in DOMAIN Operations : op # at => Entry(op).status \notin Flying
  <2>1. \A op \in OpenOps : op = at
    BY OpenAtLoop DEF BookInv, Books, LoopStands
  <2> QED
    BY <2>1 DEF OpenOps, Open, Flying
<1>4. Operations' = Operations /\ \A op : KindOf(op)' = KindOf(op)
  BY FixedInputs
<1>5. InFlight(kind) = IF Entry(at).status \in Flying /\ KindOf(at) = kind THEN 1 ELSE 0
  BY <1>3 DEF InFlight
<1>6. \A op \in DOMAIN Operations : KindOf(op)' = kind /\ view'.journal[op].status \in Flying
                                     <=> op = at /\ KindOf(at) = kind /\ rec.status \in Flying
  BY <1>2, <1>3, <1>4 DEF Entry
<1>7. InFlight(kind)' = IF rec.status \in Flying /\ KindOf(at) = kind THEN 1 ELSE 0
  BY <1>4, <1>6 DEF InFlight, Entry
<1> QED
  BY <1>5, <1>7

\* A note counts nothing.
LEMMA NoteQuotas ==
    ASSUME TypeInv, BookInv, Quotas, UNCHANGED inputs, UNCHANGED <<stream, view>> \/ \E e : Notes(e)
    PROVE  Quotas'
<1>1. /\ Operations' = Operations /\ spec' = spec /\ \A op : KindOf(op)' = KindOf(op)
  BY FixedInputs
<1>2. CASE UNCHANGED <<stream, view>>
  BY <1>1, <1>2 DEF Quotas, SentAreCharged, ChargedWithin, Sent, InFlight, Entry, EventsOf
<1>3. CASE \E e : Notes(e)
  <2>1. PICK e : Notes(e)
    BY <1>3
  <2>2. \A kind : Cardinality(Sent(kind))' = Cardinality(Sent(kind))
    BY <2>1, SentGrown DEF Notes
  <2>3. \A kind : InFlight(kind)' = InFlight(kind)
    BY <1>1, <2>1 DEF Notes, InFlight, Entry
  <2>4. SentAreCharged'
    BY <2>1, <2>2, <2>3 DEF Quotas, SentAreCharged, Notes
  <2>5. ChargedWithin'
    BY <1>1, <2>1 DEF Quotas, ChargedWithin, Notes
  <2> QED
    BY <2>4, <2>5 DEF Quotas
<1> QED
  BY <1>2, <1>3

\* A reservation counts as tokens at once.
LEMMA ReserveQuotas ==
    ASSUME TypeInv, BookInv, Quotas, NEW n, Reserving(n)
    PROVE  Quotas'
<1> DEFINE r == ReservationOf(at, n)
           l == Reserve(view.ledger, r)
           rec == [attempt |-> n, status |-> "reserved", error |-> "none"]
           e == OperationReserved(at, n, r.kind, r.usage)
<1>1. /\ at \in DOMAIN Operations /\ Running
      /\ Entry(at).status \in {"absent", "failed_known"}
      /\ view.ledger.reservations = {} /\ r \in ReservationType
      /\ Affordable(view.ledger, spec, r.kind, r.usage, TRUE)
      /\ stream' = Append(stream, e)
      /\ view' = WithEntry(view, at, rec, l)
  <2> HIDE DEF r
  <2> QED
    BY ReserveEffect DEF Reserving, r
<1>2. UNCHANGED inputs
  BY DEF Reserving, PlanOperation, ReserveRetry
<1>3. view \in ViewType /\ view.ledger \in LedgerType /\ at \in Ops
  BY <1>1, BookTypes, ScriptTypes
<1>4. e.type = "operation_reserved" /\ rec.status = "reserved"
  BY DEF OperationReserved
<1>5. l.calls = view.ledger.calls /\ l.input = view.ledger.input /\ l.output = view.ledger.output
      /\ l.reservations = {r}
  <2> HIDE DEF r
  <2> QED
    BY <1>1, <1>3 DEF Reserve, LedgerType
<1> HIDE DEF e, rec, l, r
<1>6. view'.ledger = l
  BY <1>1, <1>3, WithEntryFields
<1>7. SentAreCharged'
  <2>1. ASSUME NEW kind \in Kinds
        PROVE  Cardinality(Sent(kind))' = view'.ledger.calls[kind] + InFlight(kind)'
    <3>1. Cardinality(Sent(kind))' = Cardinality(Sent(kind))
      BY <1>1, <1>2, <1>4, SentGrown
    <3>2. InFlight(kind)' = 0 /\ InFlight(kind) = 0
      BY <1>1, <1>2, <1>4, FlightStep DEF Flying
    <3> QED
      BY <3>1, <3>2, <1>5, <1>6 DEF Quotas, SentAreCharged
  <2> QED
    BY <2>1 DEF SentAreCharged
<1>8. ChargedWithin'
  <2>1. Total(r.usage) \in Nat
    BY <1>1 DEF ReservationType, Usage, Total
  <2>2. Tokens({r}) = Total(r.usage) /\ Tokens({}) = 0 /\ ReservedTokens(view.ledger) = 0
    BY <1>1, <2>1, TokensOfNone, TokensOfOne, TokensOf
  <2>3. Within(view.ledger.input + view.ledger.output + Total(r.usage), spec.maxTotal)
    <3>1. Within(view.ledger.input + view.ledger.output + ReservedTokens(view.ledger) + Total(r.usage),
                 spec.maxTotal)
      BY <1>1 DEF Affordable
    <3>2. view.ledger.input + view.ledger.output + 0 = view.ledger.input + view.ledger.output
      BY <1>3 DEF LedgerType
    <3> QED
      BY <2>2, <3>1, <3>2
  <2>4. spec' = spec
    BY <1>2, FixedInputs
  <2> QED
    BY <1>5, <1>6, <2>2, <2>3, <2>4 DEF Quotas, ChargedWithin
<1> QED
  BY <1>7, <1>8 DEF Quotas

\* A dispatch is in flight from then on.
LEMMA DispatchQuotas ==
    ASSUME TypeInv, BookInv, Quotas, Dispatch
    PROVE  Quotas'
<1> DEFINE rec == [Entry(at) EXCEPT !.status = "started"]
           e == OperationDispatched(at, attempt)
           l == view.ledger
<1>1. /\ at \in DOMAIN Operations /\ at \in Ops /\ Running /\ Entry(at).status = "reserved"
      /\ stream' = Append(stream, e) /\ UNCHANGED inputs
      /\ view' = WithEntry(view, at, rec, l)
  BY DispatchEffect
<1>2. e.type = "operation_dispatched" /\ e.op = at
  BY DEF OperationDispatched
<1>3. rec.status = "started" /\ view \in ViewType /\ l \in LedgerType
  BY <1>1, EntryTypes, BookTypes
<1> HIDE DEF rec, e, l
<1>4. view'.ledger = l
  BY <1>1, <1>3, WithEntryFields
<1>5. ASSUME NEW kind \in Kinds
      PROVE  Cardinality(Sent(kind))' = view'.ledger.calls[kind] + InFlight(kind)'
  <2>1. /\ InFlight(kind) = 0
        /\ InFlight(kind)' = IF KindOf(at) = kind THEN 1 ELSE 0
    BY <1>1, <1>3, FlightStep DEF Flying
  <2>2. /\ Cardinality(Sent(kind)) \in Nat
        /\ Cardinality(Sent(kind))' = IF KindOf(at) = kind THEN Cardinality(Sent(kind)) + 1
                                      ELSE Cardinality(Sent(kind))
    BY <1>1, <1>2, SentGrown
  <2>3. Cardinality(Sent(kind)) = l.calls[kind] + InFlight(kind) /\ l.calls[kind] \in Nat
    BY <1>3 DEF Quotas, SentAreCharged, LedgerType, l
  <2> QED
    BY <1>4, <2>1, <2>2, <2>3
<1>6. spec' = spec
  BY <1>1, FixedInputs
<1> QED
  BY <1>4, <1>5, <1>6 DEF Quotas, SentAreCharged, ChargedWithin, l

\* An outcome that is lost leaves its attempt in flight.
LEMMA UnknownQuotas ==
    ASSUME TypeInv, BookInv, Quotas, RecordUnknown
    PROVE  Quotas'
<1> DEFINE rec == [Entry(at) EXCEPT !.status = "outcome_unknown", !.error = "unknown_outcome"]
           e == OperationUnknown(at, attempt)
           l == view.ledger
<1>1. /\ at \in DOMAIN Operations /\ at \in Ops /\ Running /\ Entry(at).status = "started"
      /\ stream' = Append(stream, e) /\ UNCHANGED inputs
      /\ view' = WithEntry(view, at, rec, l)
  BY UnknownEffect
<1>2. e.type = "operation_unknown"
  BY DEF OperationUnknown
<1>3. rec.status = "outcome_unknown" /\ view \in ViewType
  BY <1>1, EntryTypes, BookTypes
<1> HIDE DEF rec, e, l
<1>4. view'.ledger = l
  BY <1>1, <1>3, WithEntryFields
<1>5. ASSUME NEW kind \in Kinds
      PROVE  Cardinality(Sent(kind))' = view'.ledger.calls[kind] + InFlight(kind)'
  <2>1. InFlight(kind)' = InFlight(kind)
    BY <1>1, <1>3, FlightStep DEF Flying
  <2>2. Cardinality(Sent(kind))' = Cardinality(Sent(kind))
    BY <1>1, <1>2, SentGrown
  <2> QED
    BY <1>4, <2>1, <2>2 DEF Quotas, SentAreCharged, l
<1>6. spec' = spec
  BY <1>1, FixedInputs
<1> QED
  BY <1>4, <1>5, <1>6 DEF Quotas, SentAreCharged, ChargedWithin, l

\* A cancelled operation was never reserved.
LEMMA CancelQuotas ==
    ASSUME TypeInv, BookInv, Quotas, CancelOperation
    PROVE  Quotas'
<1> DEFINE rec == [attempt |-> 1, status |-> "cancelled_before_dispatch", error |-> "none"]
           e == OperationCancelled(at, 1)
           l == view.ledger
<1>1. /\ at \in DOMAIN Operations /\ at \in Ops /\ Running /\ Entry(at).status = "absent"
      /\ stream' = Append(stream, e) /\ UNCHANGED inputs
      /\ view' = WithEntry(view, at, rec, l)
  BY CancelEffect
<1>2. e.type = "operation_cancelled"
  BY DEF OperationCancelled
<1>3. rec.status = "cancelled_before_dispatch" /\ view \in ViewType
  BY BookTypes
<1> HIDE DEF rec, e, l
<1>4. view'.ledger = l
  BY <1>1, <1>3, WithEntryFields
<1>5. ASSUME NEW kind \in Kinds
      PROVE  Cardinality(Sent(kind))' = view'.ledger.calls[kind] + InFlight(kind)'
  <2>1. InFlight(kind)' = InFlight(kind)
    BY <1>1, <1>3, FlightStep DEF Flying
  <2>2. Cardinality(Sent(kind))' = Cardinality(Sent(kind))
    BY <1>1, <1>2, SentGrown
  <2> QED
    BY <1>4, <2>1, <2>2 DEF Quotas, SentAreCharged, l
<1>6. spec' = spec
  BY <1>1, FixedInputs
<1> QED
  BY <1>4, <1>5, <1>6 DEF Quotas, SentAreCharged, ChargedWithin, l

\* An outcome that is charged: it was affordable, and it is a charge now.
Charges(c, rec, l, e) ==
    /\ stream' = Append(stream, e) /\ e.op = at
    /\ e.type = IF rec.status = "succeeded" THEN "operation_succeeded" ELSE "operation_failed"
    /\ c \in ChargeType /\ c.kind = KindOf(at) /\ c.attempt = Entry(at).attempt
    /\ Affordable(Release(view.ledger, at, c.attempt), spec, c.kind, c.usage, FALSE)
    /\ rec.status \in {"succeeded", "failed_known"} /\ rec.attempt = c.attempt
    /\ view' = WithEntry(view, at, rec, l)
    /\ \A kind \in Kinds : l.calls[kind] = view.ledger.calls[kind] + (IF kind = c.kind THEN 1 ELSE 0)
    /\ l.input = view.ledger.input + c.usage.input
    /\ l.output = view.ledger.output + c.usage.output
    /\ l.reservations = {} /\ Release(view.ledger, at, c.attempt).reservations = {}
    /\ l.replans = view.ledger.replans /\ l.elapsed = view.ledger.elapsed

\* The outcome of the attempt in flight is charged so, or it is rejected.
LEMMA OutcomeKinds ==
    ASSUME TypeInv, BookInv, RecordSuccess \/ RecordFailure
    PROVE  /\ at \in DOMAIN Operations /\ at \in Ops /\ Running /\ UNCHANGED <<inputs, at, clock>>
           /\ view.ok /\ Entry(at).status = "started" /\ attempt = Entry(at).attempt
           /\ \/ \E c, rec, l, e : Charges(c, rec, l, e) /\ pc' = "settle"
              \/ \E e : /\ stream' = Append(stream, e) /\ e.op = at
                        /\ e.type \in {"operation_succeeded", "operation_failed"}
                        /\ view' = Rejected(view) /\ pc' = "raised"
<1>1. PICK outcome, error, e : /\ Records(outcome, error, e)
                               /\ outcome \in {"succeeded", "failed_known"}
                               /\ e.op = at
                               /\ e.type = IF outcome = "succeeded" THEN "operation_succeeded"
                                           ELSE "operation_failed"
  <2>1. CASE RecordSuccess
    <3> DEFINE s == OperationSucceeded(at, attempt, reply.usage, reply.status)
    <3>1. s.op = at /\ s.type = "operation_succeeded" /\ Records("succeeded", "none", s)
      BY <2>1 DEF OperationSucceeded, Records
    <3> HIDE DEF s
    <3> QED
      BY <3>1
  <2>2. CASE RecordFailure
    <3> DEFINE f == OperationFailed(at, attempt, reply.usage, FailureCode)
    <3>1. f.op = at /\ f.type = "operation_failed" /\ Records("failed_known", FailureCode, f)
      BY <2>2 DEF OperationFailed, Records
    <3> HIDE DEF f
    <3> QED
      BY <3>1
  <2> QED
    BY <2>1, <2>2
<1> DEFINE c == ChargeOf(at, attempt, outcome)
           rec == Marked(Entry(at), outcome, error)
           l == Reconcile(view.ledger, c)
<1> HIDE DEF c
<1>2. /\ at \in DOMAIN Operations /\ at \in Ops /\ Running /\ UNCHANGED <<inputs, at, clock>>
      /\ view.ok /\ Entry(at).status = "started" /\ attempt = Entry(at).attempt
      /\ stream' = Append(stream, e)
      /\ c \in ChargeType /\ c.op = at /\ c.attempt = attempt /\ c.kind = KindOf(at)
      /\ c.usage = Answer(at, attempt).usage
      /\ \/ view' = WithEntry(view, at, rec, l) /\ pc' = "settle"
         \/ view' = Rejected(view) /\ pc' = "raised"
  BY <1>1, OutcomeEffect DEF Goto, c
<1>3. Entry(at) \in RecordType /\ view.ledger \in LedgerType
  BY <1>2, EntryTypes, BookTypes
<1>4. rec.status = outcome /\ rec.attempt = Entry(at).attempt
  <2>1. [Entry(at) EXCEPT !.status = outcome, !.error = error]
            = [attempt |-> Entry(at).attempt, status |-> outcome, error |-> error]
    BY <1>3, RecordWith
  <2> QED
    BY <2>1 DEF Marked
<1>5. c \notin view.ledger.charges
  <2>1. Entry(at).attempt \in Nat
    BY <1>2, EntryTypes
  <2>2. \A k \in view.ledger.charges :
           \/ k.attempt < Entry(k.op).attempt
           \/ Entry(k.op).status \in {"succeeded", "failed_known"}
    BY DEF BookInv, Books, ChargedPast
  <2> QED
    BY <1>2, <2>1, <2>2
<1>6. /\ view.ledger.reservations = {ReservationOf(at, Entry(at).attempt)}
      /\ Affordable(Release(view.ledger, at, Entry(at).attempt), spec, KindOf(at),
                    Answer(at, Entry(at).attempt).usage, FALSE)
  BY <1>2, HeldAtLoop DEF Open
<1>7. Release(view.ledger, at, c.attempt).reservations = {}
  BY <1>2, <1>3, <1>6 DEF Release, LedgerType, ReservationOf
<1>8. /\ \A kind \in Kinds : l.calls[kind] = view.ledger.calls[kind] + (IF kind = c.kind THEN 1 ELSE 0)
      /\ l.input = view.ledger.input + c.usage.input
      /\ l.output = view.ledger.output + c.usage.output
      /\ l.reservations = Release(view.ledger, at, c.attempt).reservations
      /\ l.replans = view.ledger.replans /\ l.elapsed = view.ledger.elapsed
  BY <1>2, <1>3, <1>5, ReconcileFields
<1> HIDE DEF rec, l
<1>9. view' = WithEntry(view, at, rec, l) => Charges(c, rec, l, e)
  <2>1. Affordable(Release(view.ledger, at, c.attempt), spec, c.kind, c.usage, FALSE)
    BY <1>2, <1>6
  <2>2. /\ e.op = at
        /\ e.type = IF rec.status = "succeeded" THEN "operation_succeeded" ELSE "operation_failed"
    BY <1>1, <1>4
  <2>3. rec.status \in {"succeeded", "failed_known"} /\ rec.attempt = c.attempt
        /\ c.attempt = Entry(at).attempt
    BY <1>1, <1>2, <1>4
  <2>4. stream' = Append(stream, e) /\ c \in ChargeType /\ c.kind = KindOf(at)
    BY <1>2
  <2>5. l.reservations = {}
    BY <1>7, <1>8
  <2> QED
    BY <1>7, <1>8, <2>1, <2>2, <2>3, <2>4, <2>5 DEF Charges
<1> QED
  BY <1>1, <1>2, <1>9

\* An outcome closes the attempt in flight with a charge.
LEMMA OutcomeQuotas ==
    ASSUME TypeInv, BookInv, Quotas, RecordSuccess \/ RecordFailure
    PROVE  Quotas'
<1>1. /\ at \in DOMAIN Operations /\ at \in Ops /\ Running /\ UNCHANGED inputs
      /\ Entry(at).status = "started"
  BY OutcomeKinds
<1>2. view \in ViewType /\ view.ledger \in LedgerType /\ spec' = spec
  BY <1>1, BookTypes, FixedInputs
<1>3. CASE \E c, rec, l, e : Charges(c, rec, l, e)
  <2>1. PICK c, rec, l, e : Charges(c, rec, l, e)
    BY <1>3
  <2>2. view'.ledger = l
    BY <1>1, <1>2, <2>1, WithEntryFields DEF Charges
  <2>3. c.kind = KindOf(at) /\ c.kind \in Kinds /\ c.usage \in Usage
    BY <2>1 DEF Charges, ChargeType
  <2>4. ASSUME NEW kind \in Kinds
        PROVE  Cardinality(Sent(kind))' = view'.ledger.calls[kind] + InFlight(kind)'
    <3>1. /\ InFlight(kind) = IF KindOf(at) = kind THEN 1 ELSE 0
          /\ InFlight(kind)' = 0
      BY <1>1, <2>1, FlightStep DEF Flying, Charges
    <3>2. Cardinality(Sent(kind))' = Cardinality(Sent(kind))
      BY <1>1, <2>1, SentGrown DEF Charges
    <3>3. l.calls[kind] = view.ledger.calls[kind] + (IF kind = c.kind THEN 1 ELSE 0)
      BY <2>1 DEF Charges
    <3>4. Cardinality(Sent(kind)) = view.ledger.calls[kind] + InFlight(kind) /\ view.ledger.calls[kind] \in Nat
      BY <1>2 DEF Quotas, SentAreCharged, LedgerType
    <3> QED
      BY <2>2, <2>3, <3>1, <3>2, <3>3, <3>4
  <2> DEFINE rest == Release(view.ledger, at, c.attempt)
  <2>5. /\ rest.calls = view.ledger.calls /\ rest.input = view.ledger.input
        /\ rest.output = view.ledger.output /\ rest.reservations = {}
    BY <1>2, <2>1 DEF Release, LedgerType, Charges
  <2>6. Affordable(rest, spec, c.kind, c.usage, FALSE)
    BY <2>1 DEF Charges
  <2> HIDE DEF rest
  <2>7. ASSUME NEW kind \in Kinds
        PROVE  /\ Within(view'.ledger.calls[kind], spec'.maxAttempts[kind])
               /\ Within(view'.ledger.calls[kind], spec'.maxCalls[kind])
    <3>1. view'.ledger.calls[kind] = view.ledger.calls[kind] + (IF kind = c.kind THEN 1 ELSE 0)
      BY <2>1, <2>2 DEF Charges
    <3>2. view.ledger.calls[kind] \in Nat
      BY <1>2 DEF LedgerType
    <3>3. CASE kind = c.kind
      <4>1. /\ Within(rest.calls[kind] + 0 + 1, spec.maxAttempts[kind])
            /\ Within(rest.calls[kind] + 0 + 1, spec.maxCalls[kind])
        BY <2>6, <3>3 DEF Affordable
      <4>2. rest.calls[kind] + 0 + 1 = view'.ledger.calls[kind]
        BY <2>5, <3>1, <3>2, <3>3
      <4> QED
        BY <1>2, <4>1, <4>2
    <3>4. CASE kind # c.kind
      <4>1. view'.ledger.calls[kind] = view.ledger.calls[kind]
        BY <3>1, <3>2, <3>4
      <4> QED
        BY <1>2, <4>1 DEF Quotas, ChargedWithin
    <3> QED
      BY <3>3, <3>4
  <2>8. Within(view'.ledger.input + view'.ledger.output + Tokens(view'.ledger.reservations), spec'.maxTotal)
    <3>1. ReservedTokens(rest) = 0 /\ Tokens(view'.ledger.reservations) = 0
      BY <2>1, <2>2, <2>5, TokensOf, TokensOfNone DEF Charges
    <3>2. Within(rest.input + rest.output + ReservedTokens(rest) + Total(c.usage), spec.maxTotal)
      BY <2>6 DEF Affordable
    <3>3. /\ view'.ledger.input = view.ledger.input + c.usage.input
          /\ view'.ledger.output = view.ledger.output + c.usage.output
      BY <2>1, <2>2 DEF Charges
    <3>4. /\ view.ledger.input \in Nat /\ view.ledger.output \in Nat
          /\ c.usage.input \in Nat /\ c.usage.output \in Nat
      BY <1>2, <2>3 DEF LedgerType, Usage
    <3>5. rest.input + rest.output + 0 + Total(c.usage) = view'.ledger.input + view'.ledger.output + 0
      BY <2>5, <3>3, <3>4 DEF Total
    <3> QED
      BY <1>2, <3>1, <3>2, <3>5
  <2> QED
    BY <2>4, <2>7, <2>8 DEF Quotas, SentAreCharged, ChargedWithin
<1>4. CASE \E e : /\ stream' = Append(stream, e) /\ e.type \in {"operation_succeeded", "operation_failed"}
                  /\ view' = Rejected(view)
  <2>1. view'.ledger = view.ledger /\ view'.journal = view.journal
    BY <1>2, <1>4 DEF Rejected, ViewType
  <2>2. \A kind : Cardinality(Sent(kind))' = Cardinality(Sent(kind))
    BY <1>1, <1>4, SentGrown
  <2>3. \A kind : InFlight(kind)' = InFlight(kind)
    BY <1>1, <2>1, FixedInputs DEF InFlight, Entry
  <2> QED
    BY <1>2, <2>1, <2>2, <2>3 DEF Quotas, SentAreCharged, ChargedWithin
<1> QED
  BY <1>3, <1>4, OutcomeKinds

\* Nothing was sent or charged before the first process starts.
LEMMA InitQuotas == Init => Quotas
<1> SUFFICES ASSUME Init PROVE Quotas
  OBVIOUS
<1>1. /\ stream = <<>> /\ view.ledger = EmptyLedger
      /\ \A op \in DOMAIN Operations : Entry(op).status = "absent"
  <2>1. DOMAIN Operations \subseteq Ops
    BY ConfigurationAssumption DEF Init, Operations, ScriptAssumption
  <2> QED
    BY <2>1 DEF Init, InitialView, Entry, Absent
<1>2. \A kind \in Kinds : Sent(kind) = {} /\ InFlight(kind) = 0
  BY <1>1 DEF Sent, EventsOf, InFlight, Flying
<1>3. /\ \A kind \in Kinds : view.ledger.calls[kind] = 0
      /\ view.ledger.input = 0 /\ view.ledger.output = 0 /\ view.ledger.reservations = {}
  BY <1>1 DEF EmptyLedger
<1>4. \A limit \in Limit : Within(0, limit)
  BY DEF Limit, Within
<1>5. spec \in SpecType
  BY ConfigurationAssumption DEF Init
<1>6. SentAreCharged
  BY <1>2, <1>3, FS_EmptySet DEF SentAreCharged
<1>7. ChargedWithin
  BY <1>3, <1>4, <1>5, TokensOfNone DEF ChargedWithin, SpecType
<1> QED
  BY <1>6, <1>7 DEF Quotas

\* Every step keeps the quotas.
LEMMA StepQuotas == TypeInv /\ BookInv /\ Quotas /\ [Next]_vars => Quotas'
<1> SUFFICES ASSUME TypeInv, BookInv, Quotas, [Next]_vars PROVE Quotas'
  OBVIOUS
<1>1. CASE Silent
  BY <1>1, SilentEffect, NoteQuotas
<1>2. CASE Noting
  BY <1>2, NotingEffect, NoteQuotas DEF Tells
<1>3. CASE Dispatch
  BY <1>3, DispatchQuotas
<1>4. CASE RecordUnknown
  BY <1>4, UnknownQuotas
<1>5. CASE RecordSuccess \/ RecordFailure
  BY <1>5, OutcomeQuotas
<1>6. CASE CancelOperation
  BY <1>6, CancelQuotas
<1>7. CASE \E n : Reserving(n)
  BY <1>7, ReserveQuotas
<1> QED
  BY <1>1, <1>2, <1>3, <1>4, <1>5, <1>6, <1>7, StepKinds

\* An attempt in flight was affordable when it was reserved, and still is.
LEMMA QuotasSuffice == TypeInv /\ BookInv /\ Quotas => CallsWithinBudget
<1> SUFFICES ASSUME TypeInv, BookInv, Quotas PROVE CallsWithinBudget
  OBVIOUS
<1>1. ASSUME NEW kind \in Kinds
      PROVE  /\ Within(Cardinality(Sent(kind)), spec.maxAttempts[kind])
             /\ Within(Cardinality(Sent(kind)), spec.maxCalls[kind])
  <2>1. Cardinality(Sent(kind)) = view.ledger.calls[kind] + InFlight(kind) /\ view.ledger.calls[kind] \in Nat
    BY BookTypes DEF Quotas, SentAreCharged, LedgerType
  <2>2. CASE InFlight(kind) = 0
    <3>1. Cardinality(Sent(kind)) = view.ledger.calls[kind]
      BY <2>1, <2>2
    <3> QED
      BY <3>1 DEF Quotas, ChargedWithin
  <2>3. CASE InFlight(kind) # 0
    <3>1. PICK op \in OpenOps : KindOf(op) = kind
      BY <2>3 DEF InFlight, Flying, OpenOps, Open
    <3> DEFINE rest == Release(view.ledger, op, Entry(op).attempt)
    <3>2. Affordable(rest, spec, kind, Answer(op, Entry(op).attempt).usage, FALSE)
      BY <3>1 DEF BookInv, Books, HeldAffordable
    <3>3. rest.calls = view.ledger.calls
      BY BookTypes DEF Release, LedgerType
    <3> HIDE DEF rest
    <3>4. /\ Within(rest.calls[kind] + 0 + 1, spec.maxAttempts[kind])
          /\ Within(rest.calls[kind] + 0 + 1, spec.maxCalls[kind])
      BY <3>2 DEF Affordable
    <3>5. Cardinality(Sent(kind)) = rest.calls[kind] + 0 + 1
      BY <2>1, <2>3, <3>3 DEF InFlight
    <3> QED
      BY <3>4, <3>5
  <2> QED
    BY <2>2, <2>3
<1>2. ReservedTokens(view.ledger) = Tokens(view.ledger.reservations)
  BY TokensOf
<1> QED
  BY <1>1, <1>2 DEF CallsWithinBudget, Sent, Quotas, ChargedWithin

\* CallsWithinBudget for every instance: over all processes of a run, whatever
\* crashes, no more calls are dispatched than the budget allows, and what was
\* charged or is held never exceeds its tokens.
THEOREM BudgetHolds == Spec => []CallsWithinBudget
<1>1. Init => TypeInv /\ BookInv /\ Quotas
  BY InitType, InitBooks, InitQuotas
<1>2. (TypeInv /\ BookInv /\ Quotas) /\ [Next]_vars => (TypeInv /\ BookInv /\ Quotas)'
  BY StepTypeInv, StepBookInv, StepQuotas
<1> QED
  BY <1>1, <1>2, QuotasSuffice, PTL DEF Spec

---------------------------------------------------------------------------
(* What happens to the record of the operation in hand *)

\* The attempt is dispatched.
Sends(e) ==
    /\ Entry(at).status = "reserved" /\ Entry(at)'.status = "started"
    /\ Entry(at)'.attempt = Entry(at).attempt
    /\ e.type = "operation_dispatched" /\ e.op = at /\ e.attempt = Entry(at).attempt
    /\ pc = "attempt" /\ pc' = "dispatched" /\ ~PastDeadline(clock)

\* Its outcome is written, and refused when it cannot be charged.
Settles(e) ==
    /\ Entry(at).status = "started" /\ Entry(at)'.attempt = Entry(at).attempt
    /\ e.type \in {"operation_unknown", "operation_succeeded", "operation_failed"}
    /\ pc = "answered"
    /\ \/ Entry(at)'.status \in {"outcome_unknown", "succeeded", "failed_known"} /\ pc' = "settle"
       \/ Entry(at)'.status = "started" /\ pc' = "raised"

\* It is reserved, for the first time or again, or cancelled before that.
Prepares(e) ==
    /\ e.type \in {"operation_reserved", "operation_cancelled"}
    /\ \/ /\ Entry(at).status = "absent" /\ Entry(at)'.attempt = 1 /\ pc = "loop"
          /\ Entry(at)'.status \in {"reserved", "cancelled_before_dispatch"}
          /\ pc' \in {"attempt", "finish"}
       \/ /\ Entry(at).status = "failed_known" /\ Entry(at)'.attempt = Entry(at).attempt + 1
          /\ Entry(at)'.status = "reserved"
          /\ pc = "rereserve" /\ pc' = "attempt"

\* A step that writes about the operation in hand and touches no other record.
Works(e) ==
    /\ stream' = Append(stream, e)
    /\ UNCHANGED <<inputs, at, clock>>
    /\ at \in DOMAIN Operations /\ at \in Ops /\ view.ok
    /\ view'.ledger.elapsed = view.ledger.elapsed /\ view'.ledger.replans = view.ledger.replans
    /\ \A op \in Ops : op # at => Entry(op)' = Entry(op)
    /\ Sends(e) \/ Settles(e) \/ Prepares(e)

\* The steps of an attempt are such steps.
LEMMA WorksEffect ==
    ASSUME TypeInv, BookInv,
           \/ Dispatch \/ RecordUnknown \/ RecordSuccess \/ RecordFailure \/ CancelOperation
           \/ \E n : Reserving(n)
    PROVE  \E e : Works(e)
<1>t. view \in ViewType /\ view.ledger \in LedgerType
  BY BookTypes
<1>e. ASSUME NEW op \in Ops PROVE Entry(op) \in RecordType /\ Entry(op).attempt \in Nat
  BY EntryTypes
<1>w. ASSUME NEW op \in Ops, NEW rec, NEW l, view' = WithEntry(view, op, rec, l)
      PROVE  /\ view'.ledger = l /\ Entry(op)' = rec
             /\ \A p \in Ops : p # op => Entry(p)' = Entry(p)
  <2> DEFINE w == WithEntry(view, op, rec, l)
  <2>1. w.ledger = l /\ w.journal[op] = rec /\ \A p \in Ops : p # op => w.journal[p] = view.journal[p]
    BY <1>t, WithEntryFields
  <2> HIDE DEF w
  <2>2. view' = w
    BY <1>w DEF w
  <2>3. Entry(op)' = view'.journal[op]
    BY DEF Entry
  <2> QED
    BY <2>1, <2>2 DEF Entry
<1>1. CASE Dispatch
  <2> DEFINE rec == [Entry(at) EXCEPT !.status = "started"]
             e == OperationDispatched(at, attempt)
  <2>1. /\ at \in DOMAIN Operations /\ at \in Ops /\ view.ok /\ UNCHANGED <<inputs, at, clock>>
        /\ Entry(at).status = "reserved" /\ attempt = Entry(at).attempt
        /\ stream' = Append(stream, e) /\ view' = WithEntry(view, at, rec, view.ledger)
        /\ pc' = "dispatched"
    BY <1>1, DispatchEffect DEF Goto
  <2>2. pc = "attempt" /\ ~PastDeadline(clock)
    BY <1>1 DEF Dispatch
  <2>3. e.type = "operation_dispatched" /\ e.op = at /\ e.attempt = attempt
    BY DEF OperationDispatched
  <2>4. rec.status = "started" /\ rec.attempt = Entry(at).attempt
    BY <1>e, <2>1 DEF RecordType, Absent
  <2> HIDE DEF rec, e
  <2>5. /\ view'.ledger = view.ledger /\ Entry(at)' = rec
        /\ \A p \in Ops : p # at => Entry(p)' = Entry(p)
    BY <1>w, <2>1
  <2>6. Sends(e)
    BY <2>1, <2>2, <2>3, <2>4, <2>5 DEF Sends
  <2> QED
    BY <2>1, <2>5, <2>6 DEF Works
<1>2. CASE RecordUnknown
  <2> DEFINE rec == [Entry(at) EXCEPT !.status = "outcome_unknown", !.error = "unknown_outcome"]
             e == OperationUnknown(at, attempt)
  <2>1. /\ at \in DOMAIN Operations /\ at \in Ops /\ view.ok /\ UNCHANGED <<inputs, at, clock>>
        /\ Entry(at).status = "started"
        /\ stream' = Append(stream, e) /\ view' = WithEntry(view, at, rec, view.ledger)
        /\ pc' = "settle"
    BY <1>2, UnknownEffect DEF Goto
  <2>2. pc = "answered"
    BY <1>2 DEF RecordUnknown
  <2>3. e.type = "operation_unknown"
    BY DEF OperationUnknown
  <2>4. rec.status = "outcome_unknown" /\ rec.attempt = Entry(at).attempt
    BY <1>e, <2>1 DEF RecordType, Absent
  <2> HIDE DEF rec, e
  <2>5. /\ view'.ledger = view.ledger /\ Entry(at)' = rec
        /\ \A p \in Ops : p # at => Entry(p)' = Entry(p)
    BY <1>w, <2>1
  <2>6. Settles(e)
    BY <2>1, <2>2, <2>3, <2>4, <2>5 DEF Settles
  <2> QED
    BY <2>1, <2>5, <2>6 DEF Works
<1>3. CASE CancelOperation
  <2> DEFINE rec == [attempt |-> 1, status |-> "cancelled_before_dispatch", error |-> "none"]
             e == OperationCancelled(at, 1)
  <2>1. /\ at \in DOMAIN Operations /\ at \in Ops /\ view.ok /\ UNCHANGED <<inputs, at, clock>>
        /\ Entry(at).status = "absent"
        /\ stream' = Append(stream, e) /\ view' = WithEntry(view, at, rec, view.ledger)
        /\ pc' = "finish"
    BY <1>3, CancelEffect DEF Goto
  <2>2. pc = "loop"
    BY <1>3 DEF CancelOperation, Undecided, AtOperation
  <2>3. e.type = "operation_cancelled"
    BY DEF OperationCancelled
  <2>4. rec.status = "cancelled_before_dispatch" /\ rec.attempt = 1
    OBVIOUS
  <2> HIDE DEF rec, e
  <2>5. /\ view'.ledger = view.ledger /\ Entry(at)' = rec
        /\ \A p \in Ops : p # at => Entry(p)' = Entry(p)
    BY <1>w, <2>1
  <2>6. Prepares(e)
    BY <2>1, <2>2, <2>3, <2>4, <2>5 DEF Prepares
  <2> QED
    BY <2>1, <2>5, <2>6 DEF Works
<1>4. CASE \E n : Reserving(n)
  <2>1. PICK n : Reserving(n)
    BY <1>4
  <2> DEFINE r == ReservationOf(at, n)
             l == Reserve(view.ledger, r)
             rec == [attempt |-> n, status |-> "reserved", error |-> "none"]
             e == OperationReserved(at, n, r.kind, r.usage)
  <2>2. /\ at \in DOMAIN Operations /\ at \in Ops /\ view.ok /\ UNCHANGED <<inputs, at, clock>>
        /\ \/ Entry(at).status = "absent" /\ n = 1
           \/ Entry(at).status = "failed_known" /\ n = Entry(at).attempt + 1
        /\ stream' = Append(stream, e) /\ view' = WithEntry(view, at, rec, l)
        /\ pc' = "attempt"
    <3> HIDE DEF r
    <3> QED
      BY <2>1, ReserveEffect DEF Reserving, r, Goto
  <2>3. \/ pc = "loop" /\ Entry(at).status = "absent" /\ n = 1
        \/ pc = "rereserve" /\ Entry(at).status = "failed_known" /\ n = Entry(at).attempt + 1
    <3>1. pc = "rereserve" => Entry(at).status = "failed_known"
      BY DEF BookInv, LoopStands, Running
    <3>2. CASE ReserveRetry
      BY <3>1, <3>2, <2>2 DEF ReserveRetry
    <3>3. CASE PlanOperation /\ n = 1
      <4>1. pc = "loop" /\ current.status = "absent"
        BY <3>3 DEF PlanOperation, Proceeds, Undecided, AtOperation
      <4>2. Entry(at).status = "absent"
        <5>1. Running /\ Agreement
          BY <4>1 DEF Running, BookInv
        <5> QED
          BY <4>1, <5>1, <2>2, MemEntry DEF current
      <4> QED
        BY <4>1, <4>2, <3>3
    <3> QED
      BY <2>1, <3>2, <3>3 DEF Reserving
  <2>4. e.type = "operation_reserved"
    BY DEF OperationReserved
  <2>5. l.elapsed = view.ledger.elapsed /\ l.replans = view.ledger.replans
    BY <1>t DEF Reserve, LedgerType
  <2>6. rec.attempt = n /\ rec.status = "reserved"
    OBVIOUS
  <2> HIDE DEF e, l, rec
  <2>7. view'.ledger = l /\ Entry(at)' = rec /\ \A p \in Ops : p # at => Entry(p)' = Entry(p)
    BY <1>w, <2>2
  <2>8. Prepares(e)
    BY <2>2, <2>3, <2>4, <2>6, <2>7 DEF Prepares
  <2> QED
    BY <2>2, <2>5, <2>7, <2>8 DEF Works
<1>5. ASSUME NEW outcome \in {"succeeded", "failed_known"}, NEW error, NEW e, Records(outcome, error, e)
      PROVE  Works(e)
  <2> DEFINE c == ChargeOf(at, attempt, outcome)
             rec == Marked(Entry(at), outcome, error)
             l == Reconcile(view.ledger, c)
             fits == Within(view.ledger.retries + attempt - 1, spec.maxRetries)
  <2>c. c = ChargeOf(at, attempt, outcome)
    OBVIOUS
  <2> HIDE DEF c
  <2>1. /\ at \in DOMAIN Operations /\ at \in Ops /\ view.ok /\ UNCHANGED <<inputs, at, clock>>
        /\ pc = "answered" /\ Entry(at).status = "started"
        /\ stream' = Append(stream, e)
        /\ \/ fits /\ view' = WithEntry(view, at, rec, l) /\ pc' = "settle"
           \/ ~fits /\ view' = Rejected(view) /\ pc' = "raised"
    BY <1>5, <2>c, OutcomeEffect DEF Goto
  <2>2. e.type \in {"operation_succeeded", "operation_failed"}
    BY <1>5 DEF Records, OperationSucceeded, OperationFailed
  <2>3. rec.status = outcome /\ rec.attempt = Entry(at).attempt
    BY <1>e, <2>1 DEF Marked, RecordType, Absent
  <2>4. l.elapsed = view.ledger.elapsed /\ l.replans = view.ledger.replans
    <3>1. c \in ChargeType
      BY <1>5, <2>c, OutcomeEffect
    <3> QED
      BY <1>t, <3>1, ReconcileFields
  <2> HIDE DEF rec, l, c, fits
  <2>5. CASE view' = WithEntry(view, at, rec, l) /\ pc' = "settle"
    <3>1. view'.ledger = l /\ Entry(at)' = rec /\ \A p \in Ops : p # at => Entry(p)' = Entry(p)
      BY <1>w, <2>1, <2>5
    <3>2. Settles(e)
      BY <2>1, <2>2, <2>3, <2>5, <3>1 DEF Settles
    <3> QED
      BY <2>1, <2>4, <3>1, <3>2 DEF Works
  <2>6. CASE view' = Rejected(view) /\ pc' = "raised"
    <3>1. view'.ledger = view.ledger /\ \A p \in Ops : Entry(p)' = Entry(p)
      BY <1>t, <2>6 DEF Rejected, ViewType, Entry
    <3>2. Settles(e)
      BY <2>1, <2>2, <2>6, <3>1 DEF Settles
    <3> QED
      BY <2>1, <3>1, <3>2 DEF Works
  <2> QED
    BY <2>1, <2>5, <2>6
<1>6. CASE RecordSuccess
  BY <1>5, <1>6 DEF Records
<1>7. CASE RecordFailure
  BY <1>5, <1>7 DEF Records
<1> QED
  BY <1>1, <1>2, <1>3, <1>4, <1>6, <1>7

---------------------------------------------------------------------------
(* Replans *)

Decided == EventsOf("replan_decided")
AdmittedOnes == {i \in Decided : stream[i].admitted}

\* A decision is about a success, and about the attempt that succeeded.
DecidedOnSuccess ==
    \A i \in Decided : /\ stream[i].op \in DOMAIN Operations
                       /\ Entry(stream[i].op).status = "succeeded"
                       /\ stream[i].attempt = Entry(stream[i].op).attempt

\* The process that has just seen a success finds no decision about it.
UndecidedWhenNew == pc \in {"settle", "replan"} => \A i \in Decided : stream[i].op # at

\* One decision at most for an operation; the ledger counts the admitted ones.
DecidedOnce == \A i, k \in Decided : stream[i].op = stream[k].op => i = k
ReplansCounted ==
    view.ledger.replans = Cardinality(AdmittedOnes) /\ view.ledger.replans <= spec.maxReplans

Replans == DecidedOnSuccess /\ UndecidedWhenNew /\ DecidedOnce /\ ReplansCounted

\* A step that decides nothing.
LEMMA ReplansStill ==
    ASSUME TypeInv, Replans, UNCHANGED inputs,
           stream' = stream \/ \E e : stream' = Append(stream, e) /\ e.type # "replan_decided",
           view'.ledger.replans = view.ledger.replans,
           \A op \in DOMAIN Operations : Entry(op).status = "succeeded" => Entry(op)' = Entry(op),
           pc' \in {"settle", "replan"} => \A i \in Decided : stream[i].op # at'
    PROVE  Replans'
<1>1. Decided' = Decided /\ \A i \in Decided : stream'[i] = stream[i]
  <2>1. CASE stream' = stream
    BY <2>1 DEF Decided, EventsOf
  <2>2. CASE \E e : stream' = Append(stream, e) /\ e.type # "replan_decided"
    <3>1. PICK e : stream' = Append(stream, e) /\ e.type # "replan_decided"
      BY <2>2
    <3>2. /\ DOMAIN stream' = DOMAIN stream \cup {Len(stream) + 1}
          /\ \A i \in DOMAIN stream : stream'[i] = stream[i]
          /\ stream'[Len(stream) + 1] = e
      BY <3>1, BookTypes, Grown
    <3> QED
      BY <3>1, <3>2 DEF Decided, EventsOf
  <2> QED
    BY <2>1, <2>2
<1>2. AdmittedOnes' = AdmittedOnes
  BY <1>1 DEF AdmittedOnes
<1>3. Operations' = Operations /\ spec' = spec
  BY FixedInputs
<1>4. DecidedOnSuccess'
  BY <1>1, <1>3 DEF Replans, DecidedOnSuccess, Entry
<1>5. UndecidedWhenNew'
  BY <1>1 DEF UndecidedWhenNew
<1>6. DecidedOnce'
  BY <1>1 DEF Replans, DecidedOnce
<1>7. ReplansCounted'
  BY <1>2, <1>3 DEF Replans, ReplansCounted
<1> QED
  BY <1>4, <1>5, <1>6, <1>7 DEF Replans

\* The decision itself: the first about its operation.
LEMMA ReplanDecision ==
    ASSUME TypeInv, BookInv, Replans, RecoverReplan \/ ReplanAfterAnswer
    PROVE  Replans'
<1> DEFINE e == ReplanDecided(at, attempt, Admitted)
           new == Len(stream) + 1
<1>1. /\ at \in DOMAIN Operations /\ Entry(at).status = "succeeded" /\ attempt = Entry(at).attempt
      /\ Admitted <=> view.ledger.replans < spec.maxReplans
      /\ stream' = Append(stream, e) /\ UNCHANGED inputs
      /\ Admitted => view' = [view EXCEPT !.ledger = RecordReplan(view.ledger)]
      /\ ~Admitted => view' = view
      /\ pc' \in {"loop", "finish"}
  BY ReplanEffect
<1>2. /\ e.type = "replan_decided" /\ e.op = at /\ e.attempt = attempt /\ (e.admitted <=> Admitted)
  BY DEF ReplanDecided
<1> HIDE DEF e
<1>3. /\ DOMAIN stream' = DOMAIN stream \cup {new} /\ new \notin DOMAIN stream
      /\ \A i \in DOMAIN stream : stream'[i] = stream[i]
      /\ stream'[new] = e /\ stream \in Seq(EventType)
  BY <1>1, BookTypes, Grown
<1>4. view \in ViewType /\ view.ledger.replans \in Nat /\ spec.maxReplans \in Nat
  BY BookTypes, ConfigurationTypes DEF LedgerType, SpecType
<1>5. Operations' = Operations /\ spec' = spec /\ view'.journal = view.journal
  BY <1>1, <1>4, FixedInputs DEF ViewType
<1> HIDE DEF new
<1>6. Decided' = Decided \cup {new} /\ Decided \in SUBSET (DOMAIN stream)
  BY <1>2, <1>3 DEF Decided, EventsOf
<1>7. \A i \in Decided : stream[i].op # at
  <2>1. CASE ReplanAfterAnswer
    BY <2>1 DEF ReplanAfterAnswer, Replans, UndecidedWhenNew
  <2>2. CASE RecoverReplan
    <3>1. ~DecisionExists
      BY <2>2 DEF RecoverReplan
    <3>2. \A i \in Decided : stream[i].op = at => stream[i].attempt = attempt
      BY <1>1 DEF Replans, DecidedOnSuccess
    <3> QED
      BY <3>1, <3>2 DEF DecisionExists, Decided, EventsOf
  <2> QED
    BY <2>1, <2>2
<1>8. DecidedOnSuccess'
  BY <1>1, <1>2, <1>3, <1>5, <1>6 DEF Replans, DecidedOnSuccess, Entry
<1>9. DecidedOnce'
  BY <1>2, <1>3, <1>6, <1>7 DEF Replans, DecidedOnce
<1>10. ReplansCounted'
  <2>1. AdmittedOnes \in SUBSET (DOMAIN stream)
    BY <1>6 DEF AdmittedOnes
  <2>2. AdmittedOnes' = IF Admitted THEN AdmittedOnes \cup {new} ELSE AdmittedOnes
    BY <1>2, <1>3, <1>6 DEF AdmittedOnes
  <2>3. Cardinality(AdmittedOnes \cup {new}) = Cardinality(AdmittedOnes) + 1
    BY <1>3, <2>1, CountGrown DEF new
  <2>4. view'.ledger.replans = IF Admitted THEN view.ledger.replans + 1 ELSE view.ledger.replans
    BY <1>1, <1>4, BookTypes DEF RecordReplan, ViewType, LedgerType
  <2>5. view'.ledger.replans = Cardinality(AdmittedOnes')
    BY <2>2, <2>3, <2>4 DEF Replans, ReplansCounted
  <2>6. view'.ledger.replans <= spec.maxReplans
    BY <1>1, <1>4, <2>4 DEF Replans, ReplansCounted
  <2> QED
    BY <1>5, <2>5, <2>6 DEF ReplansCounted
<1> QED
  BY <1>1, <1>8, <1>9, <1>10 DEF Replans, UndecidedWhenNew

\* The other notes.
LEMMA NoteReplans ==
    ASSUME TypeInv, BookInv, Replans, Silent \/ Noting, ~RecoverReplan, ~ReplanAfterAnswer
    PROVE  Replans'
<1>1. pc' \in {"settle", "replan"} => pc \in {"settle", "replan"} /\ at' = at
  BY DEF Silent, Noting, SkipSucceeded, GiveUp, TakeUpAttempt, RetryScheduledBefore, DispatchTooLate,
         DispatchRejected, CallExternal, LoopExhausted, FinishWithoutLifecycle, WriteCheckpoint,
         RequestCancel, Crash, CrashWhileAppending, StartRejected, PlanOperation, ReserveRetry, vars,
         process, Goto, Raise, MovedOn, Start, ApproveBrief, BeginResearch, FinishLifecycle, Complete,
         RetryUnscheduled, ScheduleRetry, Backoff, SettleUnknown, SettleSuccess, SettleFailure, Settling
<1>2. UNCHANGED inputs
  BY SilentEffect, NotingEffect
<1>3. CASE UNCHANGED <<stream, view>>
  BY <1>1, <1>2, <1>3, ReplansStill DEF Replans, UndecidedWhenNew, Entry
<1>4. CASE \E e : Tells(e)
  <2>1. PICK e : Notes(e) /\ e.type # "replan_decided"
    BY <1>4 DEF Tells
  <2>2. /\ stream' = Append(stream, e) /\ view'.ledger.replans = view.ledger.replans
        /\ \A op : Entry(op)' = Entry(op)
    BY <2>1 DEF Notes, Entry
  <2> QED
    BY <1>1, <1>2, <2>1, <2>2, ReplansStill DEF Replans, UndecidedWhenNew
<1> QED
  BY <1>3, <1>4, SilentEffect, NotingEffect

\* What is written of an attempt never touches a success.
LEMMA WorksReplans ==
    ASSUME TypeInv, BookInv, Replans, NEW e, Works(e)
    PROVE  Replans'
<1>1. /\ stream' = Append(stream, e) /\ UNCHANGED inputs /\ at' = at
      /\ view'.ledger.replans = view.ledger.replans
      /\ \A op \in Ops : op # at => Entry(op)' = Entry(op)
      /\ Entry(at).status # "succeeded" /\ e.type # "replan_decided"
  BY DEF Works, Sends, Settles, Prepares
<1>2. DOMAIN Operations \subseteq Ops
  BY BookTypes, ScriptTypes
<1>3. \A op \in DOMAIN Operations : Entry(op).status = "succeeded" => Entry(op)' = Entry(op)
  BY <1>1, <1>2
<1>4. \A i \in Decided : stream[i].op # at'
  BY <1>1 DEF Replans, DecidedOnSuccess
<1> QED
  BY <1>1, <1>3, <1>4, ReplansStill

\* Nothing is decided before the first process starts.
LEMMA InitReplans == Init => Replans
<1> SUFFICES ASSUME Init PROVE Replans
  OBVIOUS
<1>1. Decided = {} /\ AdmittedOnes = {} /\ pc = "down" /\ view.ledger.replans = 0
  BY DEF Init, Decided, AdmittedOnes, EventsOf, InitialView, EmptyLedger
<1>2. spec.maxReplans \in Nat
  BY ConfigurationAssumption DEF Init, SpecType
<1> QED
  BY <1>1, <1>2, FS_EmptySet
     DEF Replans, DecidedOnSuccess, UndecidedWhenNew, DecidedOnce, ReplansCounted

\* Every step keeps the decisions in order.
LEMMA StepReplans == TypeInv /\ BookInv /\ Replans /\ [Next]_vars => Replans'
<1> SUFFICES ASSUME TypeInv, BookInv, Replans, [Next]_vars PROVE Replans'
  OBVIOUS
<1>1. CASE Silent \/ Noting
  BY <1>1, NoteReplans, ReplanDecision
<1>2. CASE \/ Dispatch \/ RecordUnknown \/ RecordSuccess \/ RecordFailure \/ CancelOperation
           \/ \E n : Reserving(n)
  <2>1. PICK e : Works(e)
    BY <1>2, WorksEffect
  <2> QED
    BY <2>1, WorksReplans
<1> QED
  BY <1>1, <1>2, StepKinds

\* ReplanDecidedOnce for every instance: a success that asks for a replan is
\* decided on once, by whichever process gets to it, within the quota, and the
\* ledger of the stream has counted what was admitted.
THEOREM ReplansDecidedOnce == Spec => []ReplanDecidedOnce
<1>1. Init => TypeInv /\ BookInv /\ Replans
  BY InitType, InitBooks, InitReplans
<1>2. (TypeInv /\ BookInv /\ Replans) /\ [Next]_vars => (TypeInv /\ BookInv /\ Replans)'
  BY StepTypeInv, StepBookInv, StepReplans
<1>3. Replans => ReplanDecidedOnce
  BY DEF Replans, DecidedOnce, ReplansCounted, ReplanDecidedOnce, Decided, AdmittedOnes
<1> QED
  BY <1>1, <1>2, <1>3, PTL DEF Spec

---------------------------------------------------------------------------
(* Time *)

\* A set of naturals that is not empty has a least element.
LEMMA LeastNatural ==
    ASSUME NEW S \in SUBSET Nat, S # {}
    PROVE  \E m \in S : \A k \in S : m <= k
<1>1. PICK m \in S : \A k \in S : ~ (<<k, m>> \in OpToRel(<, Nat))
  BY WFMin, NatLessThanWellFounded
<1>2. \A k \in S : ~ (k < m)
  BY <1>1 DEF OpToRel
<1>3. \A k \in S : m <= k
  BY <1>2
<1> QED
  BY <1>3

\* ElapsedBefore, of any stream.
TimesBefore(s, i) == {k \in DOMAIN s : s[k].type = "elapsed_recorded" /\ k < i}
TimeBefore(s, i) ==
    IF TimesBefore(s, i) = {} THEN 0 ELSE Max({s[k].elapsed : k \in TimesBefore(s, i)})

\* The time before position i is the longest that is recorded there.
Measured(s, i) ==
    /\ TimeBefore(s, i) \in Nat
    /\ \A k \in TimesBefore(s, i) : s[k].elapsed <= TimeBefore(s, i)
    /\ TimeBefore(s, i) = 0 \/ \E k \in TimesBefore(s, i) : s[k].elapsed = TimeBefore(s, i)

\* The times recorded in a stream of the model.
LEMMA TimesAreNat ==
    ASSUME NEW s \in Seq(EventType), NEW i
    PROVE  \A k \in TimesBefore(s, i) : k \in DOMAIN s /\ k < i /\ s[k].elapsed \in Nat
<1> SUFFICES ASSUME NEW k \in TimesBefore(s, i) PROVE s[k].elapsed \in Nat
  BY DEF TimesBefore
<1>1. s[k] \in EventType /\ s[k].type = "elapsed_recorded"
  BY DEF TimesBefore
<1> QED
  BY <1>1 DEF EventType, RunStarted

\* What was recorded before a position does not change when the stream grows.
LEMMA EarlierTimes ==
    ASSUME NEW s \in Seq(EventType), NEW e, NEW t, t = Append(s, e), NEW i \in Nat, i <= Len(s) + 1
    PROVE  /\ TimesBefore(t, i) = TimesBefore(s, i) /\ TimeBefore(t, i) = TimeBefore(s, i)
           /\ Measured(s, i) => Measured(t, i)
<1>1. /\ Len(s) \in Nat /\ DOMAIN s = 1..Len(s) /\ DOMAIN t = DOMAIN s \cup {Len(s) + 1}
      /\ \A k \in DOMAIN s : t[k] = s[k]
  BY Grown
<1>2. TimesBefore(t, i) = TimesBefore(s, i)
  BY <1>1 DEF TimesBefore
<1>3. \A k \in TimesBefore(s, i) : t[k].elapsed = s[k].elapsed
  BY <1>1 DEF TimesBefore
<1>4. {t[k].elapsed : k \in TimesBefore(s, i)} = {s[k].elapsed : k \in TimesBefore(s, i)}
  BY <1>3
<1>5. TimeBefore(t, i) = TimeBefore(s, i)
  BY <1>2, <1>4 DEF TimeBefore
<1> QED
  BY <1>2, <1>3, <1>5 DEF Measured

\* The time of the whole stream after one more event.
LEMMA LatestTime ==
    ASSUME NEW s \in Seq(EventType), NEW e, NEW t, t = Append(s, e), Measured(s, Len(s) + 1),
           e.type = "elapsed_recorded" => e.elapsed \in Nat /\ e.elapsed >= TimeBefore(s, Len(s) + 1)
    PROVE  /\ Measured(t, Len(s) + 2)
           /\ TimeBefore(t, Len(s) + 2) = IF e.type = "elapsed_recorded" THEN e.elapsed
                                          ELSE TimeBefore(s, Len(s) + 1)
<1> DEFINE n == Len(s) + 1
           old == TimesBefore(s, n)
           new == TimesBefore(t, n + 1)
           m == TimeBefore(s, n)
<1>1. /\ n \in Nat /\ DOMAIN t = DOMAIN s \cup {n} /\ n \notin DOMAIN s
      /\ \A k \in DOMAIN s : t[k] = s[k] /\ k < n
      /\ t[n] = e /\ \A k \in DOMAIN s : k \in Nat
  BY Grown
<1>2. \A k \in old : k \in DOMAIN s /\ t[k] = s[k] /\ s[k].elapsed \in Nat
  BY <1>1, TimesAreNat
<1>3. m \in Nat /\ (\A k \in old : s[k].elapsed <= m) /\ (m = 0 \/ \E k \in old : s[k].elapsed = m)
  BY DEF Measured
<1>4. new = IF e.type = "elapsed_recorded" THEN old \cup {n} ELSE old
  <2>1. \A k : k \in new <=> k \in DOMAIN t /\ t[k].type = "elapsed_recorded" /\ k < n + 1
    BY DEF TimesBefore
  <2>2. \A k : k \in old <=> k \in DOMAIN s /\ s[k].type = "elapsed_recorded" /\ k < n
    BY DEF TimesBefore
  <2>3. \A k \in DOMAIN s : k < n + 1 /\ k < n
    BY <1>1
  <2>4. n < n + 1
    BY <1>1
  <2> HIDE DEF new, old, n
  <2> QED
    BY <1>1, <2>1, <2>2, <2>3, <2>4
<1>n. TimesBefore(t, n + 1) = new /\ Len(s) + 2 = n + 1
  BY <1>1
<1>5. CASE e.type # "elapsed_recorded"
  <2>1. {t[k].elapsed : k \in new} = {s[k].elapsed : k \in old} /\ new = old
    BY <1>2, <1>4, <1>5
  <2>2. TimeBefore(t, n + 1) = m
    BY <2>1 DEF TimeBefore
  <2>3. Measured(t, n + 1)
    BY <1>2, <1>3, <2>1, <2>2 DEF Measured
  <2> QED
    BY <1>n, <1>5, <2>2, <2>3
<1>6. CASE e.type = "elapsed_recorded"
  <2> DEFINE S == {t[k].elapsed : k \in new}
  <2>0. e.elapsed \in Nat /\ e.elapsed >= m
    BY <1>6
  <2>1. n \in new /\ \A k \in new : k = n \/ k \in old
    BY <1>4, <1>6
  <2>2. e.elapsed \in S /\ S # {}
    BY <1>1, <2>1
  <2>3. \A k \in new : t[k].elapsed \in Nat /\ t[k].elapsed <= e.elapsed
    <3> HIDE DEF m, old, new, n
    <3>1. ASSUME NEW k \in old PROVE t[k].elapsed \in Nat /\ t[k].elapsed <= e.elapsed
      <4>1. t[k] = s[k] /\ s[k].elapsed \in Nat /\ s[k].elapsed <= m
        BY <1>2, <1>3
      <4> QED
        BY <4>1, <1>3, <2>0
    <3>2. t[n].elapsed \in Nat /\ t[n].elapsed <= e.elapsed
      BY <1>1, <2>0
    <3> QED
      BY <2>1, <3>1, <3>2
  <2>4. \A x \in S : x \in Nat /\ e.elapsed >= x
    BY <2>3
  <2> HIDE DEF S
  <2>5. Max(S) = e.elapsed
    <3>1. Max(S) \in S /\ \A y \in S : Max(S) >= y
      BY <2>2, <2>4 DEF Max
    <3> QED
      BY <2>0, <2>2, <2>4, <3>1
  <2>6. TimeBefore(t, n + 1) = e.elapsed
    BY <2>1, <2>5 DEF TimeBefore, S
  <2> HIDE DEF m, n
  <2>7. Measured(t, n + 1)
    BY <1>1, <2>0, <2>1, <2>3, <2>6 DEF Measured
  <2> QED
    BY <1>n, <1>6, <2>6, <2>7
<1> QED
  BY <1>5, <1>6

\* The recorded time never goes back.
LEMMA LaterIsLonger ==
    ASSUME NEW s \in Seq(EventType), NEW i \in Nat, NEW k \in Nat, i <= k,
           Measured(s, i), Measured(s, k)
    PROVE  TimeBefore(s, i) <= TimeBefore(s, k)
<1>1. TimesBefore(s, i) \subseteq TimesBefore(s, k)
  BY DEF TimesBefore
<1> QED
  BY <1>1 DEF Measured

\* The schedules of the retry that follows attempt n of an operation, and
\* whether the recorded time has moved past one of them.
Scheduled(s, op, n) ==
    {i \in DOMAIN s : s[i].type = "retry_scheduled" /\ s[i].op = op /\ s[i].attempt = n}
Waited(op, n) ==
    \E i \in Scheduled(stream, op, n) : view.ledger.elapsed >= TimeBefore(stream, i) + stream[i].backoff

\* The ledger has the longest time the stream records, and a time recorded
\* with a backoff lies that much later than those before it.
TimesInOrder ==
    /\ \A i \in 1..Len(stream) + 1 : Measured(stream, i)
    /\ view.ledger.elapsed = TimeBefore(stream, Len(stream) + 1)
    /\ \A k \in DOMAIN stream : stream[k].type = "elapsed_recorded" =>
          stream[k].elapsed >= TimeBefore(stream, k) + stream[k].backoff

\* A schedule has the backoff of the policy.
DelaysKnown ==
    \A i \in DOMAIN stream : stream[i].type = "retry_scheduled" =>
        stream[i].backoff = DelayFor(backoff, stream[i].attempt)

\* RetriesWaitOut, in the terms of this module.
DispatchesWaited ==
    \A k \in DOMAIN stream : stream[k].type = "operation_dispatched" /\ stream[k].attempt > 1 =>
        \E i \in Scheduled(stream, stream[k].op, stream[k].attempt - 1) :
            i < k /\ TimeBefore(stream, k) >= TimeBefore(stream, i) + stream[i].backoff

\* NoneDispatchedTooLate, in the same terms.
DispatchesTimely ==
    deadline # NoLimit =>
        \A k \in DOMAIN stream : stream[k].type = "operation_dispatched" => TimeBefore(stream, k) < deadline

Timeline == TimesInOrder /\ DelaysKnown /\ DispatchesWaited /\ DispatchesTimely

\* A process that runs is never behind the recorded time.
ClockAhead == Running => clock >= view.ledger.elapsed

\* A retry that waits was scheduled; one that is reserved has waited.
BackoffsServed ==
    /\ pc = "backoff" => Scheduled(stream, at, attempt) # {}
    /\ pc = "rereserve" => Waited(at, attempt)
    /\ \A op \in Ops : Entry(op).attempt > 1 => Waited(op, Entry(op).attempt - 1)

\* One more event, and what was scheduled before it.
LEMMA TimelineGrows ==
    ASSUME TypeInv, Timeline, UNCHANGED inputs, NEW e, stream' = Append(stream, e),
           e.type # "elapsed_recorded" => view'.ledger.elapsed = view.ledger.elapsed,
           e.type = "elapsed_recorded" =>
              /\ e.elapsed \in Nat /\ e.backoff \in Nat /\ view'.ledger.elapsed = e.elapsed
              /\ e.elapsed >= view.ledger.elapsed + e.backoff,
           e.type = "retry_scheduled" => e.backoff = DelayFor(backoff, e.attempt),
           e.type = "operation_dispatched" /\ e.attempt > 1 => Waited(e.op, e.attempt - 1),
           e.type = "operation_dispatched" /\ deadline # NoLimit => view.ledger.elapsed < deadline
    PROVE  /\ Timeline'
           /\ \A op, n, x : x \in Scheduled(stream, op, n)
                  /\ view'.ledger.elapsed >= TimeBefore(stream, x) + stream[x].backoff => Waited(op, n)'
           /\ \A op, n : Waited(op, n) => Waited(op, n)'
           /\ e.type = "retry_scheduled" => Scheduled(stream', e.op, e.attempt) # {}
<1> DEFINE s == stream
           t == stream'
           n == Len(s)
<1>1. /\ n \in Nat /\ DOMAIN s = 1..n /\ DOMAIN t = DOMAIN s \cup {n + 1} /\ n + 1 \notin DOMAIN s
      /\ \A i \in DOMAIN s : t[i] = s[i] /\ i < n + 1
      /\ t[n + 1] = e /\ Len(t) = n + 1 /\ s \in Seq(EventType) /\ t = Append(s, e)
  BY BookTypes, Grown
<1>2. \A i \in 1..n + 1 : TimeBefore(t, i) = TimeBefore(s, i) /\ Measured(t, i) /\ Measured(s, i)
  <2> SUFFICES ASSUME NEW i \in 1..n + 1
               PROVE  TimeBefore(t, i) = TimeBefore(s, i) /\ Measured(t, i) /\ Measured(s, i)
    OBVIOUS
  <2>1. Measured(s, i) /\ i \in Nat /\ i <= Len(s) + 1
    BY <1>1 DEF Timeline, TimesInOrder
  <2>2. s \in Seq(EventType) /\ t = Append(s, e)
    BY <1>1
  <2> HIDE DEF s, t, n
  <2>3. TimeBefore(t, i) = TimeBefore(s, i) /\ (Measured(s, i) => Measured(t, i))
    BY <2>1, <2>2, EarlierTimes
  <2> QED
    BY <2>1, <2>3
<1>3. /\ view.ledger.elapsed = TimeBefore(s, n + 1)
      /\ \A k \in DOMAIN s : s[k].type = "elapsed_recorded" => s[k].elapsed >= TimeBefore(s, k) + s[k].backoff
  BY DEF Timeline, TimesInOrder
<1>4. \A i \in DOMAIN s : s[i].type = "retry_scheduled" => s[i].backoff = DelayFor(backoff, s[i].attempt)
  BY DEF Timeline, DelaysKnown
<1>b. backoff' = backoff
  BY FixedInputs
<1>5. \A op, m : \A i \in Scheduled(s, op, m) : i \in DOMAIN s /\ s[i].backoff \in Nat /\ TimeBefore(s, i) \in Nat
  <2> SUFFICES ASSUME NEW op, NEW m, NEW i \in Scheduled(s, op, m)
               PROVE  i \in DOMAIN s /\ s[i].backoff \in Nat /\ TimeBefore(s, i) \in Nat
    OBVIOUS
  <2>1. i \in DOMAIN s /\ s[i].type = "retry_scheduled"
    BY DEF Scheduled
  <2>2. s[i].backoff \in Nat
    <3>1. s[i] \in EventType
      BY <1>1, <2>1
    <3> HIDE DEF s
    <3> QED
      BY <2>1, <3>1 DEF EventType, RunStarted
  <2>3. TimeBefore(s, i) \in Nat
    BY <1>1, <1>2, <2>1 DEF Measured
  <2> QED
    BY <2>1, <2>2, <2>3
<1>6. \A op, m : \A i \in Scheduled(s, op, m) : i \in Scheduled(t, op, m)
  BY <1>1 DEF Scheduled
<1>7. view.ledger.elapsed \in Nat /\ view'.ledger.elapsed >= view.ledger.elapsed /\ view'.ledger.elapsed \in Nat
  <2>1. view.ledger.elapsed \in Nat
    BY BookTypes DEF LedgerType
  <2>2. CASE e.type = "elapsed_recorded"
    <3>1. /\ e.elapsed \in Nat /\ e.backoff \in Nat /\ view'.ledger.elapsed = e.elapsed
          /\ e.elapsed >= view.ledger.elapsed + e.backoff
      BY <2>2
    <3> QED
      BY <2>1, <3>1
  <2> QED
    BY <2>1, <2>2
<1>8. /\ Measured(t, n + 2) /\ view'.ledger.elapsed = TimeBefore(t, n + 2)
  <2>1. Measured(s, n + 1)
    BY <1>1, <1>2
  <2>2. e.type = "elapsed_recorded" => e.elapsed \in Nat /\ e.elapsed >= TimeBefore(s, n + 1)
    BY <1>3, <1>7
  <2> HIDE DEF s, t
  <2>3. Measured(t, n + 2) /\ TimeBefore(t, n + 2) = IF e.type = "elapsed_recorded" THEN e.elapsed
                                                  ELSE TimeBefore(s, n + 1)
    BY <1>1, <2>1, <2>2, LatestTime
  <2> QED
    BY <1>3, <2>3
<1> HIDE DEF s, t, n
<1>9. TimesInOrder'
  <2>1. \A i \in 1..(n + 1) + 1 : Measured(t, i)
    <3> SUFFICES ASSUME NEW i \in 1..(n + 1) + 1 PROVE Measured(t, i)
      OBVIOUS
    <3>1. i \in 1..n + 1 \/ i = n + 2
      BY <1>1
    <3> QED
      BY <1>2, <1>8, <3>1
  <2>2. view'.ledger.elapsed = TimeBefore(t, (n + 1) + 1)
    <3>1. (n + 1) + 1 = n + 2
      BY <1>1
    <3> QED
      BY <1>8, <3>1
  <2>3. \A k \in DOMAIN t : t[k].type = "elapsed_recorded" => t[k].elapsed >= TimeBefore(t, k) + t[k].backoff
    <3> SUFFICES ASSUME NEW k \in DOMAIN t, t[k].type = "elapsed_recorded"
                 PROVE  t[k].elapsed >= TimeBefore(t, k) + t[k].backoff
      OBVIOUS
    <3>1. CASE k \in DOMAIN s
      <4>1. TimeBefore(t, k) = TimeBefore(s, k) /\ t[k] = s[k]
        BY <1>1, <1>2, <3>1
      <4> QED
        BY <1>3, <3>1, <4>1
    <3>2. CASE k = n + 1
      <4>1. t[k] = e /\ TimeBefore(t, k) = view.ledger.elapsed
        BY <1>1, <1>2, <1>3, <3>2
      <4> QED
        BY <4>1
    <3> QED
      BY <1>1, <3>1, <3>2
  <2> QED
    BY <1>1, <2>1, <2>2, <2>3 DEF TimesInOrder, t
<1>10. DelaysKnown'
  BY <1>1, <1>4, <1>b DEF DelaysKnown, t
<1>11. DispatchesWaited'
  <2> SUFFICES ASSUME NEW k \in DOMAIN t, t[k].type = "operation_dispatched", t[k].attempt > 1
               PROVE  \E i \in Scheduled(t, t[k].op, t[k].attempt - 1) :
                          i < k /\ TimeBefore(t, k) >= TimeBefore(t, i) + t[i].backoff
    BY DEF DispatchesWaited, t
  <2>1. CASE k \in DOMAIN s
    <3>1. t[k] = s[k] /\ TimeBefore(t, k) = TimeBefore(s, k)
      BY <1>1, <1>2, <2>1
    <3>2. PICK i \in Scheduled(s, s[k].op, s[k].attempt - 1) :
                   i < k /\ TimeBefore(s, k) >= TimeBefore(s, i) + s[i].backoff
      BY <2>1, <3>1 DEF Timeline, DispatchesWaited, s
    <3>3. i \in DOMAIN s /\ t[i] = s[i] /\ TimeBefore(t, i) = TimeBefore(s, i)
      BY <1>1, <1>2, <1>5
    <3>4. i \in Scheduled(t, t[k].op, t[k].attempt - 1)
      BY <1>6, <3>1
    <3> QED
      BY <3>1, <3>2, <3>3, <3>4
  <2>2. CASE k = n + 1
    <3>1. t[k] = e /\ TimeBefore(t, k) = view.ledger.elapsed
      BY <1>1, <1>2, <1>3, <2>2
    <3>2. PICK i \in Scheduled(s, e.op, e.attempt - 1) : view.ledger.elapsed >= TimeBefore(s, i) + s[i].backoff
      BY <3>1 DEF Waited, s
    <3>3. i \in DOMAIN s /\ t[i] = s[i] /\ TimeBefore(t, i) = TimeBefore(s, i) /\ i < k
      BY <1>1, <1>2, <1>5, <2>2
    <3>4. i \in Scheduled(t, t[k].op, t[k].attempt - 1)
      BY <1>6, <3>1
    <3> QED
      BY <3>1, <3>2, <3>3, <3>4
  <2> QED
    BY <1>1, <2>1, <2>2
<1>15. DispatchesTimely'
  <2> SUFFICES ASSUME deadline # NoLimit, NEW k \in DOMAIN t, t[k].type = "operation_dispatched"
               PROVE  TimeBefore(t, k) < deadline
    <3>1. deadline' = deadline
      BY FixedInputs DEF deadline
    <3> QED
      BY <3>1 DEF DispatchesTimely, t
  <2>1. CASE k \in DOMAIN s
    <3>1. t[k] = s[k] /\ TimeBefore(t, k) = TimeBefore(s, k)
      BY <1>1, <1>2, <2>1
    <3> QED
      BY <2>1, <3>1 DEF Timeline, DispatchesTimely, s
  <2>2. CASE k = n + 1
    <3>1. t[k] = e /\ TimeBefore(t, k) = view.ledger.elapsed
      BY <1>1, <1>2, <1>3, <2>2
    <3> QED
      BY <3>1
  <2> QED
    BY <1>1, <2>1, <2>2
<1>12. ASSUME NEW op, NEW m, NEW x \in Scheduled(s, op, m),
              view'.ledger.elapsed >= TimeBefore(stream, x) + stream[x].backoff
       PROVE  Waited(op, m)'
  <2>1. x \in DOMAIN s /\ t[x] = s[x] /\ TimeBefore(t, x) = TimeBefore(s, x)
    BY <1>1, <1>2, <1>5
  <2>2. x \in Scheduled(t, op, m) /\ view'.ledger.elapsed >= TimeBefore(t, x) + t[x].backoff
    BY <1>6, <1>12, <2>1 DEF s
  <2> QED
    BY <2>2 DEF Waited, t
<1>13. ASSUME NEW op, NEW m, Waited(op, m) PROVE Waited(op, m)'
  <2>1. PICK x \in Scheduled(s, op, m) : view.ledger.elapsed >= TimeBefore(stream, x) + stream[x].backoff
    BY <1>13 DEF Waited, s
  <2>2. TimeBefore(stream, x) + stream[x].backoff \in Nat
    BY <1>5 DEF s
  <2>3. view'.ledger.elapsed >= TimeBefore(stream, x) + stream[x].backoff
    BY <1>7, <2>1, <2>2
  <2> QED
    BY <1>12, <2>3
<1>14. e.type = "retry_scheduled" => n + 1 \in Scheduled(t, e.op, e.attempt)
  BY <1>1 DEF Scheduled, t
<1> QED
  BY <1>9, <1>10, <1>11, <1>15, <1>12, <1>13, <1>14 DEF Timeline, s, t

TimeInv == Timeline /\ ClockAhead /\ BackoffsServed

\* Nothing written: the times of the stream are what they were.
LEMMA TimelineStill ==
    ASSUME Timeline, UNCHANGED <<inputs, stream, view>>
    PROVE  /\ Timeline' /\ \A op, n : Waited(op, n) <=> Waited(op, n)'
           /\ \A op : Entry(op)' = Entry(op)
<1>1. stream' = stream /\ view' = view /\ backoff' = backoff
  BY DEF inputs
<1>2. TimesInOrder'
  BY <1>1 DEF Timeline, TimesInOrder
<1>3. DelaysKnown'
  BY <1>1 DEF Timeline, DelaysKnown
<1>4. DispatchesWaited'
  BY <1>1 DEF Timeline, DispatchesWaited
<1>5. DispatchesTimely'
  <2>1. deadline' = deadline
    BY DEF inputs, deadline
  <2> QED
    BY <1>1, <2>1 DEF Timeline, DispatchesTimely
<1> QED
  BY <1>1, <1>2, <1>3, <1>4, <1>5 DEF Timeline, Waited, Entry

\* A process that finds its retry scheduled goes on only when the backoff of
\* the first schedule was served, or is none.
LEMMA ServedBefore ==
    ASSUME TypeInv, Timeline, RetryScheduledBefore
    PROVE  /\ Scheduled(stream, at, attempt) # {}
           /\ pc' = "rereserve" => Waited(at, attempt)
<1>1. Schedules = Scheduled(stream, at, attempt) /\ Schedules # {}
  BY DEF RetryScheduledBefore, Schedules, Scheduled
<1>2. stream \in Seq(EventType) /\ Len(stream) \in Nat /\ DOMAIN stream = 1..Len(stream)
  BY BookTypes
<1>3. Schedules \in SUBSET Nat
  BY <1>2 DEF Schedules
<1>4. FirstSchedule \in Schedules
  BY <1>1, <1>3, LeastNatural DEF FirstSchedule
<1> DEFINE f == FirstSchedule
           n == Len(stream) + 1
<1>5. f \in DOMAIN stream /\ f \in Nat /\ f <= n /\ f \in Scheduled(stream, at, attempt)
  BY <1>1, <1>2, <1>3, <1>4 DEF Schedules
<1>6. /\ Measured(stream, f) /\ Measured(stream, n) /\ view.ledger.elapsed = TimeBefore(stream, n)
      /\ n \in Nat
  BY <1>2, <1>5 DEF Timeline, TimesInOrder
<1> HIDE DEF f, n
<1>7. TimeBefore(stream, f) \in Nat /\ TimeBefore(stream, n) \in Nat
  BY <1>6 DEF Measured
<1>8. CASE stream[f].backoff = 0
  <2>1. TimeBefore(stream, f) <= TimeBefore(stream, n)
    BY <1>2, <1>5, <1>6, LaterIsLonger
  <2>2. TimeBefore(stream, n) >= TimeBefore(stream, f) + stream[f].backoff
    BY <1>7, <1>8, <2>1
  <2>3. Waited(at, attempt)
    BY <1>5, <1>6, <2>2 DEF Waited
  <2> QED
    BY <1>1, <2>3
<1>9. CASE BackoffServed(f)
  <2>1. PICK k \in DOMAIN stream : /\ k > f /\ stream[k].type = "elapsed_recorded"
                                   /\ stream[k].backoff = stream[f].backoff
    BY <1>9 DEF BackoffServed
  <2>2. stream[k].elapsed >= TimeBefore(stream, k) + stream[k].backoff
    BY <2>1 DEF Timeline, TimesInOrder
  <2>3. k \in Nat /\ k < n /\ f <= k /\ Measured(stream, k)
    BY <1>2, <1>5, <2>1 DEF Timeline, TimesInOrder, n
  <2>4. TimeBefore(stream, f) <= TimeBefore(stream, k) /\ TimeBefore(stream, k) \in Nat
    BY <1>2, <1>5, <1>6, <2>3, LaterIsLonger DEF Measured
  <2>5. stream[k].elapsed \in Nat /\ stream[k].elapsed <= TimeBefore(stream, n)
    <3>1. k \in TimesBefore(stream, n)
      BY <2>1, <2>3 DEF TimesBefore
    <3> QED
      BY <1>2, <1>6, <3>1, TimesAreNat DEF Measured
  <2>6. stream[f].backoff \in Nat
    <3>1. stream[f] \in EventType /\ stream[f].type = "retry_scheduled"
      BY <1>2, <1>5 DEF Scheduled
    <3> QED
      BY <3>1 DEF EventType, RunStarted
  <2>7. TimeBefore(stream, n) >= TimeBefore(stream, f) + stream[f].backoff
    BY <1>7, <2>1, <2>2, <2>4, <2>5, <2>6
  <2>8. Waited(at, attempt)
    BY <1>5, <1>6, <2>7 DEF Waited
  <2> QED
    BY <1>1, <2>8
<1>10. pc' = "rereserve" => BackoffServed(f) \/ stream[f].backoff = 0
  BY DEF RetryScheduledBefore, Goto, f
<1> QED
  BY <1>1, <1>8, <1>9, <1>10

\* A step that writes nothing keeps the clock ahead and the retries waiting.
LEMMA SilentTime ==
    ASSUME TypeInv, BookInv, TimeInv, Silent
    PROVE  TimeInv'
<1>1. UNCHANGED <<inputs, stream, view>>
  BY SilentEffect
<1>2. /\ Timeline' /\ \A op, n : Waited(op, n) <=> Waited(op, n)'
      /\ \A op : Entry(op)' = Entry(op)
  BY <1>1, TimelineStill DEF TimeInv
<1>3. Running' => \/ Running /\ clock' = clock
                  \/ CallExternal
  BY DEF Silent, SkipSucceeded, GiveUp, TakeUpAttempt, RetryScheduledBefore, DispatchTooLate,
         DispatchRejected, LoopExhausted, FinishWithoutLifecycle, WriteCheckpoint,
         RequestCancel, Crash, CrashWhileAppending, StartRejected, PlanOperation, ReserveRetry, vars,
         process, Goto, Raise, MovedOn, Running, AtOperation, Undecided, Proceeds, Retries
<1>4. CallExternal => clock' >= clock /\ clock' \in Nat /\ Running
  <2> SUFFICES ASSUME CallExternal PROVE clock' >= clock /\ clock' \in Nat /\ Running
    OBVIOUS
  <2>1. pc = "dispatched" /\ Running /\ clock' = clock + Answer(at, attempt).latency
    BY DEF CallExternal, Running
  <2>2. at \in DOMAIN Operations /\ at \in Ops
    <3>1. AtWork
      BY <2>1 DEF AtWork, InAttempt
    <3> QED
      BY <3>1, WorkFacts
  <2>3. attempt \in Nat \ {0}
    <3>1. Entry(at).status = "started" /\ attempt = Entry(at).attempt
      BY <2>1, <2>2, MemEntry DEF BookInv, LoopStands, current, attempt
    <3> QED
      BY <2>2, <3>1, EntryTypes, ConfigurationTypes, BookTypes
  <2>4. Answer(at, attempt).latency \in Nat /\ clock \in Nat
    BY <2>2, <2>3, ScriptTypes, BookTypes DEF AnswerType, ProcessOK
  <2> QED
    BY <2>1, <2>4
<1>5. ClockAhead'
  <2>1. view'.ledger.elapsed = view.ledger.elapsed /\ view.ledger.elapsed \in Nat /\ clock \in Nat
    BY <1>1, BookTypes DEF LedgerType, ProcessOK
  <2> QED
    BY <1>3, <1>4, <2>1 DEF ClockAhead, TimeInv
<1>6. pc' \in {"backoff", "rereserve"} =>
          \/ pc' = pc /\ at' = at /\ mem' = mem
          \/ RetryScheduledBefore /\ at' = at /\ mem' = mem
  BY DEF Silent, SkipSucceeded, GiveUp, TakeUpAttempt, RetryScheduledBefore, DispatchTooLate,
         DispatchRejected, CallExternal, LoopExhausted, FinishWithoutLifecycle, WriteCheckpoint,
         RequestCancel, Crash, CrashWhileAppending, StartRejected, PlanOperation, ReserveRetry, vars,
         process, Goto, Raise, MovedOn
<1>7. BackoffsServed'
  <2>1. pc' = "backoff" => Scheduled(stream', at', attempt') # {}
    <3>1. mem' = mem /\ at' = at => attempt' = attempt
      BY DEF current, attempt
    <3> QED
      BY <1>1, <1>6, <3>1, ServedBefore DEF TimeInv, BackoffsServed
  <2>2. pc' = "rereserve" => Waited(at, attempt)' 
    <3>1. mem' = mem /\ at' = at => (Waited(at, attempt)' <=> Waited(at, attempt))
      BY <1>1 DEF Waited, current, attempt
    <3> QED
      BY <1>6, <3>1, ServedBefore DEF TimeInv, BackoffsServed
  <2> QED
    BY <1>2, <2>1, <2>2 DEF TimeInv, BackoffsServed
<1> QED
  BY <1>2, <1>5, <1>7 DEF TimeInv

\* A step that starts a process.
LEMMA StartTime ==
    ASSUME TypeInv, BookInv, TimeInv, Start
    PROVE  TimeInv'
<1>1. view' = view /\ UNCHANGED inputs /\ (stream' = stream \/ stream' = Append(stream, RunStarted))
  BY StartEffect
<1>2. /\ Timeline' /\ (\A op, n : Waited(op, n) => Waited(op, n)')
      /\ \A op : Entry(op)' = Entry(op)
  <2>1. CASE stream' = stream
    BY <1>1, <2>1, TimelineStill DEF TimeInv
  <2>2. CASE stream' = Append(stream, RunStarted)
    <3> DEFINE e == RunStarted
    <3>1. e.type = "run_started"
      BY DEF RunStarted
    <3>2. stream' = Append(stream, e)
      BY <2>2
    <3> HIDE DEF e
    <3>3. Timeline' /\ (\A op, n : Waited(op, n) => Waited(op, n)')
      BY <1>1, <3>1, <3>2, TimelineGrows DEF TimeInv
    <3> QED
      BY <1>1, <3>3 DEF Entry
  <2> QED
    BY <1>1, <2>1, <2>2
<1>3. clock' = view.ledger.elapsed /\ pc' \in {"approve", "loop"}
  BY DEF Start, Goto
<1>4. view.ledger.elapsed \in Nat
  BY BookTypes DEF LedgerType
<1> QED
  BY <1>1, <1>2, <1>3, <1>4 DEF TimeInv, ClockAhead, BackoffsServed

\* A note that is neither a schedule nor a time.
LEMMA PlainTime ==
    ASSUME TypeInv, BookInv, TimeInv,
           \/ ApproveBrief \/ BeginResearch \/ FinishLifecycle \/ Complete
           \/ RecoverReplan \/ ReplanAfterAnswer
    PROVE  TimeInv'
<1>1. UNCHANGED clock /\ Running /\ pc' \notin {"backoff", "rereserve"}
  BY LifecycleEffect, ReplanEffect
<1>2. UNCHANGED inputs /\ (UNCHANGED <<stream, view>> \/ \E e : Tells(e))
  BY NotingEffect DEF Noting
<1>3. \A e : Tells(e) => e.type \notin {"elapsed_recorded", "retry_scheduled"}
  BY DEF Tells, ApproveBrief, BeginResearch, FinishLifecycle, Complete, RecoverReplan,
         ReplanAfterAnswer, Backoff, SettleUnknown, SettleSuccess, SettleFailure, Settling,
         RetryUnscheduled, ScheduleRetry, Retries, Proceeds, Undecided, AtOperation
<1>4. /\ Timeline' /\ (\A op, n : Waited(op, n) => Waited(op, n)')
      /\ \A op : Entry(op)' = Entry(op)
      /\ view'.ledger.elapsed = view.ledger.elapsed
  <2>1. CASE UNCHANGED <<stream, view>>
    BY <1>2, <2>1, TimelineStill DEF TimeInv
  <2>2. CASE \E e : Tells(e)
    <3>1. PICK e : Tells(e)
      BY <2>2
    <3>2. /\ stream' = Append(stream, e) /\ e.type # "operation_dispatched"
          /\ view'.ledger.elapsed = view.ledger.elapsed /\ view'.journal = view.journal
      BY <1>3, <3>1 DEF Tells, Notes
    <3>3. Timeline' /\ (\A op, n : Waited(op, n) => Waited(op, n)')
      BY <1>2, <1>3, <3>1, <3>2, TimelineGrows DEF TimeInv
    <3> QED
      BY <3>2, <3>3 DEF Entry
  <2> QED
    BY <1>2, <2>1, <2>2
<1> QED
  BY <1>1, <1>4 DEF TimeInv, ClockAhead, BackoffsServed

\* A retry is scheduled.
LEMMA ScheduleTime ==
    ASSUME TypeInv, BookInv, TimeInv, RetryUnscheduled \/ ScheduleRetry
    PROVE  TimeInv'
<1> DEFINE d == DelayFor(backoff, attempt)
           e == RetryScheduled(at, attempt, d)
<1>1. /\ Running /\ stream' = Append(stream, e) /\ view' = view /\ pc' = "backoff"
      /\ UNCHANGED inputs /\ UNCHANGED <<mem, at, clock>>
  BY ScheduleEffect
<1>2. e.type = "retry_scheduled" /\ e.op = at /\ e.attempt = attempt /\ e.backoff = d
  BY DEF RetryScheduled
<1>3. e.backoff = DelayFor(backoff, e.attempt)
  BY <1>2
<1> HIDE DEF e, d
<1>4. /\ Timeline' /\ (\A op, n : Waited(op, n) => Waited(op, n)')
      /\ Scheduled(stream', at, attempt) # {}
  BY <1>1, <1>2, <1>3, TimelineGrows DEF TimeInv
<1>5. at' = at /\ attempt' = attempt /\ \A op : Entry(op)' = Entry(op)
  BY <1>1 DEF attempt, current, Entry
<1> QED
  BY <1>1, <1>4, <1>5 DEF TimeInv, ClockAhead, BackoffsServed

\* The time is recorded, after a backoff or after an attempt.
LEMMA ElapsedTime ==
    ASSUME TypeInv, BookInv, TimeInv, Backoff \/ SettleUnknown \/ SettleSuccess \/ SettleFailure
    PROVE  TimeInv'
<1> DEFINE now == clock'
<1>1. /\ UNCHANGED inputs /\ UNCHANGED mem /\ Running
      /\ \E delay \in Nat :
           /\ now = clock + delay /\ now \in Nat
           /\ delay = IF pc = "backoff" THEN DelayFor(backoff, attempt) ELSE 0
           /\ stream' = Append(stream, ElapsedRecorded(now, delay))
           /\ view' = [view EXCEPT !.ledger = RecordElapsed(view.ledger, now)]
  BY ElapsedEffect
<1>2. PICK delay \in Nat :
           /\ now = clock + delay /\ now \in Nat
           /\ delay = IF pc = "backoff" THEN DelayFor(backoff, attempt) ELSE 0
           /\ stream' = Append(stream, ElapsedRecorded(now, delay))
           /\ view' = [view EXCEPT !.ledger = RecordElapsed(view.ledger, now)]
  BY <1>1
<1> DEFINE e == ElapsedRecorded(now, delay)
<1>3. e.type = "elapsed_recorded" /\ e.elapsed = now /\ e.backoff = delay
  BY DEF ElapsedRecorded
<1>4. stream' = Append(stream, e)
  BY <1>2
<1>t. /\ view \in ViewType /\ view.ledger \in LedgerType /\ view.ledger.elapsed \in Nat /\ clock \in Nat
      /\ clock >= view.ledger.elapsed
  BY <1>1, BookTypes DEF LedgerType, ProcessOK, TimeInv, ClockAhead
<1>5. now >= view.ledger.elapsed + delay /\ now >= view.ledger.elapsed
  BY <1>2, <1>t
<1> HIDE DEF e, now
<1>6. view'.ledger.elapsed = now /\ view'.journal = view.journal
  BY <1>2, <1>5, <1>t DEF RecordElapsed, ViewType, LedgerType
<1>7. /\ Timeline' /\ (\A op, n : Waited(op, n) => Waited(op, n)')
      /\ \A op, n, x : x \in Scheduled(stream, op, n)
             /\ view'.ledger.elapsed >= TimeBefore(stream, x) + stream[x].backoff => Waited(op, n)'
  <2>1. /\ e.elapsed \in Nat /\ e.backoff \in Nat /\ view'.ledger.elapsed = e.elapsed
        /\ e.elapsed >= view.ledger.elapsed + e.backoff
    BY <1>2, <1>3, <1>5, <1>6
  <2>2. Timeline
    BY DEF TimeInv
  <2> QED
    BY <1>1, <1>3, <1>4, <2>1, <2>2, TimelineGrows
<1>8. ClockAhead'
  BY <1>2, <1>6 DEF ClockAhead, now
<1>9. \A op : Entry(op)' = Entry(op)
  BY <1>6 DEF Entry
<1>10. CASE pc = "backoff"
  <2>1. Backoff /\ pc' = "rereserve" /\ UNCHANGED <<mem, at>>
    BY <1>10 DEF Backoff, SettleUnknown, SettleSuccess, SettleFailure, Settling, Goto
  <2>2. PICK i \in Scheduled(stream, at, attempt) : TRUE
    BY <1>10 DEF TimeInv, BackoffsServed
  <2>3. i \in DOMAIN stream /\ stream[i].type = "retry_scheduled" /\ stream[i].attempt = attempt
    BY <2>2 DEF Scheduled
  <2>4. stream[i].backoff = delay
    BY <1>2, <1>10, <2>3 DEF TimeInv, Timeline, DelaysKnown
  <2>5. TimeBefore(stream, i) \in Nat /\ TimeBefore(stream, i) <= view.ledger.elapsed
    <3>1. stream \in Seq(EventType) /\ Len(stream) \in Nat /\ DOMAIN stream = 1..Len(stream)
      BY BookTypes
    <3> DEFINE n == Len(stream) + 1
    <3>2. i \in Nat /\ n \in Nat /\ i <= n /\ i \in 1..n /\ n \in 1..n
      BY <2>3, <3>1
    <3>3. Measured(stream, i) /\ Measured(stream, n) /\ view.ledger.elapsed = TimeBefore(stream, n)
      BY <3>2 DEF TimeInv, Timeline, TimesInOrder
    <3> HIDE DEF n
    <3>4. TimeBefore(stream, i) <= TimeBefore(stream, n)
      BY <3>1, <3>2, <3>3, LaterIsLonger
    <3> QED
      BY <3>3, <3>4 DEF Measured
  <2>6. now >= TimeBefore(stream, i) + delay
    BY <1>2, <1>5, <1>t, <2>5
  <2>7. Waited(at, attempt)'
    <3> DEFINE n == attempt
               o == at
    <3>1. \A op, m, x : x \in Scheduled(stream, op, m)
             /\ view'.ledger.elapsed >= TimeBefore(stream, x) + stream[x].backoff => Waited(op, m)'
      BY <1>7
    <3>2. i \in Scheduled(stream, o, n)
      BY <2>2
    <3>3. o' = o /\ n' = n
      BY <2>1 DEF current, attempt
    <3> HIDE DEF n, o
    <3>4. \E j \in Scheduled(stream', o, n) : view'.ledger.elapsed >= TimeBefore(stream', j) + stream'[j].backoff
      BY <1>6, <2>4, <2>6, <3>1, <3>2 DEF Waited
    <3> QED
      BY <3>3, <3>4 DEF Waited, n, o
  <2> QED
    BY <1>7, <1>8, <1>9, <2>1, <2>7 DEF TimeInv, BackoffsServed
<1>11. CASE pc # "backoff"
  <2>1. pc' \in {"finish", "replan", "loop", "schedule"}
    BY <1>11 DEF Backoff, SettleUnknown, SettleSuccess, SettleFailure, Settling, Goto, MovedOn
  <2> QED
    BY <1>7, <1>8, <1>9, <2>1 DEF TimeInv, BackoffsServed
<1> QED
  BY <1>10, <1>11

\* An attempt is prepared, dispatched or settled.
LEMMA WorksTime ==
    ASSUME TypeInv, BookInv, TimeInv, NEW e, Works(e)
    PROVE  TimeInv'
<1>1. /\ stream' = Append(stream, e) /\ UNCHANGED inputs /\ UNCHANGED <<at, clock>>
      /\ at \in Ops /\ view'.ledger.elapsed = view.ledger.elapsed
      /\ \A op \in Ops : op # at => Entry(op)' = Entry(op)
      /\ Sends(e) \/ Settles(e) \/ Prepares(e)
  BY DEF Works
<1>2. e.type \notin {"elapsed_recorded", "retry_scheduled"}
  BY <1>1 DEF Sends, Settles, Prepares
<1>3. Entry(at).attempt \in Nat
  BY <1>1, EntryTypes
<1>4. Entry(at).attempt > 1 => Waited(at, Entry(at).attempt - 1)
  BY <1>1 DEF TimeInv, BackoffsServed
<1>5. e.type = "operation_dispatched" /\ e.attempt > 1 => Waited(e.op, e.attempt - 1)
  BY <1>1, <1>4 DEF Sends, Settles, Prepares
<1>d. e.type = "operation_dispatched" /\ deadline # NoLimit => view.ledger.elapsed < deadline
  <2> SUFFICES ASSUME e.type = "operation_dispatched", deadline # NoLimit PROVE view.ledger.elapsed < deadline
    OBVIOUS
  <2>1. ~PastDeadline(clock) /\ Running
    BY <1>1 DEF Sends, Settles, Prepares, Running
  <2>2. deadline \in Nat /\ clock \in Nat /\ view.ledger.elapsed \in Nat
    BY BookTypes, ConfigurationTypes DEF deadline, SpecType, Limit, LedgerType, ProcessOK
  <2>3. clock >= view.ledger.elapsed
    BY <2>1 DEF TimeInv, ClockAhead
  <2> QED
    BY <2>1, <2>2, <2>3 DEF PastDeadline
<1>6. Timeline' /\ \A op, n : Waited(op, n) => Waited(op, n)'
  BY <1>1, <1>2, <1>5, <1>d, TimelineGrows DEF TimeInv
<1>7. Running /\ pc' \notin {"backoff", "rereserve"}
  BY <1>1 DEF Sends, Settles, Prepares, Running
<1>8. Entry(at)'.attempt > 1 => Waited(at, Entry(at)'.attempt - 1)
  <2>1. \/ Entry(at)'.attempt = Entry(at).attempt
        \/ Entry(at)'.attempt = 1
        \/ Entry(at)'.attempt = Entry(at).attempt + 1 /\ pc = "rereserve"
    BY <1>1 DEF Sends, Settles, Prepares
  <2>2. CASE Entry(at)'.attempt = Entry(at).attempt + 1 /\ pc = "rereserve"
    <3>1. Waited(at, attempt)
      BY <2>2 DEF TimeInv, BackoffsServed
    <3>2. attempt = Entry(at).attempt
      <4>1. Running /\ Agreement
        BY <2>2 DEF Running, BookInv
      <4> QED
        BY <1>1, <4>1, MemEntry DEF attempt, current
    <3>3. Entry(at)'.attempt - 1 = Entry(at).attempt
      BY <1>3, <2>2
    <3> QED
      BY <3>1, <3>2, <3>3
  <2> QED
    BY <1>4, <2>1, <2>2
<1>9. \A op \in Ops : Entry(op)'.attempt > 1 => Waited(op, Entry(op)'.attempt - 1)
  BY <1>1, <1>8 DEF TimeInv, BackoffsServed
<1>10. ClockAhead'
  BY <1>1, <1>7 DEF TimeInv, ClockAhead
<1>11. \A op \in Ops : Entry(op)'.attempt > 1 => Waited(op, Entry(op).attempt - 1)'
  <2> SUFFICES ASSUME NEW op \in Ops, Entry(op)'.attempt > 1
               PROVE  Waited(op, Entry(op).attempt - 1)'
    OBVIOUS
  <2> DEFINE n == Entry(op)'.attempt - 1
  <2>1. Waited(op, n)
    BY <1>9
  <2> HIDE DEF n
  <2>2. \E i \in Scheduled(stream', op, n) : view'.ledger.elapsed >= TimeBefore(stream', i) + stream'[i].backoff
    BY <1>6, <2>1 DEF Waited
  <2> QED
    BY <2>2 DEF n, Waited
<1> QED
  BY <1>6, <1>7, <1>10, <1>11 DEF TimeInv, BackoffsServed

\* Every step keeps the time in order.
LEMMA StepTime == TypeInv /\ BookInv /\ TimeInv /\ [Next]_vars => TimeInv'
<1> SUFFICES ASSUME TypeInv, BookInv, TimeInv, [Next]_vars PROVE TimeInv'
  OBVIOUS
<1>1. CASE Silent
  BY <1>1, SilentTime
<1>2. CASE Noting
  BY <1>2, StartTime, PlainTime, ScheduleTime, ElapsedTime DEF Noting
<1>3. CASE \/ Dispatch \/ RecordUnknown \/ RecordSuccess \/ RecordFailure \/ CancelOperation
           \/ \E n : Reserving(n)
  <2>1. PICK e : Works(e)
    BY <1>3, WorksEffect
  <2> QED
    BY <2>1, WorksTime
<1> QED
  BY <1>1, <1>2, <1>3, StepKinds

\* No time has passed before the first process starts.
LEMMA InitTime == Init => TimeInv
<1> SUFFICES ASSUME Init PROVE TimeInv
  OBVIOUS
<1>1. /\ stream = <<>> /\ Len(stream) = 0 /\ DOMAIN stream = {} /\ pc = "down"
      /\ view.ledger.elapsed = 0
      /\ \A op \in Ops : Entry(op).attempt = 0
  BY DEF Init, InitialView, EmptyLedger, Entry, Absent
<1>2. \A i : TimesBefore(stream, i) = {} /\ TimeBefore(stream, i) = 0
  BY <1>1 DEF TimesBefore, TimeBefore
<1>3. \A i : Measured(stream, i)
  BY <1>2 DEF Measured
<1> QED
  BY <1>1, <1>2, <1>3
     DEF TimeInv, Timeline, TimesInOrder, DelaysKnown, DispatchesWaited, DispatchesTimely, ClockAhead, BackoffsServed, Running

\* The recorded time before an event, in the terms of the property.
LEMMA TimeBeforeIs == \A j : ElapsedBefore(j) = TimeBefore(stream, j)
<1> SUFFICES ASSUME NEW j PROVE ElapsedBefore(j) = TimeBefore(stream, j)
  OBVIOUS
<1> DEFINE S == {stream[m].elapsed : m \in {m \in EventsOf("elapsed_recorded") : m < j}}
<1>1. {m \in EventsOf("elapsed_recorded") : m < j} = TimesBefore(stream, j)
  BY DEF EventsOf, TimesBefore
<1>2. S = {stream[m].elapsed : m \in TimesBefore(stream, j)} /\ (S = {} <=> TimesBefore(stream, j) = {})
  BY <1>1
<1>3. ElapsedBefore(j) = IF S = {} THEN 0 ELSE Max(S)
  BY DEF ElapsedBefore
<1> HIDE DEF S
<1> QED
  BY <1>2, <1>3 DEF TimeBefore

\* The timeline says of every dispatch what DispatchedInTime says.
LEMMA TimelineSuffices == Timeline => DispatchedInTime
<1> SUFFICES ASSUME Timeline PROVE DispatchedInTime
  OBVIOUS
<1>1. ASSUME NEW k \in EventsOf("operation_dispatched"), stream[k].attempt > 1
      PROVE  \E i \in EventsOf("retry_scheduled") :
                /\ i < k
                /\ stream[i].op = stream[k].op /\ stream[i].attempt = stream[k].attempt - 1
                /\ ElapsedBefore(k) >= ElapsedBefore(i) + stream[i].backoff
  <2>1. PICK i \in Scheduled(stream, stream[k].op, stream[k].attempt - 1) :
             i < k /\ TimeBefore(stream, k) >= TimeBefore(stream, i) + stream[i].backoff
    BY <1>1 DEF Timeline, DispatchesWaited, EventsOf
  <2> QED
    BY <2>1, TimeBeforeIs DEF Scheduled, EventsOf
<1>2. NoneDispatchedTooLate
  BY TimeBeforeIs DEF Timeline, DispatchesTimely, NoneDispatchedTooLate, EventsOf
<1> QED
  BY <1>1, <1>2 DEF DispatchedInTime, RetriesWaitOut

\* DispatchedInTime for every instance: whatever crashes while a retry waits or
\* an attempt is reserved, it is dispatched after its schedule, only when the
\* recorded time has moved on by the backoff, and not at or after the deadline.
THEOREM BackoffsHold == Spec => []DispatchedInTime
<1>1. Init => TypeInv /\ BookInv /\ TimeInv
  BY InitType, InitBooks, InitTime
<1>2. (TypeInv /\ BookInv /\ TimeInv) /\ [Next]_vars => (TypeInv /\ BookInv /\ TimeInv)'
  BY StepTypeInv, StepBookInv, StepTime
<1>3. TimeInv => DispatchedInTime
  BY TimelineSuffices DEF TimeInv
<1> QED
  BY <1>1, <1>2, <1>3, PTL DEF Spec

---------------------------------------------------------------------------
(* Replays *)

\* f holds what the reducer says of every prefix of s up to its first n events.
IsReduction(f, s, n) ==
    f = [i \in 0..n |-> IF i = 0 THEN InitialView ELSE ReduceEvent(f[i - 1], s[i], spec)]

\* Every stream can be reduced, event after event.
LEMMA ReductionExists ==
    ASSUME NEW s, NEW n \in Nat
    PROVE  \E f : IsReduction(f, s, n)
<1> DEFINE Bad == {m \in Nat : ~ \E f : IsReduction(f, s, m)}
<1> SUFFICES ASSUME Bad # {} PROVE FALSE
  OBVIOUS
<1>1. PICK m \in Bad : \A k \in Bad : m <= k
  <2>1. Bad \in SUBSET Nat
    OBVIOUS
  <2> QED
    BY <2>1, LeastNatural
<1>2. m \in Nat /\ ~ \E f : IsReduction(f, s, m)
  OBVIOUS
<1>3. m # 0
  <2> DEFINE g == [i \in 0..0 |-> InitialView]
  <2>1. IsReduction(g, s, 0)
    BY DEF IsReduction
  <2> QED
    BY <1>2, <2>1
<1>4. m - 1 \in Nat /\ m - 1 \notin Bad
  BY <1>1, <1>2, <1>3
<1>5. PICK f : IsReduction(f, s, m - 1)
  BY <1>4
<1> DEFINE g == [i \in 0..m |-> IF i = m THEN ReduceEvent(f[m - 1], s[m], spec) ELSE f[i]]
<1>6. \A i \in 0..m - 1 : g[i] = f[i]
  BY <1>2
<1>7. \A i \in 0..m - 1 : f[i] = IF i = 0 THEN InitialView ELSE ReduceEvent(f[i - 1], s[i], spec)
  BY <1>5 DEF IsReduction
<1>8. \A i \in 0..m : g[i] = IF i = 0 THEN InitialView ELSE ReduceEvent(g[i - 1], s[i], spec)
  <2> SUFFICES ASSUME NEW i \in 0..m
               PROVE  g[i] = IF i = 0 THEN InitialView ELSE ReduceEvent(g[i - 1], s[i], spec)
    OBVIOUS
  <2>1. i = m \/ i \in 0..m - 1
    BY <1>2
  <2>2. i # 0 => i - 1 \in 0..m - 1
    BY <1>2
  <2>3. i # 0 => g[i - 1] = f[i - 1]
    BY <2>2, <1>6
  <2>4. CASE i = m
    <3>1. g[i] = ReduceEvent(f[i - 1], s[i], spec)
      BY <2>4
    <3> HIDE DEF g
    <3> QED
      BY <3>1, <2>3, <2>4, <1>3
  <2>5. CASE i \in 0..m - 1
    <3>1. g[i] = f[i]
      BY <2>5, <1>6
    <3> HIDE DEF g
    <3> QED
      BY <3>1, <2>3, <2>5, <1>7
  <2> QED
    BY <2>1, <2>4, <2>5
<1>9. IsReduction(g, s, m)
  <2>1. g = [i \in 0..m |-> g[i]]
    OBVIOUS
  <2> HIDE DEF g
  <2> QED
    BY <2>1, <1>8 DEF IsReduction
<1> QED
  BY <1>2, <1>9

\* Two streams that agree on their first k events reduce to the same there.
LEMMA ReductionsAgree ==
    ASSUME NEW f, NEW s, NEW m \in Nat, IsReduction(f, s, m),
           NEW g, NEW t, NEW n \in Nat, IsReduction(g, t, n),
           NEW k \in Nat, k <= m, k <= n, \A i \in 1..k : s[i] = t[i]
    PROVE  f[k] = g[k]
<1> DEFINE Bad == {i \in Nat : i <= k /\ f[i] # g[i]}
<1> SUFFICES ASSUME Bad # {} PROVE FALSE
  OBVIOUS
<1>1. PICK b \in Bad : \A i \in Bad : b <= i
  <2>1. Bad \in SUBSET Nat
    OBVIOUS
  <2> QED
    BY <2>1, LeastNatural
<1>2. b \in Nat /\ b <= k /\ f[b] # g[b] /\ b \in 0..m /\ b \in 0..n
  OBVIOUS
<1>3. f[b] = IF b = 0 THEN InitialView ELSE ReduceEvent(f[b - 1], s[b], spec)
  BY <1>2 DEF IsReduction
<1>4. g[b] = IF b = 0 THEN InitialView ELSE ReduceEvent(g[b - 1], t[b], spec)
  BY <1>2 DEF IsReduction
<1>5. b # 0
  BY <1>2, <1>3, <1>4
<1>6. b - 1 \in Nat /\ b - 1 <= k /\ b - 1 \notin Bad
  BY <1>1, <1>2, <1>5
<1>7. f[b - 1] = g[b - 1]
  BY <1>6
<1>8. s[b] = t[b]
  BY <1>2, <1>5
<1> HIDE DEF Bad
<1> QED
  BY <1>2, <1>3, <1>4, <1>5, <1>7, <1>8

\* What ReducePrefix says is what any reduction says.
LEMMA PrefixReduction ==
    ASSUME NEW s, NEW n \in Nat
    PROVE  \E f : IsReduction(f, s, n) /\ ReducePrefix(s, n, spec) = f[n]
<1> DEFINE R(f) == f = [i \in 0..n |-> IF i = 0 THEN InitialView ELSE ReduceEvent(f[i - 1], s[i], spec)]
<1>1. ReducePrefix(s, n, spec) = (CHOOSE f : R(f))[n]
  BY DEF ReducePrefix
<1>2. \A f : R(f) <=> IsReduction(f, s, n)
  BY DEF IsReduction
<1>3. \E f : R(f)
  BY <1>2, ReductionExists
<1> HIDE DEF R
<1>4. R(CHOOSE f : R(f))
  BY <1>3
<1> QED
  BY <1>1, <1>2, <1>4

\* The reduction of a prefix does not see what comes after it.
LEMMA PrefixStays ==
    ASSUME NEW s, NEW t, NEW n \in Nat, \A i \in 1..n : s[i] = t[i]
    PROVE  ReducePrefix(s, n, spec) = ReducePrefix(t, n, spec)
<1>1. PICK f : IsReduction(f, s, n) /\ ReducePrefix(s, n, spec) = f[n]
  BY PrefixReduction
<1>2. PICK g : IsReduction(g, t, n) /\ ReducePrefix(t, n, spec) = g[n]
  BY PrefixReduction
<1>3. f[n] = g[n]
  BY <1>1, <1>2, ReductionsAgree
<1> QED
  BY <1>1, <1>2, <1>3

\* One more event is one more step of the reducer.
LEMMA PrefixGrows ==
    ASSUME NEW s, NEW n \in Nat
    PROVE  ReducePrefix(s, n + 1, spec) = ReduceEvent(ReducePrefix(s, n, spec), s[n + 1], spec)
<1>1. PICK f : IsReduction(f, s, n + 1) /\ ReducePrefix(s, n + 1, spec) = f[n + 1]
  BY PrefixReduction
<1>2. PICK g : IsReduction(g, s, n) /\ ReducePrefix(s, n, spec) = g[n]
  BY PrefixReduction
<1>3. f[n] = g[n]
  BY <1>1, <1>2, ReductionsAgree
<1>4. f[n + 1] = ReduceEvent(f[n], s[n + 1], spec)
  BY <1>1 DEF IsReduction
<1> QED
  BY <1>1, <1>2, <1>3, <1>4

\* No events, no changes.
LEMMA PrefixOfNone == ASSUME NEW s PROVE ReducePrefix(s, 0, spec) = InitialView
<1>1. PICK f : IsReduction(f, s, 0) /\ ReducePrefix(s, 0, spec) = f[0]
  BY PrefixReduction
<1> QED
  BY <1>1 DEF IsReduction

\* Every step keeps the stream or appends one event to it, which the reducer
\* has seen, and only a step that keeps the stream writes a checkpoint.
LEMMA StepGrows ==
    ASSUME [Next]_vars
    PROVE  /\ UNCHANGED inputs
           /\ \/ UNCHANGED <<stream, view>>
              \/ UNCHANGED checkpoint /\ \E e : AppendEvent(e)
           /\ \/ UNCHANGED checkpoint
              \/ checkpoint' = [sequence |-> Len(stream), view |-> view]
<1> DEFINE Kept == UNCHANGED <<stream, view>>
           Wrote == UNCHANGED checkpoint /\ \E e : AppendEvent(e)
           Same == UNCHANGED <<inputs, checkpoint>>
<1>1. Silent => UNCHANGED inputs /\ Kept
  BY SilentEffect
<1>2. Silent => \/ UNCHANGED checkpoint
                \/ checkpoint' = [sequence |-> Len(stream), view |-> view]
  BY DEF Silent, SkipSucceeded, GiveUp, TakeUpAttempt, RetryScheduledBefore, DispatchTooLate,
       DispatchRejected, CallExternal, LoopExhausted, FinishWithoutLifecycle, WriteCheckpoint,
       CheckpointView, RequestCancel, Crash, CrashWhileAppending, StartRejected, PlanOperation,
       ReserveRetry, durables, vars
<1>3. Start => Same /\ (Kept \/ Wrote)
  BY DEF Start, AppendEvent, durables
<1>4. ApproveBrief \/ BeginResearch \/ FinishLifecycle \/ Complete => Same /\ Wrote
  <2>1. \A to : LifecycleTo(to) => \E e : AppendEvent(e) /\ UNCHANGED checkpoint
    BY DEF LifecycleTo, AppendEvent
  <2> QED
    BY <2>1 DEF ApproveBrief, BeginResearch, FinishLifecycle, Complete
<1>5. RetryUnscheduled \/ ScheduleRetry => Same /\ Wrote
  BY DEF RetryUnscheduled, ScheduleRetry, AppendEvent
<1>6. RecoverReplan \/ ReplanAfterAnswer => Same /\ Wrote
  BY DEF RecoverReplan, ReplanAfterAnswer, DecideReplan, AppendEvent
<1>7. Backoff \/ SettleUnknown \/ SettleSuccess \/ SettleFailure => Same /\ Wrote
  BY DEF Backoff, SettleUnknown, SettleSuccess, SettleFailure, Settling, AppendEvent
<1>8. Dispatch \/ RecordUnknown \/ RecordSuccess \/ RecordFailure => Same /\ Wrote
  BY DEF Dispatch, RecordUnknown, RecordSuccess, RecordFailure, AppendEvent
<1>9. CancelOperation => Same /\ Wrote
  BY DEF CancelOperation, AppendEvent
<1>10. (\E n : Reserving(n)) => Same /\ Wrote
  BY DEF Reserving, PlanOperation, ReserveRetry, AppendEvent
<1> QED
  BY <1>1, <1>2, <1>3, <1>4, <1>5, <1>6, <1>7, <1>8, <1>9, <1>10, StepKinds DEF Noting

\* The view is the reduction of the whole stream, and the checkpoint on disk
\* was the view of a prefix of it.
Replayed ==
    /\ view = ReducePrefix(stream, Len(stream), spec)
    /\ checkpoint.sequence <= Len(stream)
    /\ CheckpointAccepted

\* Nothing written, nothing to reduce.
LEMMA InitReplayed == Init => Replayed
<1> SUFFICES ASSUME Init PROVE Replayed
  OBVIOUS
<1>1. stream = <<>> /\ Len(stream) = 0 /\ view = InitialView /\ checkpoint.sequence = -1
  BY DEF Init, NoCheckpoint
<1>2. ReducePrefix(stream, 0, spec) = InitialView
  BY PrefixOfNone
<1> QED
  BY <1>1, <1>2 DEF Replayed, CheckpointAccepted

\* Every step keeps the view and the checkpoint reductions of what they name.
LEMMA StepReplayed == TypeInv /\ Replayed /\ [Next]_vars => Replayed'
<1> SUFFICES ASSUME TypeInv, Replayed, [Next]_vars PROVE Replayed'
  OBVIOUS
<1>t. stream \in Seq(EventType) /\ Len(stream) \in Nat /\ checkpoint.sequence \in Nat \cup {-1}
  BY DEF TypeInv, TypeOK, DurablesOK
<1>s. spec' = spec
  BY StepGrows DEF inputs
<1>1. CASE UNCHANGED <<stream, view>>
  <2>1. view' = ReducePrefix(stream', Len(stream'), spec')
    BY <1>1, <1>s DEF Replayed
  <2>2. CASE UNCHANGED checkpoint
    BY <1>1, <1>s, <2>1, <2>2 DEF Replayed, CheckpointAccepted
  <2>3. CASE checkpoint' = [sequence |-> Len(stream), view |-> view]
    <3>1. checkpoint'.sequence = Len(stream) /\ checkpoint'.view = view
      BY <2>3
    <3>2. checkpoint'.view = ReducePrefix(stream', checkpoint'.sequence, spec')
      BY <1>1, <1>s, <3>1 DEF Replayed
    <3> QED
      BY <1>1, <1>t, <2>1, <3>1, <3>2 DEF Replayed, CheckpointAccepted
  <2> QED
    BY <2>2, <2>3, StepGrows
<1>2. CASE UNCHANGED checkpoint /\ \E e : AppendEvent(e)
  <2>1. PICK e : AppendEvent(e)
    BY <1>2
  <2> DEFINE n == Len(stream)
             longer == stream'
  <2>2. longer = Append(stream, e) /\ view' = ReduceEvent(view, e, spec)
    BY <2>1 DEF AppendEvent
  <2>3. Len(longer) = n + 1 /\ longer[n + 1] = e /\ n \in Nat /\ \A i \in 1..n : longer[i] = stream[i]
    BY <1>t, <2>2
  <2> HIDE DEF n, longer
  <2>4. \A m \in Nat : m <= n => ReducePrefix(stream, m, spec) = ReducePrefix(longer, m, spec)
    <3> SUFFICES ASSUME NEW m \in Nat, m <= n
                 PROVE  ReducePrefix(stream, m, spec) = ReducePrefix(longer, m, spec)
      OBVIOUS
    <3>1. \A i \in 1..m : stream[i] = longer[i]
      BY <2>3
    <3> QED
      BY <3>1, PrefixStays
  <2>5. ReducePrefix(longer, n + 1, spec) = ReduceEvent(ReducePrefix(longer, n, spec), longer[n + 1], spec)
    BY <2>3, PrefixGrows
  <2>6. view = ReducePrefix(longer, n, spec)
    BY <2>3, <2>4 DEF Replayed, n
  <2>7. view' = ReducePrefix(longer, Len(longer), spec)
    BY <2>2, <2>3, <2>5, <2>6
  <2>8. checkpoint.sequence >= 0 => checkpoint.view = ReducePrefix(longer, checkpoint.sequence, spec)
    BY <1>t, <2>4 DEF Replayed, CheckpointAccepted, n
  <2>9. checkpoint.sequence <= Len(longer)
    BY <1>t, <2>3 DEF Replayed, n
  <2> QED
    BY <1>2, <1>s, <2>7, <2>8, <2>9 DEF Replayed, CheckpointAccepted, longer
<1> QED
  BY <1>1, <1>2, StepGrows

\* However the stream grows after a checkpoint was written, and whoever reads
\* it, the checkpoint is the reduction of the prefix that it names, and the
\* view a process starts from the reduction of the whole stream
\* (replay_runtime_events, load_and_validate).
THEOREM CheckpointStands ==
    Spec => []CheckpointAccepted /\ [](view = ReducePrefix(stream, Len(stream), spec))
<1>1. Init => Replayed
  BY InitReplayed
<1>2. TypeInv /\ Replayed /\ [Next]_vars => Replayed'
  BY StepReplayed
<1>3. Replayed => CheckpointAccepted /\ view = ReducePrefix(stream, Len(stream), spec)
  BY DEF Replayed
<1>4. Spec => []TypeInv
  BY BooksInOrder, PTL
<1> QED
  BY <1>1, <1>2, <1>3, <1>4, PTL DEF Spec

---------------------------------------------------------------------------
(* The harness implements DurableDispatch. The abstract state is read off  *)
(* the frontier, the first operation that has not succeeded: how many      *)
(* succeeded before it, how many attempts of it the stream holds as        *)
(* dispatched, and the phase of the last one, from its record and from     *)
(* where the process is. Every step that writes about an attempt is then a *)
(* step of the abstract specification or none of its business; so is the   *)
(* call, and a crash loses the attempt it finds in flight.                 *)

---------------------------------------------------------------------------
(* The frontier *)

Length == Len(Operations)

\* The first operation that has not succeeded, or the end of the script.
IsFrontier(o) ==
    /\ o \in 1..Length + 1
    /\ \A p \in 1..Length : p < o => Entry(p).status = "succeeded"
    /\ o <= Length => Entry(o).status # "succeeded"

\* There is one.
LEMMA FrontierExists ==
    ASSUME TypeInv
    PROVE  \E o : IsFrontier(o)
<1> DEFINE Rest == {p \in 1..Length : Entry(p).status # "succeeded"}
<1>1. Length \in Nat
  BY BookTypes, ConfigurationTypes DEF Length
<1>2. CASE Rest = {}
  <2>1. IsFrontier(Length + 1)
    BY <1>1, <1>2 DEF IsFrontier
  <2> QED
    BY <2>1
<1>3. CASE Rest # {}
  <2>1. Rest \in SUBSET Nat
    BY <1>1
  <2>2. PICK o \in Rest : \A k \in Rest : o <= k
    BY <1>3, <2>1, LeastNatural
  <2>3. \A p \in 1..Length : p < o => p \notin Rest
    BY <1>1, <2>2
  <2>4. IsFrontier(o)
    BY <1>1, <2>2, <2>3 DEF IsFrontier
  <2> QED
    BY <2>4
<1> QED
  BY <1>2, <1>3

\* It is where the successes end.
LEMMA FrontierFacts ==
    ASSUME TypeInv, InOrder, NEW o, IsFrontier(o)
    PROVE  /\ Frontier = o /\ Cardinality(SucceededOps) = o - 1
           /\ o \in Nat /\ Length \in Nat /\ DOMAIN Operations = 1..Length /\ (o <= Length <=> o \in DOMAIN Operations)
           /\ \A p \in DOMAIN Operations : p > o => Entry(p).status = "absent"
<1>1. Length \in Nat /\ DOMAIN Operations = 1..Length
  BY BookTypes, ConfigurationTypes DEF Length
<1>2. o \in Nat /\ (o <= Length <=> o \in DOMAIN Operations)
  BY <1>1 DEF IsFrontier
<1>3. \A p \in DOMAIN Operations : p \in Ops
  BY BookTypes, ScriptTypes
<1>4. \A p \in DOMAIN Operations : p > o => Entry(p).status = "absent"
  <2> SUFFICES ASSUME NEW p \in DOMAIN Operations, p > o, Entry(p).status # "absent" PROVE FALSE
    OBVIOUS
  <2>1. o \in DOMAIN Operations /\ o < p
    BY <1>1, <1>2
  <2>2. Entry(o).status = "succeeded"
    BY <1>3, <2>1 DEF InOrder
  <2> QED
    BY <1>2, <2>1, <2>2 DEF IsFrontier
<1>5. SucceededOps = 1..(o - 1)
  <2>1. \A p : p \in SucceededOps <=> p \in DOMAIN Operations /\ Entry(p).status = "succeeded"
    BY DEF SucceededOps, Entry
  <2>2. \A p \in 1..Length : Entry(p).status = "succeeded" <=> p < o
    BY <1>1, <1>2, <1>4 DEF IsFrontier
  <2>3. \A p : p \in 1..(o - 1) <=> p \in 1..Length /\ p < o
    BY <1>1 DEF IsFrontier
  <2> QED
    BY <1>1, <2>1, <2>2, <2>3
<1>6. Cardinality(SucceededOps) = o - 1
  <2>1. 1 \in Int /\ o - 1 \in Int
    BY <1>2
  <2>2. Cardinality(1..(o - 1)) = IF 1 > o - 1 THEN 0 ELSE (o - 1) - 1 + 1
    BY <2>1, FS_Interval
  <2>3. o >= 1
    BY <1>1 DEF IsFrontier
  <2> QED
    BY <1>2, <1>5, <2>2, <2>3
<1>7. Frontier = o
  BY <1>2, <1>6 DEF Frontier
<1> QED
  BY <1>1, <1>2, <1>4, <1>6, <1>7

\* An operation in hand that has not succeeded is the frontier.
LEMMA InHand ==
    ASSUME TypeInv, BookInv, Running, at \in DOMAIN Operations, Entry(at).status # "succeeded"
    PROVE  IsFrontier(at)
<1>1. Length \in Nat /\ DOMAIN Operations = 1..Length
  BY BookTypes, ConfigurationTypes DEF Length
<1>2. \A p \in DOMAIN Operations : p < at => Entry(p).status = "succeeded"
  BY DEF BookInv, LoopStands
<1> QED
  BY <1>1, <1>2 DEF IsFrontier

---------------------------------------------------------------------------
(* The attempts that were dispatched *)

\* How many the record of an operation accounts for.
Tries(op) ==
    IF op \notin DOMAIN Operations \/ Entry(op).status \in {"absent", "cancelled_before_dispatch"} THEN 0
    ELSE IF Entry(op).status = "reserved" THEN Entry(op).attempt - 1
    ELSE Entry(op).attempt

\* The stream holds as many dispatches of an operation as its record says.
Counted == \A op : Cardinality(DispatchedAttempts(op)) = Tries(op)

\* A step that dispatches nothing leaves the count alone.
LEMMA CountStill ==
    ASSUME TypeInv, stream' = stream \/ \E e : stream' = Append(stream, e) /\ e.type # "operation_dispatched"
    PROVE  \A op : DispatchedAttempts(op)' = DispatchedAttempts(op)
<1> SUFFICES ASSUME NEW op PROVE DispatchedAttempts(op)' = DispatchedAttempts(op)
  OBVIOUS
<1>1. CASE stream' = stream
  BY <1>1 DEF DispatchedAttempts, EventsOf
<1>2. CASE \E e : stream' = Append(stream, e) /\ e.type # "operation_dispatched"
  <2>1. PICK e : stream' = Append(stream, e) /\ e.type # "operation_dispatched"
    BY <1>2
  <2>2. /\ DOMAIN stream' = DOMAIN stream \cup {Len(stream) + 1}
        /\ \A i \in DOMAIN stream : stream'[i] = stream[i]
        /\ stream'[Len(stream) + 1] = e
    BY <2>1, BookTypes, Grown
  <2> QED
    BY <2>1, <2>2 DEF DispatchedAttempts, EventsOf
<1> QED
  BY <1>1, <1>2

\* A dispatch counts for its operation.
LEMMA CountSent ==
    ASSUME TypeInv, NEW e, stream' = Append(stream, e), e.type = "operation_dispatched"
    PROVE  /\ Cardinality(DispatchedAttempts(e.op)') = Cardinality(DispatchedAttempts(e.op)) + 1
           /\ \A op : op # e.op => DispatchedAttempts(op)' = DispatchedAttempts(op)
<1> DEFINE new == Len(stream) + 1
<1>1. /\ DOMAIN stream' = DOMAIN stream \cup {new} /\ new \notin DOMAIN stream
      /\ \A i \in DOMAIN stream : stream'[i] = stream[i]
      /\ stream'[new] = e /\ stream \in Seq(EventType)
  BY BookTypes, Grown
<1> HIDE DEF new
<1>2. \A op : DispatchedAttempts(op)' = IF op = e.op THEN DispatchedAttempts(op) \cup {new}
                                        ELSE DispatchedAttempts(op)
  BY <1>1 DEF DispatchedAttempts, EventsOf
<1>3. DispatchedAttempts(e.op) \in SUBSET (DOMAIN stream)
  BY DEF DispatchedAttempts, EventsOf
<1>4. Cardinality(DispatchedAttempts(e.op) \cup {new}) = Cardinality(DispatchedAttempts(e.op)) + 1
  BY <1>1, <1>3, CountGrown DEF new
<1> QED
  BY <1>2, <1>4

\* A step that writes about no attempt leaves every record alone.
LEMMA NoteEffect ==
    ASSUME TypeInv, BookInv, Silent \/ Noting
    PROVE  /\ UNCHANGED inputs /\ \A op : Entry(op)' = Entry(op)
           /\ stream' = stream \/ \E e : stream' = Append(stream, e) /\ e.type # "operation_dispatched"
<1>1. CASE UNCHANGED <<stream, view>>
  BY <1>1, SilentEffect, NotingEffect DEF Entry
<1>2. CASE \E e : Tells(e)
  <2>1. PICK e : Tells(e)
    BY <1>2
  <2>2. /\ stream' = Append(stream, e) /\ e.type # "operation_dispatched"
        /\ view'.journal = view.journal
    BY <2>1 DEF Tells, Notes
  <2> QED
    BY <2>2, SilentEffect, NotingEffect DEF Entry
<1> QED
  BY <1>1, <1>2, SilentEffect, NotingEffect

\* Tries depends on the record alone.
LEMMA TriesOf ==
    ASSUME UNCHANGED inputs, NEW op, op \in DOMAIN Operations => Entry(op)' = Entry(op)
    PROVE  Tries(op)' = Tries(op)
<1>1. DOMAIN Operations' = DOMAIN Operations
  BY FixedInputs
<1> QED
  BY <1>1 DEF Tries

\* Every step keeps the count.
LEMMA StepCounted == TypeInv /\ BookInv /\ Counted /\ [Next]_vars => Counted'
<1> SUFFICES ASSUME TypeInv, BookInv, Counted, [Next]_vars PROVE Counted'
  OBVIOUS
<1>1. CASE Silent \/ Noting
  <2>1. \A op : DispatchedAttempts(op)' = DispatchedAttempts(op)
    BY <1>1, NoteEffect, CountStill
  <2>2. \A op : Tries(op)' = Tries(op)
    BY <1>1, NoteEffect, TriesOf
  <2> QED
    BY <2>1, <2>2 DEF Counted
<1>2. ASSUME NEW e, Works(e), NEW o, o = at PROVE Counted'
  <2>1. /\ stream' = Append(stream, e) /\ UNCHANGED inputs /\ at' = at
        /\ o \in DOMAIN Operations /\ o \in Ops
        /\ \A op \in Ops : op # o => Entry(op)' = Entry(op)
        /\ Sends(e) \/ Settles(e) \/ Prepares(e)
    BY <1>2 DEF Works
  <2>2. \A op : op # o => Tries(op)' = Tries(op)
    <3>1. \A op \in DOMAIN Operations : op \in Ops
      BY BookTypes, ScriptTypes
    <3> QED
      BY <2>1, <3>1, TriesOf
  <2>3. Entry(o).attempt \in Nat /\ (Entry(o).status = "absent" => Entry(o).attempt = 0)
    BY <2>1, EntryTypes
  <2>4. o \in DOMAIN Operations'
    BY <2>1, FixedInputs
  <2>5. CASE Sends(e)
    <3>1. /\ e.type = "operation_dispatched" /\ e.op = o
          /\ Entry(o).status = "reserved" /\ Entry(o)'.status = "started"
          /\ Entry(o)'.attempt = Entry(o).attempt
      BY <1>2, <2>1, <2>5 DEF Sends
    <3>2. Tries(o) = Entry(o).attempt - 1 /\ Tries(o)' = Entry(o).attempt
      BY <2>1, <2>4, <3>1 DEF Tries
    <3>3. /\ Cardinality(DispatchedAttempts(o)') = Cardinality(DispatchedAttempts(o)) + 1
          /\ \A op : op # o => DispatchedAttempts(op)' = DispatchedAttempts(op)
      BY <2>1, <3>1, CountSent
    <3>4. Cardinality(DispatchedAttempts(o)') = Tries(o)'
      BY <2>3, <3>2, <3>3 DEF Counted
    <3> QED
      BY <2>2, <3>3, <3>4 DEF Counted
  <2>6. CASE Settles(e) \/ Prepares(e)
    <3>1. e.type # "operation_dispatched"
      BY <2>6 DEF Settles, Prepares
    <3>2. \A op : DispatchedAttempts(op)' = DispatchedAttempts(op)
      BY <2>1, <3>1, CountStill
    <3>3. \/ /\ Entry(o).status = "started" /\ Entry(o)'.attempt = Entry(o).attempt
             /\ Entry(o)'.status \in {"outcome_unknown", "succeeded", "failed_known", "started"}
          \/ /\ Entry(o).status = "absent" /\ Entry(o)'.attempt = 1
             /\ Entry(o)'.status \in {"reserved", "cancelled_before_dispatch"}
          \/ /\ Entry(o).status = "failed_known" /\ Entry(o)'.attempt = Entry(o).attempt + 1
             /\ Entry(o)'.status = "reserved"
      BY <1>2, <2>1, <2>6 DEF Settles, Prepares
    <3>4. Tries(o)' = Tries(o)
      BY <2>1, <2>3, <2>4, <3>3 DEF Tries
    <3>5. \A op : Tries(op)' = Tries(op)
      BY <2>2, <3>4
    <3> QED
      BY <3>2, <3>5 DEF Counted
  <2> QED
    BY <2>1, <2>5, <2>6
<1> QED
  BY <1>1, <1>2, StepKinds, WorksEffect

\* Nothing is dispatched at first.
LEMMA InitCounted == Init => Counted
<1> SUFFICES ASSUME Init, NEW op PROVE Cardinality(DispatchedAttempts(op)) = Tries(op)
  BY DEF Counted
<1>1. DispatchedAttempts(op) = {}
  BY DEF Init, DispatchedAttempts, EventsOf
<1>2. op \in DOMAIN Operations => op \in Ops
  BY InitType, BookTypes, ScriptTypes
<1>3. op \in DOMAIN Operations => Entry(op).status = "absent"
  BY <1>2 DEF Init, InitialView, Entry, Absent
<1> QED
  BY <1>1, <1>3, FS_EmptySet DEF Tries

---------------------------------------------------------------------------
(* The refinement *)

\* The phase of an attempt, from its record and where the process is.
Phase(status, point) ==
    IF status = "outcome_unknown" THEN "lost"
    ELSE IF status = "started"
         THEN IF point = "dispatched" THEN "authorised"
              ELSE IF point = "answered" THEN "called" ELSE "lost"
         ELSE "settled"
PhaseAt(o) == IF o <= Length THEN Phase(Entry(o).status, pc) ELSE "settled"

\* The abstract state, read off the frontier.
Promised(o) ==
    /\ Cardinality(SucceededOps) = o - 1
    /\ Cardinality(DispatchedAttempts(Frontier)) = Tries(o)
    /\ FrontierPhase = PhaseAt(o)

\* The refinement mapping is this reading.
LEMMA Mapping == TypeInv /\ InOrder /\ Counted => \A o : IsFrontier(o) => Promised(o)
<1> SUFFICES ASSUME TypeInv, InOrder, Counted, NEW o, IsFrontier(o) PROVE Promised(o)
  OBVIOUS
<1>1. /\ Frontier = o /\ Cardinality(SucceededOps) = o - 1 /\ o \in Nat /\ Length \in Nat
  BY FrontierFacts
<1>2. FrontierPhase = PhaseAt(o)
  <2>1. Entry(o).status = view.journal[Frontier].status
    BY <1>1 DEF Entry
  <2>2. Frontier > Len(Operations) <=> ~(o <= Length)
    BY <1>1 DEF Length
  <2> DEFINE f == Frontier
  <2> HIDE DEF f
  <2>3. FrontierPhase = IF ~(o <= Length) THEN "settled" ELSE
          CASE Entry(o).status = "outcome_unknown" -> "lost"
            [] Entry(o).status = "started" /\ pc = "dispatched" -> "authorised"
            [] Entry(o).status = "started" /\ pc = "answered" -> "called"
            [] Entry(o).status = "started" /\ pc \notin {"dispatched", "answered"} -> "lost"
            [] OTHER -> "settled"
    BY <2>1, <2>2 DEF FrontierPhase
  <2> QED
    BY <2>3 DEF PhaseAt, Phase
<1>3. Cardinality(DispatchedAttempts(Frontier)) = Tries(o)
  BY <1>1 DEF Counted
<1> QED
  BY <1>1, <1>2, <1>3 DEF Promised

\* And it is so after a step.
LEMMA MappingAfter == TypeInv' /\ InOrder' /\ Counted' => \A o : IsFrontier(o)' => Promised(o)'
<1>1. (TypeInv /\ InOrder /\ Counted => \A o : IsFrontier(o) => Promised(o))'
  BY Mapping, PTL
<1> QED
  BY <1>1

\* A step that writes about no attempt lets the abstract one be, unless it
\* makes the call, or a process dies that had an attempt in flight.
LEMMA NoteSimulates ==
    ASSUME TypeInv, BookInv, Counted, TypeInv', BookInv', Counted', Silent \/ Noting
    PROVE  DD!Next \/ UNCHANGED DD!vars
<1>1. PICK o : IsFrontier(o)
  BY FrontierExists
<1>2. UNCHANGED inputs /\ \A op : Entry(op)' = Entry(op)
  BY NoteEffect
<1>3. Operations' = Operations /\ Length' = Length
  BY <1>2, FixedInputs DEF Length
<1>4. IsFrontier(o)' /\ Tries(o)' = Tries(o)
  BY <1>1, <1>2, <1>3, TriesOf DEF IsFrontier
<1>5. Promised(o) /\ Promised(o)'
  BY <1>1, <1>4, Mapping, MappingAfter DEF BookInv, Books
<1>6. /\ Cardinality(SucceededOps)' = Cardinality(SucceededOps)
      /\ Cardinality(DispatchedAttempts(Frontier))' = Cardinality(DispatchedAttempts(Frontier))
      /\ FrontierPhase = PhaseAt(o) /\ FrontierPhase' = PhaseAt(o)'
      /\ Len(Operations)' = Len(Operations)
  BY <1>3, <1>4, <1>5 DEF Promised
<1>7. \/ pc' = pc
      \/ pc = "dispatched" /\ pc' = "answered"
      \/ pc' \notin {"dispatched", "answered"}
  BY DEF Silent, Noting, SkipSucceeded, GiveUp, TakeUpAttempt, RetryScheduledBefore, DispatchTooLate,
         DispatchRejected, CallExternal, LoopExhausted, FinishWithoutLifecycle, WriteCheckpoint,
         RequestCancel, Crash, CrashWhileAppending, StartRejected, PlanOperation, ReserveRetry, vars,
         process, Goto, Raise, MovedOn, Start, ApproveBrief, BeginResearch, FinishLifecycle, Complete,
         RetryUnscheduled, ScheduleRetry, Backoff, SettleUnknown, SettleSuccess, SettleFailure, Settling,
         RecoverReplan, ReplanAfterAnswer, DecideReplan
<1>8. PhaseAt(o)' = IF o <= Length THEN Phase(Entry(o).status, pc') ELSE "settled"
  BY <1>2, <1>3 DEF PhaseAt
<1>9. \/ PhaseAt(o)' = PhaseAt(o)
      \/ PhaseAt(o) = "authorised" /\ PhaseAt(o)' = "called"
      \/ PhaseAt(o) \in {"authorised", "called"} /\ PhaseAt(o)' = "lost"
  BY <1>7, <1>8 DEF PhaseAt, Phase
<1>10. CASE PhaseAt(o)' = PhaseAt(o)
  BY <1>6, <1>10 DEF DD!vars
<1>11. CASE PhaseAt(o) = "authorised" /\ PhaseAt(o)' = "called"
  BY <1>6, <1>11 DEF DD!Next, DD!Call
<1>12. CASE PhaseAt(o) \in {"authorised", "called"} /\ PhaseAt(o)' = "lost"
  BY <1>6, <1>12 DEF DD!Next, DD!Lose
<1> QED
  BY <1>9, <1>10, <1>11, <1>12

\* Writing that the attempt is dispatched authorises it; writing its outcome
\* settles it, or loses it; preparing the next one changes nothing yet.
LEMMA WorksSimulates ==
    ASSUME TypeInv, BookInv, Counted, TypeInv', BookInv', Counted', NEW e, Works(e), NEW o, o = at
    PROVE  DD!Next \/ UNCHANGED DD!vars
<1>1. /\ UNCHANGED inputs /\ at' = at /\ o \in DOMAIN Operations /\ o \in Ops
      /\ \A op \in Ops : op # o => Entry(op)' = Entry(op)
      /\ Sends(e) \/ Settles(e) \/ Prepares(e)
  BY DEF Works
<1>2. Running /\ Entry(o).status # "succeeded"
  BY <1>1 DEF Sends, Settles, Prepares, Running
<1>3. IsFrontier(o)
  BY <1>1, <1>2, InHand
<1>4. /\ o \in Nat /\ Length \in Nat /\ DOMAIN Operations = 1..Length /\ o <= Length
      /\ \A p \in DOMAIN Operations : p > o => Entry(p).status = "absent"
  BY <1>1, <1>3, FrontierFacts DEF BookInv, Books
<1>5. /\ Operations' = Operations /\ Length' = Length /\ Len(Operations)' = Len(Operations)
      /\ \A p \in 1..Length : p \in Ops
  BY <1>1, <1>4, FixedInputs, BookTypes, ScriptTypes DEF Length
<1>6. /\ Cardinality(SucceededOps) = o - 1 /\ Cardinality(DispatchedAttempts(Frontier)) = Tries(o)
      /\ FrontierPhase = Phase(Entry(o).status, pc)
  BY <1>3, <1>4, Mapping DEF BookInv, Books, Promised, PhaseAt
<1>7. Entry(o).attempt \in Nat /\ (Entry(o).status = "absent" => Entry(o).attempt = 0)
  BY <1>1, EntryTypes
<1>8. ASSUME Entry(o)'.status # "succeeded"
      PROVE  /\ Cardinality(SucceededOps)' = Cardinality(SucceededOps)
             /\ Cardinality(DispatchedAttempts(Frontier))' = Tries(o)'
             /\ FrontierPhase' = Phase(Entry(o)'.status, pc')
  <2>1. IsFrontier(o)'
    BY <1>1, <1>3, <1>4, <1>5, <1>8 DEF IsFrontier
  <2>2. Promised(o)'
    BY <2>1, MappingAfter DEF BookInv, Books
  <2> QED
    BY <1>4, <1>5, <1>6, <2>2 DEF Promised, PhaseAt
<1>9. CASE Sends(e)
  <2>1. /\ Entry(o).status = "reserved" /\ Entry(o)'.status = "started"
        /\ Entry(o)'.attempt = Entry(o).attempt /\ pc' = "dispatched"
    BY <1>1, <1>9 DEF Sends
  <2>2. Tries(o) = Entry(o).attempt - 1 /\ Tries(o)' = Entry(o).attempt
    BY <1>1, <1>5, <2>1 DEF Tries
  <2>3. Entry(o).attempt \in Attempts /\ MaxAttempts \in Nat
    BY <1>1, <2>1, EntryTypes, ConfigurationTypes, BookTypes
  <2>4. Tries(o) < MaxAttempts /\ Tries(o)' = Tries(o) + 1
    BY <1>7, <2>2, <2>3 DEF Attempts
  <2>5. FrontierPhase = "settled" /\ FrontierPhase' = "authorised"
    BY <1>6, <1>8, <2>1 DEF Phase
  <2>6. Cardinality(SucceededOps) < Len(Operations)
    BY <1>4, <1>6 DEF Length
  <2>7. DD!Authorise
    BY <1>5, <1>6, <1>8, <2>1, <2>4, <2>5, <2>6 DEF DD!Authorise
  <2> QED
    BY <2>7 DEF DD!Next
<1>10. CASE Settles(e)
  <2>1. /\ Entry(o).status = "started" /\ Entry(o)'.attempt = Entry(o).attempt /\ pc = "answered"
        /\ \/ Entry(o)'.status \in {"outcome_unknown", "succeeded", "failed_known"} /\ pc' = "settle"
           \/ Entry(o)'.status = "started" /\ pc' = "raised"
    BY <1>1, <1>10 DEF Settles
  <2>2. FrontierPhase = "called"
    BY <1>6, <2>1 DEF Phase
  <2>3. Entry(o)'.status # "succeeded" => Tries(o)' = Tries(o)
    BY <1>1, <1>5, <2>1 DEF Tries
  <2>4. CASE Entry(o)'.status \in {"outcome_unknown", "started"}
    <3>1. FrontierPhase' = "lost"
      BY <1>8, <2>1, <2>4 DEF Phase
    <3>2. DD!Lose
      BY <1>5, <1>6, <1>8, <2>2, <2>3, <2>4, <3>1 DEF DD!Lose
    <3> QED
      BY <3>2 DEF DD!Next
  <2>5. CASE Entry(o)'.status = "failed_known"
    <3>1. FrontierPhase' = "settled"
      BY <1>8, <2>5 DEF Phase
    <3>2. DD!Fail
      BY <1>5, <1>6, <1>8, <2>2, <2>3, <2>5, <3>1 DEF DD!Fail
    <3> QED
      BY <3>2 DEF DD!Next
  <2>6. CASE Entry(o)'.status = "succeeded"
    <3>1. o + 1 <= Length => Entry(o + 1)'.status = "absent"
      BY <1>1, <1>4, <1>5
    <3>2. IsFrontier(o + 1)'
      BY <1>1, <1>3, <1>4, <1>5, <2>6, <3>1 DEF IsFrontier
    <3>3. Promised(o + 1)'
      BY <3>2, MappingAfter DEF BookInv, Books
    <3>4. Tries(o + 1)' = 0 /\ PhaseAt(o + 1)' = "settled"
      <4>1. o + 1 \in DOMAIN Operations' => o + 1 <= Length
        BY <1>4, <1>5
      <4> QED
        BY <1>5, <3>1, <4>1 DEF Tries, PhaseAt, Phase
    <3>5. /\ Cardinality(SucceededOps)' = Cardinality(SucceededOps) + 1
          /\ Cardinality(DispatchedAttempts(Frontier))' = 0 /\ FrontierPhase' = "settled"
      BY <1>4, <1>6, <3>3, <3>4 DEF Promised
    <3>6. DD!Succeed
      BY <1>5, <2>2, <3>5 DEF DD!Succeed
    <3> QED
      BY <3>6 DEF DD!Next
  <2> QED
    BY <2>1, <2>4, <2>5, <2>6
<1>11. CASE Prepares(e)
  <2>1. \/ /\ Entry(o).status = "absent" /\ Entry(o)'.attempt = 1
           /\ Entry(o)'.status \in {"reserved", "cancelled_before_dispatch"}
        \/ /\ Entry(o).status = "failed_known" /\ Entry(o)'.attempt = Entry(o).attempt + 1
           /\ Entry(o)'.status = "reserved"
    BY <1>1, <1>11 DEF Prepares
  <2>2. Tries(o)' = Tries(o)
    BY <1>1, <1>5, <1>7, <2>1 DEF Tries
  <2>3. FrontierPhase = "settled" /\ FrontierPhase' = "settled"
    BY <1>6, <1>8, <2>1 DEF Phase
  <2> QED
    BY <1>5, <1>6, <1>8, <2>1, <2>2, <2>3 DEF DD!vars
<1> QED
  BY <1>1, <1>9, <1>10, <1>11

\* The initial state promises nothing yet.
LEMMA InitSimulates == Init => DD!Init
<1> SUFFICES ASSUME Init PROVE DD!Init
  OBVIOUS
<1>1. TypeInv /\ InOrder /\ Counted
  BY InitType, InitBooks, InitCounted DEF BookInv, Books
<1>2. Length \in Nat /\ DOMAIN Operations = 1..Length /\ \A p \in DOMAIN Operations : p \in Ops
  BY <1>1, BookTypes, ConfigurationTypes, ScriptTypes DEF Length
<1>3. \A p \in 1..Length : Entry(p).status = "absent"
  BY <1>2 DEF Init, InitialView, Entry, Absent
<1>4. IsFrontier(1)
  BY <1>2, <1>3 DEF IsFrontier
<1>5. Promised(1)
  BY <1>1, <1>4, Mapping
<1>6. Tries(1) = 0 /\ PhaseAt(1) = "settled"
  BY <1>2, <1>3 DEF Tries, PhaseAt, Phase
<1> QED
  BY <1>2, <1>5, <1>6 DEF Promised, DD!Init, Length

\* Every step is one of the abstract specification, or changes nothing of it.
LEMMA StepSimulates ==
    (TypeInv /\ BookInv /\ Counted) /\ (TypeInv /\ BookInv /\ Counted)' /\ [Next]_vars
       => [DD!Next]_(DD!vars)
<1> SUFFICES ASSUME TypeInv, BookInv, Counted, TypeInv', BookInv', Counted', [Next]_vars
             PROVE  DD!Next \/ UNCHANGED DD!vars
  OBVIOUS
<1>1. CASE Silent \/ Noting
  BY <1>1, NoteSimulates
<1>2. CASE \E e : Works(e)
  BY <1>2, WorksSimulates
<1> QED
  BY <1>1, <1>2, StepKinds, WorksEffect

\* DispatchProtocol for every instance: the harness implements the durable
\* dispatch of DurableDispatch. Whatever crashes and resumes, one attempt at a
\* time is authorised, in the order of the script, is called at most once, and
\* nothing is authorised after an outcome that was lost.
THEOREM ProtocolHolds == Spec => DispatchProtocol
<1>1. Init => (TypeInv /\ BookInv /\ Counted) /\ DD!Init
  BY InitType, InitBooks, InitCounted, InitSimulates
<1>2. (TypeInv /\ BookInv /\ Counted) /\ [Next]_vars => (TypeInv /\ BookInv /\ Counted)'
  BY StepTypeInv, StepBookInv, StepCounted
<1>3. (TypeInv /\ BookInv /\ Counted) /\ (TypeInv /\ BookInv /\ Counted)' /\ [Next]_vars
         => [DD!Next]_(DD!vars)
  BY StepSimulates
<1> QED
  BY <1>1, <1>2, <1>3, PTL DEF Spec, DispatchProtocol, DD!Spec

=============================================================================
