--------------------------- MODULE WorkflowProofs ---------------------------
(***************************************************************************)
(* Proofs about Workflow, for any plan and any number of runners, kills    *)
(* and failing calls.                                                      *)
(*                                                                         *)
(* The argument: what read() returns is a history that only grows, by one  *)
(* event that was decided on its whole (NextEvent).  While an attempt is   *)
(* under way, its start is the last event there is; every event a runner   *)
(* may add was decided on a history with no attempt under way, or is the   *)
(* receipt of the one it runs itself.  The lease is not needed for this:   *)
(* an operator may clear it while its owner lives.                         *)
(*                                                                         *)
(* Two parts that depend on the same hooks follow: the continuation of a   *)
(* workflow (Cn), and the dispatch of an event to its handlers (Hd).       *)
(***************************************************************************)
EXTENDS Workflow, FiniteSetTheorems, SequenceTheorems, WellFoundedInduction, TLAPS

CONSTANTS
    Hook, StopEvent, Fingerprint, MaxContinuations, Threshold,
    MaxStopEvents, MaxStopChanges,                              \* Continuation
    Dispatch, MaxRegister                                       \* HookDispatch

VARIABLES
    proj, routing, stopper, pastDeadline, grants, raced, stopEvents, stopChanges,
    handlers, dispatch, late, host, registered

Cn == INSTANCE Continuation WITH
    hook <- stopper, expired <- pastDeadline, calls <- stopEvents, changes <- stopChanges,
    Event <- StopEvent, MaxEvents <- MaxStopEvents, MaxChanges <- MaxStopChanges
Hd == INSTANCE HookDispatch

Parameters == StagesFit /\ NoneFits

-----------------------------------------------------------------------------
(* Histories.                                                              *)

\* No attempt is under way.
Quiet(es) == \A t \in Task: ~ InFlight(es, t)

\* An attempt of t is under way, and nothing else.
AttemptOn(es, t) ==
    /\ \A u \in Task: InFlight(es, u) <=> u = t
    /\ Pending(es) # {} /\ Current(es) = t

\* The runner may start an attempt.
Runnable(es) ==
    /\ Quiet(es) /\ Pending(es) # {}
    /\ \A t \in Task: TaskStatus(es, t) \notin {"blocked", "unsupported", "attempt_failed_terminal"}
    /\ DependenciesReady(es, Current(es))

\* What a runner may record after es: a mark, a start, or a receipt of the task it is at.
NextEvent(es, e) ==
    \/ e.kind \in {"run_started", "run_finished"}
    \/ Runnable(es) /\ e = Started(Current(es), NextAttempt(es))
    \/ Pending(es) # {} /\ e.kind = "task_receipt" /\ e.task = Current(es)

\* Every start in a history is of an attempt the plan allows, of a task whose dependencies
\* passed, and is followed by a receipt before the next.
StartFits(es, t, a) ==
    /\ t \in Task /\ a \in 1 .. Stages[t].max
    /\ \A u \in Stages[t].needs: TaskStatus(es, u) = "passed"
    /\ a <= Cardinality(ReceiptsOf(es, t)) + 1
    /\ ~ InFlight(es, t) => a <= Cardinality(ReceiptsOf(es, t))

StartsFit(es) ==
    \A i \in DOMAIN es: es[i].kind = "task_started" => StartFits(es, es[i].task, es[i].attempt)

-----------------------------------------------------------------------------
\* A set of natural numbers has a least one.
LEMMA LeastExists ==
    ASSUME NEW T, T \subseteq Nat, T # {}
    PROVE  \E m \in T : \A y \in T : m <= y
  <1> DEFINE R == {ss \in Nat \X Nat : ss[1] < ss[2]}
  <1>1. IsWellFoundedOn(R, Nat)
    BY NatLessThanWellFounded DEF OpToRel
  <1>2. \A y, m \in Nat : y < m => <<y, m>> \in R
    OBVIOUS
  <1> HIDE DEF R
  <1>3. PICK m \in T : \A y \in T : ~ (<<y, m>> \in R)
    BY <1>1, WFMin
  <1>4. ASSUME NEW y \in T PROVE m <= y
    <2>1. ~ (y < m)
      BY <1>2, <1>3, <1>4
    <2> QED  BY <2>1
  <1> QED  BY <1>4

\* A set of numbers up to n has a largest one.
LEMMA LargestExists ==
    ASSUME NEW n \in Nat, NEW S \in SUBSET (1 .. n), S # {}
    PROVE  /\ Max(S) \in S
           /\ \A y \in S : y <= Max(S)
  <1> DEFINE T == {n - x : x \in S}
  <1>1. \A x \in S : n - x \in Nat
    OBVIOUS
  <1>2. T \subseteq Nat /\ T # {}
    BY <1>1
  <1>3. PICK m \in T : \A y \in T : m <= y
    <2> HIDE DEF T
    <2> QED  BY <1>2, LeastExists
  <1>4. PICK x \in S : m = n - x
    OBVIOUS
  <1>5. \A y \in S : m <= n - y
    BY <1>3
  <1>6. \A y \in S : x >= y
    BY <1>4, <1>5
  <1> QED  BY <1>6 DEF Max

\* The receipts of a history.
LEMMA ReceiptsFinite ==
    ASSUME NEW es \in Seq(Event), NEW t
    PROVE  /\ ReceiptsOf(es, t) \in SUBSET (1 .. Len(es))
           /\ IsFiniteSet(ReceiptsOf(es, t))
           /\ Cardinality(ReceiptsOf(es, t)) \in Nat
  <1>1. ReceiptsOf(es, t) \in SUBSET (1 .. Len(es))
    BY DEF ReceiptsOf
  <1>2. IsFiniteSet(1 .. Len(es))
    BY FS_Interval
  <1> QED  BY <1>1, <1>2, FS_Subset, FS_CardinalityType

\* A receipt adds itself to those of its task, and to no others.
LEMMA ReceiptsAppend ==
    ASSUME NEW es \in Seq(Event), NEW e \in Event, NEW t
    PROVE  ReceiptsOf(Append(es, e), t) =
             IF e.kind = "task_receipt" /\ e.task = t THEN ReceiptsOf(es, t) \cup {Len(es) + 1}
             ELSE ReceiptsOf(es, t)
  BY DEF ReceiptsOf

\* A start puts its task in flight, a receipt takes it out.
LEMMA InFlightAppend ==
    ASSUME NEW es \in Seq(Event), NEW e \in Event, NEW t
    PROVE  InFlight(Append(es, e), t) <=>
             /\ ~ (e.kind = "task_receipt" /\ e.task = t)
             /\ (e.kind = "task_started" /\ e.task = t) \/ InFlight(es, t)
  <1> DEFINE es2 == Append(es, e)
  <1>1. /\ DOMAIN es2 = 1 .. Len(es) + 1 /\ Len(es2) = Len(es) + 1 /\ es2[Len(es) + 1] = e
        /\ \A i \in 1 .. Len(es) : es2[i] = es[i]
        /\ DOMAIN es = 1 .. Len(es) /\ Len(es) \in Nat
    OBVIOUS
  <1> HIDE DEF es2
  <1>2. CASE e.kind = "task_receipt" /\ e.task = t
    BY <1>1, <1>2 DEF InFlight
  <1>3. CASE e.kind = "task_started" /\ e.task = t
    BY <1>1, <1>3 DEF InFlight
  <1>4. CASE ~ (e.kind = "task_receipt" /\ e.task = t) /\ ~ (e.kind = "task_started" /\ e.task = t)
    BY <1>1, <1>4 DEF InFlight
  <1> QED  BY <1>2, <1>3, <1>4 DEF es2

\* The status of a task is what its starts and receipts make it.
LEMMA StatusAppend ==
    ASSUME NEW es \in Seq(Event), NEW e \in Event, NEW t,
           ~ (e.kind \in {"task_started", "task_receipt"} /\ e.task = t)
    PROVE  TaskStatus(Append(es, e), t) = TaskStatus(es, t)
  <1>1. ReceiptsOf(Append(es, e), t) = ReceiptsOf(es, t)
    BY ReceiptsAppend
  <1>2. InFlight(Append(es, e), t) <=> InFlight(es, t)
    BY InFlightAppend
  <1>3. CASE ReceiptsOf(es, t) = {}
    BY <1>1, <1>2, <1>3 DEF TaskStatus
  <1>4. CASE ReceiptsOf(es, t) # {}
    <2>1. Max(ReceiptsOf(es, t)) \in 1 .. Len(es)
      BY <1>4, ReceiptsFinite, LargestExists
    <2>2. Append(es, e)[Max(ReceiptsOf(es, t))] = es[Max(ReceiptsOf(es, t))]
      BY <2>1
    <2> QED  BY <1>1, <1>2, <1>4, <2>2 DEF TaskStatus
  <1> QED  BY <1>3, <1>4

-----------------------------------------------------------------------------
(* What an event does to the history it is added to.                       *)

\* The number of receipts of a task.
LEMMA ReceiptsCount ==
    ASSUME NEW es \in Seq(Event), NEW e \in Event, NEW t
    PROVE  Cardinality(ReceiptsOf(Append(es, e), t)) =
             IF e.kind = "task_receipt" /\ e.task = t THEN Cardinality(ReceiptsOf(es, t)) + 1
             ELSE Cardinality(ReceiptsOf(es, t))
  <1>1. Len(es) + 1 \notin ReceiptsOf(es, t)
    BY DEF ReceiptsOf
  <1>2. Cardinality(ReceiptsOf(es, t) \cup {Len(es) + 1}) = Cardinality(ReceiptsOf(es, t)) + 1
    BY <1>1, ReceiptsFinite, FS_AddElement
  <1> QED  BY <1>2, ReceiptsAppend

\* The task the runner is at is the first that has not passed.
LEMMA CurrentIsPending ==
    ASSUME StagesFit, NEW es, Pending(es) # {}
    PROVE  Current(es) \in Pending(es) /\ Current(es) \in Task /\ TaskStatus(es, Current(es)) # "passed"
  <1>1. Pending(es) \subseteq Nat
    BY DEF StagesFit, Pending
  <1>2. PICK t \in Pending(es) : \A u \in Pending(es) : t <= u
    BY <1>1, LeastExists
  <1>3. Current(es) \in Pending(es)
    BY <1>2 DEF Current
  <1> QED  BY <1>3 DEF Pending

\* An attempt that may be started is one the plan allows.
LEMMA NextAttemptFits ==
    ASSUME StagesFit, NEW es \in Seq(Event), Runnable(es)
    PROVE  NextAttempt(es) \in 1 .. Stages[Current(es)].max
  <1> DEFINE t == Current(es)
             receipts == ReceiptsOf(es, t)
             last == es[Max(receipts)].status
  <1>1. t \in Task /\ TaskStatus(es, t) \notin {"passed", "blocked", "unsupported", "attempt_failed_terminal"}
    BY CurrentIsPending DEF Runnable
  <1>2. ~ InFlight(es, t) /\ Stages[t].max \in Attempt
    BY <1>1 DEF Runnable, Quiet, StagesFit
  <1>3. Cardinality(receipts) \in Nat /\ receipts \in SUBSET (1 .. Len(es))
    BY ReceiptsFinite
  <1>4. CASE receipts = {}
    BY <1>2, <1>4, FS_EmptySet DEF NextAttempt, Attempt
  <1>5. CASE receipts # {}
    <2>1. Max(receipts) \in receipts
      <3>1. Len(es) \in Nat
        OBVIOUS
      <3> HIDE DEF receipts
      <3> QED  BY <1>3, <1>5, <3>1, LargestExists
    <2>2. es[Max(receipts)] \in Event /\ es[Max(receipts)].kind = "task_receipt"
      BY <2>1 DEF ReceiptsOf
    <2>3. last \in Outcome
      BY <2>2 DEF Event
    <2>4. last = "failed" /\ ~ (Cardinality(receipts) >= Stages[t].max)
      <3> HIDE DEF t
      <3> QED  BY <1>1, <1>2, <1>5, <2>3 DEF TaskStatus, Outcome
    <2> QED  BY <1>2, <1>3, <2>4 DEF NextAttempt, Attempt
  <1> QED  BY <1>4, <1>5

\* What has passed stays so: no event is about a task that has.
LEMMA PassedStays ==
    ASSUME StagesFit, NEW es \in Seq(Event), NEW e \in Event, NextEvent(es, e),
           NEW u, TaskStatus(es, u) = "passed"
    PROVE  TaskStatus(Append(es, e), u) = "passed"
  <1>1. e.kind \in {"task_started", "task_receipt"} => e.task # u
    <2>1. CASE e.kind \in {"run_started", "run_finished"}
      BY <2>1
    <2>2. CASE Runnable(es) /\ e = Started(Current(es), NextAttempt(es))
      BY <2>2, CurrentIsPending DEF Runnable, Started
    <2>3. CASE Pending(es) # {} /\ e.kind = "task_receipt" /\ e.task = Current(es)
      BY <2>3, CurrentIsPending
    <2> QED  BY <2>1, <2>2, <2>3 DEF NextEvent
  <1> QED  BY <1>1, StatusAppend

\* A history stays one.
LEMMA StartsFitAppend ==
    ASSUME StagesFit, NEW es \in Seq(Event), NEW e \in Event, StartsFit(es), NextEvent(es, e)
    PROVE  StartsFit(Append(es, e))
  <1> DEFINE es2 == Append(es, e)
  <1>1. ASSUME NEW t, NEW a, StartFits(es, t, a)
        PROVE  StartFits(es2, t, a)
    <2>1. \A u \in Stages[t].needs : TaskStatus(es2, u) = "passed"
      BY <1>1, PassedStays DEF StartFits
    <2>2. Cardinality(ReceiptsOf(es, t)) \in Nat /\ a \in 1 .. Stages[t].max /\ Stages[t].max \in Nat
      <3>1. t \in Task /\ a \in 1 .. Stages[t].max
        BY <1>1 DEF StartFits
      <3>2. Stages[t].max \in Nat
        BY <3>1 DEF StagesFit, Attempt
      <3>3. Cardinality(ReceiptsOf(es, t)) \in Nat
        BY ReceiptsFinite
      <3> QED  BY <3>1, <3>2, <3>3
    <2>3. /\ a <= Cardinality(ReceiptsOf(es2, t)) + 1
          /\ ~ InFlight(es2, t) => a <= Cardinality(ReceiptsOf(es2, t))
      <3> HIDE DEF es2
      <3>1. CASE e.kind = "task_receipt" /\ e.task = t
        BY <1>1, <2>2, <3>1, ReceiptsCount DEF StartFits, es2
      <3>2. CASE ~ (e.kind = "task_receipt" /\ e.task = t)
        BY <1>1, <2>2, <3>2, ReceiptsCount, InFlightAppend DEF StartFits, es2
      <3> QED  BY <3>1, <3>2
    <2> QED  BY <1>1, <2>1, <2>3 DEF StartFits
  <1>2. ASSUME e.kind = "task_started"
        PROVE  StartFits(es2, e.task, e.attempt)
    <2>1. Runnable(es) /\ e = Started(Current(es), NextAttempt(es))
      BY <1>2 DEF NextEvent
    <2>2. e.task = Current(es) /\ e.attempt = NextAttempt(es) /\ Current(es) \in Task
      BY <2>1, CurrentIsPending DEF Started, Runnable
    <2>3. \A u \in Stages[e.task].needs : TaskStatus(es2, u) = "passed"
      BY <2>1, <2>2, PassedStays DEF Runnable, DependenciesReady
    <2>4. e.attempt \in 1 .. Stages[e.task].max
      BY <2>1, <2>2, NextAttemptFits
    <2>5. InFlight(es2, e.task)
      BY <1>2, InFlightAppend
    <2>6. e.attempt <= Cardinality(ReceiptsOf(es2, e.task)) + 1
      <3>1. Cardinality(ReceiptsOf(es2, e.task)) = Cardinality(ReceiptsOf(es, e.task))
        BY <1>2, ReceiptsCount
      <3>2. Cardinality(ReceiptsOf(es, e.task)) \in Nat
        BY ReceiptsFinite
      <3>3. e.attempt = Cardinality(ReceiptsOf(es, e.task)) + 1
        BY <2>2 DEF NextAttempt
      <3> QED  BY <3>1, <3>2, <3>3
    <2> HIDE DEF es2
    <2> QED  BY <2>2, <2>3, <2>4, <2>5, <2>6 DEF StartFits
  <1>3. /\ DOMAIN es2 = 1 .. Len(es) + 1 /\ es2[Len(es) + 1] = e
        /\ \A i \in 1 .. Len(es) : es2[i] = es[i]
        /\ DOMAIN es = 1 .. Len(es) /\ Len(es) \in Nat
    OBVIOUS
  <1> HIDE DEF es2
  <1>4. ASSUME NEW i \in DOMAIN es2, es2[i].kind = "task_started"
        PROVE  StartFits(es2, es2[i].task, es2[i].attempt)
    <2>1. CASE i = Len(es) + 1
      BY <1>2, <1>3, <1>4, <2>1
    <2>2. CASE i \in DOMAIN es /\ es2[i] = es[i]
      BY <1>1, <1>4, <2>2 DEF StartsFit
    <2> QED  BY <1>3, <1>4, <2>1, <2>2
  <1>5. StartsFit(es2)
    BY <1>4 DEF StartsFit
  <1> QED  BY <1>5 DEF es2

\* Nothing but a start puts a task in flight.
LEMMA QuietAppend ==
    ASSUME NEW es \in Seq(Event), NEW e \in Event, Quiet(es), e.kind # "task_started"
    PROVE  Quiet(Append(es, e))
  BY InFlightAppend DEF Quiet

\* A start on a quiet history is the attempt under way.
LEMMA AttemptAppend ==
    ASSUME StagesFit, NEW es \in Seq(Event), NEW e \in Event, Runnable(es),
           e = Started(Current(es), NextAttempt(es))
    PROVE  AttemptOn(Append(es, e), e.task)
  <1> DEFINE es2 == Append(es, e)
  <1>1. e.kind = "task_started" /\ e.task = Current(es) /\ Current(es) \in Task
    BY CurrentIsPending DEF Started, Runnable
  <1>2. \A u \in Task : InFlight(es2, u) <=> u = e.task
    BY <1>1, InFlightAppend DEF Runnable, Quiet
  <1>3. \A u \in Task : TaskStatus(es2, u) = "passed" <=> TaskStatus(es, u) = "passed"
    <2> SUFFICES ASSUME NEW u \in Task
                 PROVE  TaskStatus(es2, u) = "passed" <=> TaskStatus(es, u) = "passed"
      OBVIOUS
    <2>1. CASE u # e.task
      BY <2>1, StatusAppend
    <2>2. CASE u = e.task
      <3>1. InFlight(es2, u)
        BY <1>2, <2>2
      <3>2. TaskStatus(es2, u) = "attempt_ambiguous"
        BY <3>1 DEF TaskStatus
      <3> QED  BY <1>1, <2>2, <3>2, CurrentIsPending DEF Runnable
    <2> QED  BY <2>1, <2>2
  <1>4. Pending(es2) = Pending(es)
    BY <1>3 DEF Pending
  <1> QED  BY <1>1, <1>2, <1>4 DEF AttemptOn, Current, Runnable

\* The receipt of the attempt under way ends it.
LEMMA ReceiptEnds ==
    ASSUME NEW es \in Seq(Event), NEW e \in Event, NEW t, AttemptOn(es, t),
           e.kind = "task_receipt", e.task = t
    PROVE  Quiet(Append(es, e))
  BY InFlightAppend DEF Quiet, AttemptOn

\* An attempt that may be started was not started before.
LEMMA AttemptIsNew ==
    ASSUME StagesFit, NEW es \in Seq(Event), StartsFit(es), Runnable(es),
           NEW i \in DOMAIN es
    PROVE  es[i] # Started(Current(es), NextAttempt(es))
  <1> SUFFICES ASSUME es[i] = Started(Current(es), NextAttempt(es)) PROVE FALSE
    OBVIOUS
  <1>1. StartFits(es, Current(es), NextAttempt(es))
    BY DEF StartsFit, Started
  <1>2. ~ InFlight(es, Current(es)) /\ Cardinality(ReceiptsOf(es, Current(es))) \in Nat
    BY CurrentIsPending, ReceiptsFinite DEF Runnable, Quiet
  <1> QED  BY <1>1, <1>2 DEF StartFits, NextAttempt

-----------------------------------------------------------------------------
(* What read() makes of a record and a journal.                            *)

\* The events of an old record are all in the journal.
CarriedOver(r, log) == Len(log) >= Len(r.legacy)

\* What is in the journal of an old record is what was carried over, in order.
Carried(r, log) ==
    /\ r.legacy # <<>> => r.revision > Len(r.legacy)
    /\ \A i \in DOMAIN r.legacy: i <= Len(log) => log[i] = [event |-> r.legacy[i], revision |-> i + 1]

\* What is read is a history with a revision.
LEMMA ReadTypes ==
    ASSUME NEW r \in Record, NEW log \in Seq(Entry)
    PROVE  /\ ReadEvents(r, log) \in Seq(Event)
           /\ ReadRevision(r, log) \in Nat /\ ReadRevision(r, log) >= r.revision
           /\ CarriedOver(r, log) /\ Len(log) > 0 => ReadRevision(r, log) >= log[Len(log)].revision
  <1>1. \A i \in DOMAIN log : log[i] \in Entry
    OBVIOUS
  <1>2. ReadEvents(r, log) \in Seq(Event)
    <2>1. CASE FromJournal(r, log)
      <3>1. [i \in DOMAIN log |-> log[i].event] \in Seq(Event)
        BY <1>1 DEF Entry
      <3> QED  BY <2>1, <3>1 DEF ReadEvents
    <2>2. CASE ~ FromJournal(r, log)
      BY <2>2 DEF ReadEvents, Record
    <2> QED  BY <2>1, <2>2
  <1>3. Len(log) > 0 => log[Len(log)].revision \in Nat
    BY <1>1 DEF Entry
  <1> QED  BY <1>2, <1>3 DEF ReadRevision, FromJournal, Last, CarriedOver, Record

\* A line added to a journal that holds everything is an event more.
LEMMA ReadAppended ==
    ASSUME NEW r \in Record, NEW log \in Seq(Entry), NEW x \in Entry, CarriedOver(r, log)
    PROVE  /\ ReadEvents(r, Append(log, x)) = Append(ReadEvents(r, log), x.event)
           /\ x.revision > r.revision => ReadRevision(r, Append(log, x)) = x.revision
  <1> DEFINE log2 == Append(log, x)
  <1>1. /\ log2 \in Seq(Entry) /\ Len(log2) = Len(log) + 1 /\ DOMAIN log2 = 1 .. Len(log) + 1
        /\ log2[Len(log) + 1] = x /\ \A i \in 1 .. Len(log) : log2[i] = log[i]
        /\ Len(log) \in Nat /\ DOMAIN log = 1 .. Len(log) /\ Len(r.legacy) \in Nat
    BY DEF Record
  <1> HIDE DEF log2
  <1>2. FromJournal(r, log2)
    BY <1>1 DEF FromJournal, CarriedOver
  <1>3. ReadEvents(r, log2) = [i \in 1 .. Len(log) + 1 |-> log2[i].event]
    BY <1>1, <1>2 DEF ReadEvents
  <1>4. ReadEvents(r, log) \in Seq(Event)
    BY ReadTypes
  <1>5. ReadEvents(r, log) = [i \in 1 .. Len(log) |-> log[i].event]
    <2>1. CASE FromJournal(r, log)
      BY <1>1, <2>1 DEF ReadEvents
    <2>2. CASE ~ FromJournal(r, log)
      <3>1. Len(log) = 0 /\ r.legacy = <<>>
        BY <1>1, <2>2 DEF FromJournal, CarriedOver, Record
      <3> QED  BY <2>2, <3>1 DEF ReadEvents
    <2> QED  BY <2>1, <2>2
  <1>6. ReadEvents(r, log2) = Append(ReadEvents(r, log), x.event)
    BY <1>1, <1>3, <1>4, <1>5
  <1>7. x.revision > r.revision => ReadRevision(r, log2) = x.revision
    BY <1>1, <1>2 DEF ReadRevision, Last
  <1> QED  BY <1>6, <1>7 DEF log2

\* Carrying an event over changes nothing of what is read.
LEMMA ReadMigrated ==
    ASSUME NEW r \in Record, NEW log \in Seq(Entry), Carried(r, log), Len(log) < Len(r.legacy),
           NEW x, x = [event |-> r.legacy[Len(log) + 1], revision |-> Len(log) + 2]
    PROVE  /\ x \in Entry
           /\ Carried(r, Append(log, x))
           /\ ReadEvents(r, Append(log, x)) = ReadEvents(r, log)
           /\ ReadRevision(r, Append(log, x)) = ReadRevision(r, log)
  <1> DEFINE log2 == Append(log, x)
  <1>1. /\ r.legacy \in Seq(Event) /\ Len(r.legacy) \in Nat /\ Len(log) \in Nat /\ r.legacy # <<>>
        /\ DOMAIN r.legacy = 1 .. Len(r.legacy) /\ r.revision \in Nat
    BY DEF Record
  <1>2. x \in Entry
    BY <1>1 DEF Entry
  <1>3. /\ log2 \in Seq(Entry) /\ Len(log2) = Len(log) + 1 /\ DOMAIN log2 = 1 .. Len(log) + 1
        /\ log2[Len(log) + 1] = x /\ \A i \in 1 .. Len(log) : log2[i] = log[i]
    BY <1>2
  <1> HIDE DEF log2
  <1>4. Carried(r, log2)
    <2>1. ASSUME NEW i \in DOMAIN r.legacy, i <= Len(log2)
          PROVE  log2[i] = [event |-> r.legacy[i], revision |-> i + 1]
      <3>1. CASE i <= Len(log)
        <4>1. log[i] = [event |-> r.legacy[i], revision |-> i + 1]
          BY <2>1, <3>1 DEF Carried
        <4>2. i \in 1 .. Len(log)
          BY <1>1, <3>1
        <4> QED  BY <1>3, <4>1, <4>2
      <3>2. CASE i = Len(log) + 1
        BY <1>1, <1>3, <3>2
      <3> QED  BY <1>1, <1>3, <2>1, <3>1, <3>2
    <2> QED  BY <2>1 DEF Carried
  <1>5. ~ FromJournal(r, log)
    BY <1>1 DEF FromJournal
  <1>6. ReadEvents(r, log) = r.legacy /\ ReadRevision(r, log) = r.revision
    BY <1>5 DEF ReadEvents, ReadRevision
  <1>7. ASSUME Len(log2) < Len(r.legacy)
        PROVE  ReadEvents(r, log2) = r.legacy /\ ReadRevision(r, log2) = r.revision
    <2>1. ~ FromJournal(r, log2)
      BY <1>1, <1>3, <1>7 DEF FromJournal
    <2> QED  BY <2>1 DEF ReadEvents, ReadRevision
  <1>8. ASSUME Len(log2) = Len(r.legacy)
        PROVE  ReadEvents(r, log2) = r.legacy /\ ReadRevision(r, log2) = r.revision
    <2>1. FromJournal(r, log2)
      BY <1>1, <1>3, <1>8 DEF FromJournal
    <2>2. \A i \in DOMAIN r.legacy : log2[i] = [event |-> r.legacy[i], revision |-> i + 1]
      BY <1>1, <1>4, <1>8 DEF Carried
    <2>3. ReadEvents(r, log2) = [i \in DOMAIN log2 |-> log2[i].event]
      BY <2>1 DEF ReadEvents
    <2>4. DOMAIN log2 = DOMAIN r.legacy
      BY <1>1, <1>3, <1>8
    <2>5. ReadEvents(r, log2) = r.legacy
      <3>1. ASSUME NEW i \in 1 .. Len(r.legacy) PROVE ReadEvents(r, log2)[i] = r.legacy[i]
        <4>1. i \in DOMAIN log2
          BY <1>1, <2>4
        <4>2. ReadEvents(r, log2)[i] = log2[i].event
          BY <2>3, <4>1
        <4>3. log2[i] = [event |-> r.legacy[i], revision |-> i + 1]
          BY <1>1, <2>2
        <4> QED  BY <4>2, <4>3
      <3>2. ReadEvents(r, log2) \in Seq(Event) /\ DOMAIN ReadEvents(r, log2) = 1 .. Len(r.legacy)
        BY <1>1, <1>3, <2>3, <2>4, ReadTypes
      <3>3. Len(ReadEvents(r, log2)) = Len(r.legacy)
        BY <1>1, <3>2
      <3> QED  BY <1>1, <3>1, <3>2, <3>3, SeqEqual
    <2>6. Last(log2).revision = Len(r.legacy) + 1 /\ r.revision > Len(r.legacy)
      BY <1>1, <1>3, <1>8, <2>2 DEF Last, Carried
    <2>7. ReadRevision(r, log2) = r.revision
      BY <1>1, <2>6 DEF ReadRevision
    <2> QED  BY <2>5, <2>7
  <1>9. Len(log2) < Len(r.legacy) \/ Len(log2) = Len(r.legacy)
    BY <1>1, <1>3
  <1> QED  BY <1>2, <1>4, <1>6, <1>7, <1>8, <1>9 DEF log2

\* A new record changes the revision and none of the events.
LEMMA ReadRewritten ==
    ASSUME NEW r \in Record, NEW log \in Seq(Entry), CarriedOver(r, log),
           NEW r2 \in Record, r2.legacy = <<>>
    PROVE  /\ ReadEvents(r2, log) = ReadEvents(r, log)
           /\ r2.revision >= ReadRevision(r, log) => ReadRevision(r2, log) = r2.revision
  <1>1. r.legacy \in Seq(Event) /\ Len(r.legacy) \in Nat /\ Len(log) \in Nat /\ r2.revision \in Nat
        /\ (r.legacy = <<>> <=> Len(r.legacy) = 0)
    BY DEF Record
  <1>2. FromJournal(r2, log) <=> Len(log) > 0
    BY DEF FromJournal
  <1>3. CASE Len(log) > 0
    <2>1. FromJournal(r, log)
      BY <1>1, <1>3 DEF FromJournal, CarriedOver
    <2>2. log[Len(log)] \in Entry
      BY <1>1, <1>3
    <2>3. log[Len(log)].revision \in Nat /\ ReadRevision(r, log) \in Nat
      BY <2>2, ReadTypes DEF Entry
    <2>4. ReadRevision(r, log) >= log[Len(log)].revision
      BY <1>3, ReadTypes
    <2>5. ReadEvents(r2, log) = ReadEvents(r, log)
      BY <1>2, <1>3, <2>1 DEF ReadEvents
    <2> QED  BY <1>1, <1>2, <1>3, <2>3, <2>4, <2>5 DEF ReadRevision, Last
  <1>4. CASE Len(log) = 0
    BY <1>1, <1>2, <1>4 DEF FromJournal, ReadEvents, ReadRevision, CarriedOver
  <1> QED  BY <1>1, <1>3, <1>4

\* The operator carries over at once what is left of an old record.
Rest(r, log) ==
    [i \in 1 .. Len(r.legacy) - Len(log) |->
        [event |-> r.legacy[Len(log) + i], revision |-> Len(log) + i + 1]]

LEMMA ReadCompleted ==
    ASSUME NEW r \in Record, NEW log \in Seq(Entry), Carried(r, log)
    PROVE  /\ log \o Rest(r, log) \in Seq(Entry)
           /\ CarriedOver(r, log \o Rest(r, log))
           /\ ReadEvents(r, log \o Rest(r, log)) = ReadEvents(r, log)
           /\ ReadRevision(r, log \o Rest(r, log)) = ReadRevision(r, log)
  <1>1. /\ r.legacy \in Seq(Event) /\ Len(r.legacy) \in Nat /\ Len(log) \in Nat
        /\ DOMAIN r.legacy = 1 .. Len(r.legacy) /\ r.revision \in Nat
        /\ (r.legacy = <<>> <=> Len(r.legacy) = 0)
    BY DEF Record
  <1>2. CASE Len(log) >= Len(r.legacy)
    <2>1. 1 .. Len(r.legacy) - Len(log) = {}
      BY <1>1, <1>2
    <2>2. Rest(r, log) = <<>>
      <3>1. Rest(r, log) = [i \in {} |-> [event |-> r.legacy[Len(log) + i], revision |-> Len(log) + i + 1]]
        BY <2>1, Zenon DEF Rest
      <3> QED  BY <3>1
    <2>3. log \o Rest(r, log) = log
      BY <2>2, ConcatEmptySeq
    <2> QED  BY <1>2, <2>3 DEF CarriedOver
  <1>3. CASE Len(log) < Len(r.legacy)
    <2> DEFINE n == Len(r.legacy) - Len(log)
               rest == Rest(r, log)
               log2 == log \o rest
    <2>1. n \in Nat /\ n > 0 /\ Len(log) + n = Len(r.legacy)
      BY <1>1, <1>3
    <2>2. \A i \in 1 .. n : /\ rest[i] = [event |-> r.legacy[Len(log) + i], revision |-> Len(log) + i + 1]
                            /\ rest[i] \in Entry
      <3>1. \A i \in 1 .. n : Len(log) + i \in DOMAIN r.legacy
        BY <1>1, <2>1
      <3>2. \A i \in 1 .. n : r.legacy[Len(log) + i] \in Event
        BY <1>1, <3>1
      <3> QED  BY <1>1, <3>2 DEF Entry, Rest
    <2>3. rest = [i \in 1 .. n |-> rest[i]]
      BY DEF Rest
    <2> HIDE DEF n, rest
    <2>4. rest \in Seq(Entry) /\ Len(rest) = n
      <3>1. \A i \in 1 .. n : rest[i] \in Entry
        BY <2>2
      <3>2. rest \in Seq(Entry)
        BY <2>1, <2>3, <3>1, IsASeq
      <3>3. DOMAIN rest = 1 .. n
        BY <2>3
      <3> QED  BY <2>1, <3>2, <3>3, LenProperties
    <2>5. /\ log2 \in Seq(Entry) /\ Len(log2) = Len(r.legacy)
          /\ \A i \in 1 .. Len(log) : log2[i] = log[i]
          /\ \A i \in 1 .. n : log2[Len(log) + i] = rest[i]
      <3>1. log2 \in Seq(Entry) /\ Len(log2) = Len(log) + n
        BY <2>4, ConcatProperties
      <3>2. \A i \in 1 .. Len(log) + n :
               log2[i] = IF i <= Len(log) THEN log[i] ELSE rest[i - Len(log)]
        BY <2>4, ConcatProperties
      <3>3. \A i \in 1 .. Len(log) : i \in 1 .. Len(log) + n /\ i <= Len(log)
        BY <1>1, <2>1
      <3>4. \A i \in 1 .. n : /\ Len(log) + i \in 1 .. Len(log) + n /\ ~ (Len(log) + i <= Len(log))
                             /\ Len(log) + i - Len(log) = i
        BY <1>1, <2>1
      <3> HIDE DEF log2
      <3> QED  BY <2>1, <3>1, <3>2, <3>3, <3>4
    <2> HIDE DEF log2
    <2>6. \A i \in DOMAIN r.legacy : log2[i] = [event |-> r.legacy[i], revision |-> i + 1]
      <3> SUFFICES ASSUME NEW i \in 1 .. Len(r.legacy)
                   PROVE  log2[i] = [event |-> r.legacy[i], revision |-> i + 1]
        BY <1>1
      <3>1. CASE i \in 1 .. Len(log)
        BY <1>1, <2>5, <3>1 DEF Carried
      <3>2. CASE i > Len(log)
        <4>1. i - Len(log) \in 1 .. n /\ Len(log) + (i - Len(log)) = i
          BY <1>1, <2>1, <3>2 DEF n
        <4>2. log2[i] = rest[i - Len(log)]
          BY <2>5, <4>1
        <4>3. rest[i - Len(log)] = [event |-> r.legacy[i], revision |-> i + 1]
          BY <2>2, <4>1
        <4> QED  BY <4>2, <4>3
      <3> QED  BY <1>1, <3>1, <3>2
    <2>7. r.legacy # <<>> /\ ~ FromJournal(r, log)
      BY <1>1, <1>3 DEF FromJournal
    <2>8. FromJournal(r, log2) /\ DOMAIN log2 = DOMAIN r.legacy
      BY <1>1, <1>3, <2>5 DEF FromJournal
    <2>9. ReadEvents(r, log2) = [i \in DOMAIN log2 |-> log2[i].event]
      BY <2>8 DEF ReadEvents
    <2>10. ReadEvents(r, log2) = r.legacy
      <3>1. ASSUME NEW i \in 1 .. Len(r.legacy) PROVE ReadEvents(r, log2)[i] = r.legacy[i]
        <4>1. i \in DOMAIN log2
          BY <1>1, <2>8
        <4>2. ReadEvents(r, log2)[i] = log2[i].event
          BY <2>9, <4>1
        <4>3. log2[i] = [event |-> r.legacy[i], revision |-> i + 1]
          BY <1>1, <2>6
        <4> QED  BY <4>2, <4>3
      <3>2. ReadEvents(r, log2) \in Seq(Event) /\ DOMAIN ReadEvents(r, log2) = 1 .. Len(r.legacy)
        BY <1>1, <2>5, <2>8, <2>9, ReadTypes
      <3>3. Len(ReadEvents(r, log2)) = Len(r.legacy)
        BY <1>1, <3>2
      <3> QED  BY <1>1, <3>1, <3>2, <3>3, SeqEqual
    <2>11. Last(log2).revision = Len(r.legacy) + 1 /\ r.revision > Len(r.legacy)
      <3>1. Len(r.legacy) \in DOMAIN r.legacy
        BY <1>1, <2>7
      <3>2. log2[Len(r.legacy)] = [event |-> r.legacy[Len(r.legacy)], revision |-> Len(r.legacy) + 1]
        BY <2>6, <3>1
      <3> QED  BY <2>5, <2>7, <3>2 DEF Last, Carried
    <2>12. ReadRevision(r, log2) = r.revision
      BY <1>1, <2>11 DEF ReadRevision
    <2>13. CarriedOver(r, log2) /\ log2 \in Seq(Entry)
      BY <1>1, <2>5 DEF CarriedOver
    <2>14. ReadEvents(r, log) = r.legacy /\ ReadRevision(r, log) = r.revision
      BY <2>7 DEF ReadEvents, ReadRevision
    <2> QED  BY <2>10, <2>12, <2>13, <2>14 DEF log2, rest
  <1> QED  BY <1>1, <1>2, <1>3

-----------------------------------------------------------------------------
(* The inductive invariant.                                                *)

Committing(p) == pc[p] \in {"migrate", "append", "write"}

TypeInv ==
    /\ record \in Record
    /\ events \in Seq(Entry)
    /\ storeLock \in Runner \cup {None}
    /\ staged \in Staged \cup {None}
    /\ pc \in [Runner -> Recording \cup Leasing
                  \cup {"idle", "read", "begin", "next", "invoke", "migrate", "append", "write", "done", "dead"}]
    /\ seen \in [Runner -> Seq(Event)]
    /\ invoked \in [Task -> [Attempt -> Nat]]

\* Whoever has the lock is at its write, which is staged.
LockInv ==
    /\ staged = None <=> storeLock = None
    /\ \A p \in Runner: Committing(p) <=> storeLock = p

\* The staged event is in the journal and not yet in the record.
Recorded == pc[storeLock] = "write" /\ staged.next = "append"

\* What is staged is the next event, or a change of the lease, on what read() returns.
StagedFits ==
    staged # None =>
        /\ pc[storeLock] # "migrate" => CarriedOver(record, events)
        /\ pc[storeLock] = "append" => staged.next = "append"
        /\ staged.next = "append" <=> staged.from \in Recording
        /\ staged.next = "append" <=> staged.event # None
        /\ staged.write.legacy = <<>>
        /\ ~ Recorded => staged.write.revision = Revision + 1
        /\ Recorded => Revision = staged.write.revision /\ Events = Append(seen[storeLock], staged.event)
        /\ staged.next = "append" =>
              /\ staged.write.lease = record.lease /\ staged.write.generation = record.generation
              /\ ~ Recorded => Events = seen[storeLock] /\ NextEvent(Events, staged.event)
        /\ staged.next = "write" =>
              staged.write.lease = None \/ staged.write.generation > record.generation

\* Which events are staged where.
EventFits ==
    staged # None =>
        /\ staged.from = "started" =>
              staged.event = Started(Current(seen[storeLock]), NextAttempt(seen[storeLock]))
        /\ staged.from = "running" => staged.event.kind = "task_receipt" /\ (Recorded => Quiet(Events))
        /\ staged.from \in {"run_started", "run_finished", "unrun"} => staged.event.kind # "task_started"

\* The runner has started an attempt and not recorded how it ended.
Attempting(p) ==
    \/ pc[p] \in {"invoke", "running"}
    \/ storeLock = p /\ pc[p] # "write" /\ staged.from = "running"

\* Whoever is at an attempt has seen all there is, and the start is the last of it; one
\* at most is, and nobody else records an event.
AttemptFits(p) ==
    Attempting(p) =>
        /\ seen[p] = Events /\ Len(Events) > 0
        /\ Last(Events).kind = "task_started" /\ AttemptOn(Events, Last(Events).task)

AttemptInv ==
    /\ \A p \in Runner: AttemptFits(p)
    /\ \A p, q \in Runner: Attempting(p) /\ Attempting(q) => p = q
    /\ staged # None /\ staged.event # None => \A q \in Runner: Attempting(q) => q = storeLock

\* Where a runner is, or will be again if its write fails.
At(p) == IF Committing(p) THEN staged.from ELSE pc[p]

\* What a runner is about to do was decided on what it has seen.
SeenFits(p) ==
    /\ At(p) \in {"next", "run_started", "run_finished", "unrun", "acquire", "started", "release"} => Quiet(seen[p])
    /\ At(p) \in {"acquire", "started"} => Runnable(seen[p])
    /\ At(p) = "unrun" => Pending(seen[p]) # {} /\ Unrun(seen[p]) # None

SeenInv == \A p \in Runner: SeenFits(p)

\* Cursor was started for recorded attempts, and not yet for those about to start.
InvokedInv ==
    /\ \A t \in Task, a \in Attempt:
        /\ invoked[t][a] <= 1
        /\ invoked[t][a] # 0 => \E i \in DOMAIN Events: Events[i] = Started(t, a)
    /\ \A p \in Runner: pc[p] = "invoke" => invoked[Last(Events).task][Last(Events).attempt] = 0
    /\ staged # None /\ staged.from = "started" => invoked[staged.event.task][staged.event.attempt] = 0

IInv ==
    /\ TypeInv /\ LockInv /\ Carried(record, events) /\ StagedFits /\ EventFits
    /\ AttemptInv /\ SeenInv /\ InvokedInv /\ StartsFit(Events)

-----------------------------------------------------------------------------
(* What a runner may record.                                               *)

\* What is read, of the state.
LEMMA EventsTypes ==
    ASSUME TypeInv
    PROVE  Events \in Seq(Event) /\ Revision \in Nat /\ Revision >= record.revision
  BY ReadTypes DEF TypeInv, Events, Revision

\* A task the runner is at makes events.
LEMMA CurrentEvents ==
    ASSUME Parameters, NEW es \in Seq(Event), Pending(es) # {}
    PROVE  /\ \A a \in Nat, s \in Outcome : Receipt(Current(es), a, s) \in Event
           /\ Started(Current(es), NextAttempt(es)) \in Event
           /\ Unrun(es) # None =>
                Unrun(es) \in Event /\ Unrun(es).kind = "task_receipt" /\ Unrun(es).task = Current(es)
           /\ Unrun(es) = None => DependenciesReady(es, Current(es))
  <1>1. Current(es) \in Nat
    BY CurrentIsPending DEF Parameters, StagesFit
  <1>2. \A a \in Nat, s \in Outcome : Receipt(Current(es), a, s) \in Event
    BY <1>1 DEF Receipt, Event
  <1>3. NextAttempt(es) \in Nat
    BY ReceiptsFinite DEF NextAttempt
  <1>4. Started(Current(es), NextAttempt(es)) \in Event
    BY <1>1, <1>3 DEF Started, Event
  <1>5. Receipt(Current(es), 1, "blocked") \in Event /\ Receipt(Current(es), 1, "unsupported") \in Event
    BY <1>2 DEF Outcome
  <1>6. None \notin Event
    BY DEF Parameters, NoneFits
  <1>7. \A s \in Outcome : Receipt(Current(es), 1, s).kind = "task_receipt" /\ Receipt(Current(es), 1, s).task = Current(es)
    BY DEF Receipt
  <1>8. /\ Unrun(es) # None =>
             Unrun(es) \in Event /\ Unrun(es).kind = "task_receipt" /\ Unrun(es).task = Current(es)
        /\ Unrun(es) = None => DependenciesReady(es, Current(es))
    BY <1>5, <1>6, <1>7 DEF Unrun, Outcome
  <1> QED  BY <1>2, <1>4, <1>8

\* What is recorded from where.
RecordedFrom(p, e) ==
    \/ pc[p] \in {"run_started", "run_finished"} /\ e.kind \in {"run_started", "run_finished"}
    \/ /\ pc[p] \in {"unrun", "running"} /\ e.kind = "task_receipt"
       /\ Pending(seen[p]) # {} /\ e.task = Current(seen[p])
    \/ /\ pc[p] = "started" /\ Runnable(seen[p])
       /\ e = Started(Current(seen[p]), NextAttempt(seen[p]))

LEMMA CandidatesFit ==
    ASSUME Parameters, IInv, NEW p \in Runner, NEW e \in Candidates(p)
    PROVE  e \in Event /\ RecordedFrom(p, e) /\ NextEvent(seen[p], e)
  <1> DEFINE es == seen[p]
  <1>1. es \in Seq(Event) /\ pc[p] \notin {"migrate", "append", "write"} => At(p) = pc[p]
    BY DEF IInv, TypeInv, At, Committing
  <1>2. SeenFits(p) /\ AttemptFits(p) /\ es \in Seq(Event)
    BY DEF IInv, SeenInv, AttemptInv, TypeInv
  <1> HIDE DEF es
  <1>3. ASSUME pc[p] \in {"run_started", "run_finished"}
        PROVE  e \in Event /\ e.kind \in {"run_started", "run_finished"}
    <2>1. e = Mark("run_started") \/ e = Mark("run_finished")
      BY <1>3 DEF Candidates
    <2> QED  BY <2>1 DEF Mark, Event
  <1>4. ASSUME pc[p] = "unrun"
        PROVE  e \in Event /\ e.kind = "task_receipt" /\ Pending(es) # {} /\ e.task = Current(es)
    <2>1. e = Unrun(es)
      BY <1>4 DEF Candidates, es
    <2>2. Pending(es) # {} /\ Unrun(es) # None
      BY <1>1, <1>2, <1>4 DEF SeenFits, es
    <2> QED  BY <1>2, <2>1, <2>2, CurrentEvents
  <1>5. ASSUME pc[p] = "started"
        PROVE  e \in Event /\ Runnable(es) /\ e = Started(Current(es), NextAttempt(es))
    <2>1. e = Started(Current(es), NextAttempt(es))
      BY <1>5 DEF Candidates, es
    <2>2. Runnable(es)
      BY <1>1, <1>2, <1>5 DEF SeenFits, es
    <2> QED  BY <1>2, <2>1, <2>2, CurrentEvents DEF Runnable
  <1>6. ASSUME pc[p] = "running"
        PROVE  e \in Event /\ e.kind = "task_receipt" /\ Pending(es) # {} /\ e.task = Current(es)
    <2>1. PICK s \in {"passed", "failed"} : e = Receipt(Current(es), Last(es).attempt, s)
      BY <1>6 DEF Candidates, es
    <2>2. es = Events /\ Len(es) > 0 /\ Pending(es) # {}
      BY <1>2, <1>6 DEF AttemptFits, Attempting, AttemptOn, es
    <2>3. Last(es) \in Event
      BY <1>2, <2>2 DEF Last
    <2>4. Last(es).attempt \in Nat
      BY <2>3 DEF Event
    <2>5. e \in Event
      BY <1>2, <2>1, <2>2, <2>4, CurrentEvents DEF Outcome
    <2> QED  BY <2>1, <2>2, <2>5 DEF Receipt
  <1>7. pc[p] \in Recording
    BY DEF Candidates, Recording
  <1>8. RecordedFrom(p, e) /\ e \in Event
    BY <1>3, <1>4, <1>5, <1>6, <1>7 DEF RecordedFrom, Recording, es
  <1>9. NextEvent(es, e)
    BY <1>8 DEF RecordedFrom, NextEvent, es
  <1> QED  BY <1>8, <1>9 DEF es

-----------------------------------------------------------------------------
(* Types and locks.                                                        *)

\* Where nothing is written, the same is read.
LEMMA SameRead ==
    ASSUME UNCHANGED <<record, events>>
    PROVE  Events' = Events /\ Revision' = Revision
  BY DEF Events, Revision

\* The steps of a runner with which neither the files nor the lock change.
Thinks(p) ==
    \/ ReadRecord(p) \/ ReadJournal(p) \/ Decide(p) \/ GiveUp(p)
    \/ Refused(p) \/ Invoke(p) \/ AdapterFails(p)

\* A function to numbers stays one when it counts.
LEMMA CountsUp ==
    ASSUME NEW S, NEW g \in [S -> Nat], NEW a
    PROVE  [g EXCEPT ![a] = g[a] + 1] \in [S -> Nat]
  <1>1. CASE a \in S
    <2>1. g[a] + 1 \in Nat
      BY <1>1
    <2> QED  BY <2>1
  <1>2. CASE a \notin S
    BY <1>2
  <1> QED  BY <1>1, <1>2

LEMMA ThinkingStays ==
    ASSUME TypeInv, NEW p \in Runner, Thinks(p)
    PROVE  /\ UNCHANGED <<record, events, storeLock, staged>>
           /\ \E l \in Recording \cup Leasing \cup {"read", "begin", "next", "done"} : pc' = [pc EXCEPT ![p] = l]
           /\ pc[p] \notin {"migrate", "append", "write"}
           /\ \E es \in Seq(Event) : seen' = [seen EXCEPT ![p] = es]
           /\ invoked' \in [Task -> [Attempt -> Nat]]
  <1>0. /\ pc \in [Runner -> Recording \cup Leasing
                      \cup {"idle", "read", "begin", "next", "invoke", "migrate", "append", "write", "done", "dead"}]
        /\ seen \in [Runner -> Seq(Event)] /\ invoked \in [Task -> [Attempt -> Nat]]
        /\ record \in Record /\ events \in Seq(Entry)
    BY DEF TypeInv
  <1>s. seen = [seen EXCEPT ![p] = seen[p]] /\ seen[p] \in Seq(Event)
    BY <1>0
  <1>1. CASE ReadRecord(p)
    <2>1. record.legacy \in Seq(Event)
      BY <1>0 DEF Record
    <2> QED  BY <1>0, <1>1, <2>1 DEF ReadRecord, Goto
  <1>2. CASE ReadJournal(p)
    <2>1. ReadEvents([revision |-> rev[p], legacy |-> seen[p]], events) \in Seq(Event)
      <3>1. \A i \in 1 .. Len(events) : events[i].event \in Event
        <4>1. \A i \in 1 .. Len(events) : events[i] \in Entry
          BY <1>0
        <4> QED  BY <4>1 DEF Entry
      <3>2. DOMAIN events = 1 .. Len(events) /\ Len(events) \in Nat
        BY <1>0
      <3>3. [i \in DOMAIN events |-> events[i].event] \in Seq(Event)
        BY <3>1, <3>2, IsASeq
      <3> QED  BY <1>0, <3>3 DEF ReadEvents
    <2> QED  BY <1>0, <1>2, <2>1 DEF ReadJournal, Goto
  <1>3. CASE Decide(p)
    <2>1. \E l \in Recording \cup Leasing : pc' = [pc EXCEPT ![p] = l]
      BY <1>3 DEF Decide, Goto, Recording, Leasing
    <2> QED  BY <1>0, <1>s, <1>3, <2>1 DEF Decide, local
  <1>4. CASE GiveUp(p)
    BY <1>0, <1>s, <1>4 DEF GiveUp, Goto, local
  <1>5. CASE Refused(p)
    <2>1. Candidates(p) # {} => pc[p] \in Recording
      BY DEF Candidates, Recording
    <2>2. Thrown(p) \in Leasing \cup {"done"}
      BY DEF Thrown, Leasing
    <2>3. UNCHANGED <<record, events, storeLock, staged, seen, invoked>>
      BY <1>5 DEF Refused, local
    <2>4. \/ Candidates(p) # {} /\ Goto(p, Thrown(p))
          \/ pc[p] \in Leasing /\ Goto(p, "done")
      BY <1>5 DEF Refused, Leasing
    <2>5. /\ \E l \in Leasing \cup {"done"} : pc' = [pc EXCEPT ![p] = l]
          /\ pc[p] \in Recording \cup Leasing
      BY <2>1, <2>2, <2>4 DEF Goto
    <2> QED  BY <1>0, <1>s, <2>3, <2>5 DEF Recording, Leasing
  <1>6. CASE Invoke(p)
    <2>1. pc' = [pc EXCEPT ![p] = "running"] /\ pc[p] = "invoke"
          /\ UNCHANGED <<record, events, storeLock, staged, seen>>
      BY <1>6 DEF Invoke, Goto, local
    <2>2. invoked' \in [Task -> [Attempt -> Nat]]
      <3> DEFINE t == Current(seen[p])
                 a == Last(seen[p]).attempt
                 f == [invoked[t] EXCEPT ![a] = invoked[t][a] + 1]
      <3>1. invoked' = [invoked EXCEPT ![t] = f]
        BY <1>6 DEF Invoke
      <3>2. t \in Task => f \in [Attempt -> Nat]
        <4> SUFFICES ASSUME t \in Task PROVE f \in [Attempt -> Nat]
          OBVIOUS
        <4>1. invoked[t] \in [Attempt -> Nat]
          BY <1>0
        <4> HIDE DEF t, a
        <4> QED  BY <4>1, CountsUp
      <3> HIDE DEF t, f
      <3> QED  BY <1>0, <3>1, <3>2
    <2> QED  BY <1>0, <1>s, <2>1, <2>2 DEF Recording
  <1>7. CASE AdapterFails(p)
    <2>1. Thrown(p) \in Leasing \cup {"done"}
      BY DEF Thrown, Leasing
    <2> QED  BY <1>0, <1>s, <1>7, <2>1 DEF AdapterFails, Goto, local
  <1> QED  BY <1>1, <1>2, <1>3, <1>4, <1>5, <1>6, <1>7 DEF Thinks

\* What is staged at the start of a write, by p.
Begins(p, s) ==
    /\ pc[p] \in Recording \cup Leasing /\ storeLock = None /\ storeLock' = p
    /\ staged' = s /\ s \in Staged /\ s.from = pc[p]
    /\ s.write.legacy = <<>> /\ s.write.revision = Revision + 1
    /\ pc' = [pc EXCEPT ![p] = "migrate"]
    /\ UNCHANGED <<record, events, seen, invoked>>
    /\ \/ /\ s.next = "append" /\ s.event \in Candidates(p) /\ Events = seen[p] /\ pc[p] \in Recording
          /\ s.write.lease = record.lease /\ s.write.generation = record.generation
       \/ /\ s.next = "write" /\ s.event = None /\ pc[p] \in Leasing
          /\ s.write.lease = None \/ s.write.generation > record.generation

\* A record with a new revision and nothing to carry over.
LEMMA RecordChanged ==
    ASSUME NEW r \in Record, NEW v \in Nat
    PROVE  /\ [r EXCEPT !.revision = v, !.legacy = <<>>] \in Record
           /\ [r EXCEPT !.revision = v, !.legacy = <<>>].revision = v
           /\ [r EXCEPT !.revision = v, !.legacy = <<>>].legacy = <<>>
           /\ [r EXCEPT !.revision = v, !.legacy = <<>>].lease = r.lease
           /\ [r EXCEPT !.revision = v, !.legacy = <<>>].generation = r.generation
           /\ [r EXCEPT !.revision = v, !.legacy = <<>>, !.lease = None] \in Record
           /\ [r EXCEPT !.revision = v, !.legacy = <<>>, !.lease = None].revision = v
           /\ [r EXCEPT !.revision = v, !.legacy = <<>>, !.lease = None].legacy = <<>>
           /\ [r EXCEPT !.revision = v, !.legacy = <<>>, !.lease = None].lease = None
  <1>1. <<>> \in Seq(Event)
    OBVIOUS
  <1> HIDE DEF Event, Lease
  <1>2. [r EXCEPT !.revision = v, !.legacy = <<>>] \in Record
    BY <1>1 DEF Record
  <1>3. [r EXCEPT !.revision = v, !.legacy = <<>>, !.lease = None] \in Record
    BY <1>1 DEF Record
  <1> QED  BY <1>2, <1>3 DEF Record

LEMMA BeginsAppend ==
    ASSUME Parameters, IInv, NEW p \in Runner, StartAppend(p)
    PROVE  \E s : Begins(p, s)
  <1>1. PICK e \in Candidates(p) :
            /\ Fenced(p) /\ Events = seen[p] /\ storeLock' = p
            /\ staged' = [next |-> "append", event |-> e, from |-> pc[p],
                          write |-> [record EXCEPT !.revision = Revision + 1, !.legacy = <<>>]]
            /\ Goto(p, "migrate")
            /\ UNCHANGED <<record, events, supported, local, invoked, faults>>
    BY DEF StartAppend
  <1> DEFINE r == [record EXCEPT !.revision = Revision + 1, !.legacy = <<>>]
             s == [next |-> "append", event |-> e, from |-> pc[p], write |-> r]
  <1>2. e \in Event /\ pc[p] \in Recording
    <2>1. pc[p] \in Recording
      BY <1>1 DEF Candidates, Recording
    <2> QED  BY <1>1, <2>1, CandidatesFit
  <1>3. record \in Record /\ Revision \in Nat
    BY EventsTypes DEF IInv, TypeInv
  <1>4. r \in Record /\ r.legacy = <<>> /\ r.revision = Revision + 1 /\ r.lease = record.lease
        /\ r.generation = record.generation
    <2>1. Revision + 1 \in Nat
      BY <1>3
    <2>2. record \in Record
      BY <1>3
    <2> QED  BY <2>1, <2>2, RecordChanged
  <1> HIDE DEF r
  <1>5. s \in Staged
    BY <1>2, <1>4 DEF Staged
  <1>6. Begins(p, s)
    BY <1>1, <1>2, <1>4, <1>5 DEF Begins, Fenced, Goto, local, r
  <1> QED  BY <1>6

LEMMA BeginsAcquire ==
    ASSUME Parameters, IInv, NEW p \in Runner, StartAcquire(p)
    PROVE  \E s : Begins(p, s)
  <1> DEFINE g == record.generation + 1
             r == [revision |-> Revision + 1, legacy |-> <<>>, generation |-> g,
                   lease |-> [owner |-> p, generation |-> g, nonce |-> TRUE]]
             s == [next |-> "write", event |-> None, from |-> "acquire", write |-> r]
  <1>1. /\ pc[p] = "acquire" /\ storeLock = None /\ storeLock' = p /\ staged' = s
        /\ pc' = [pc EXCEPT ![p] = "migrate"] /\ UNCHANGED <<record, events, seen, invoked>>
    BY DEF StartAcquire, Fenced, Goto, local
  <1>2. record \in Record /\ Revision \in Nat /\ record.generation \in Nat
    BY EventsTypes DEF IInv, TypeInv, Record
  <1>3. [owner |-> p, generation |-> g, nonce |-> TRUE] \in Lease
    BY <1>2 DEF Lease
  <1>4. r \in Record /\ r.legacy = <<>> /\ r.revision = Revision + 1 /\ r.generation > record.generation
    BY <1>2, <1>3 DEF Record
  <1> HIDE DEF r
  <1>5. s \in Staged
    BY <1>4 DEF Staged, Leasing
  <1>6. Begins(p, s)
    BY <1>1, <1>4, <1>5 DEF Begins, Leasing
  <1> QED  BY <1>6

LEMMA BeginsRelease ==
    ASSUME Parameters, IInv, NEW p \in Runner, StartRelease(p)
    PROVE  \E s : Begins(p, s)
  <1> DEFINE r == [record EXCEPT !.revision = Revision + 1, !.legacy = <<>>, !.lease = None]
             s == [next |-> "write", event |-> None, from |-> pc[p], write |-> r]
  <1>1. /\ pc[p] \in {"release", "release_failed"} /\ storeLock = None /\ storeLock' = p /\ staged' = s
        /\ pc' = [pc EXCEPT ![p] = "migrate"] /\ UNCHANGED <<record, events, seen, invoked>>
    BY DEF StartRelease, Fenced, Goto, local
  <1>2. record \in Record /\ Revision \in Nat
    BY EventsTypes DEF IInv, TypeInv
  <1>3. r \in Record /\ r.legacy = <<>> /\ r.revision = Revision + 1 /\ r.lease = None
    <2>1. Revision + 1 \in Nat
      BY <1>2
    <2>2. record \in Record
      BY <1>2
    <2> QED  BY <2>1, <2>2, RecordChanged
  <1> HIDE DEF r
  <1>4. s \in Staged
    BY <1>1, <1>3 DEF Staged, Leasing
  <1>5. Begins(p, s)
    BY <1>1, <1>3, <1>4 DEF Begins, Leasing
  <1> QED  BY <1>5

-----------------------------------------------------------------------------
(* What the writes do to what is read.                                     *)

\* Whoever is at its write has the lock, and has staged something.
LEMMA AtWrite ==
    ASSUME Parameters, IInv, NEW p \in Runner, Committing(p)
    PROVE  storeLock = p /\ staged # None /\ staged \in Staged /\ At(p) = staged.from
  BY DEF IInv, LockInv, TypeInv, Parameters, NoneFits, At

LEMMA MigrateReads ==
    ASSUME Parameters, IInv, NEW p \in Runner, Migrate(p)
    PROVE  /\ storeLock = p /\ staged # None /\ staged \in Staged
           /\ UNCHANGED <<record, storeLock, staged, seen, invoked>>
           /\ events' \in Seq(Entry) /\ Carried(record, events)'
           /\ Events' = Events /\ Revision' = Revision
           /\ \/ pc' = pc
              \/ pc' = [pc EXCEPT ![p] = staged.next] /\ CarriedOver(record, events)'
  <1>1. pc[p] = "migrate" /\ UNCHANGED <<record, storeLock, staged, seen, invoked>>
    BY DEF Migrate, local
  <1>2. storeLock = p /\ staged # None /\ staged \in Staged
    BY <1>1, AtWrite DEF Committing
  <1>3. record \in Record /\ events \in Seq(Entry) /\ Carried(record, events)
    BY DEF IInv, TypeInv
  <1>4. record.legacy \in Seq(Event) /\ Len(record.legacy) \in Nat /\ Len(events) \in Nat
    BY <1>3 DEF Record
  <1>5. CASE Len(events) + 1 <= Len(record.legacy)
    <2> DEFINE x == [event |-> record.legacy[Len(events) + 1], revision |-> Len(events) + 2]
    <2>1. events' = Append(events, x) /\ pc' = pc
      BY <1>4, <1>5 DEF Migrate, MigrateFrom
    <2>2. Len(events) < Len(record.legacy)
      BY <1>4, <1>5
    <2>3. /\ x \in Entry /\ Carried(record, Append(events, x))
          /\ ReadEvents(record, Append(events, x)) = ReadEvents(record, events)
          /\ ReadRevision(record, Append(events, x)) = ReadRevision(record, events)
      BY <1>3, <2>2, ReadMigrated
    <2> HIDE DEF x
    <2>4. Carried(record, events)'
      BY <1>1, <2>1, <2>3 DEF Carried
    <2>5. Events' = Events /\ Revision' = Revision
      BY <1>1, <2>1, <2>3 DEF Events, Revision
    <2>6. events' \in Seq(Entry)
      BY <1>3, <2>1, <2>3
    <2> QED  BY <1>1, <1>2, <2>1, <2>4, <2>5, <2>6
  <1>6. CASE ~ (Len(events) + 1 <= Len(record.legacy))
    <2>1. events' = events /\ pc' = [pc EXCEPT ![p] = staged.next]
      BY <1>6 DEF Migrate, MigrateFrom, Goto
    <2>2. CarriedOver(record, events)' /\ Carried(record, events)'
      BY <1>1, <1>3, <1>4, <1>6, <2>1 DEF CarriedOver, Carried
    <2> QED  BY <1>1, <1>2, <1>3, <2>1, <2>2, SameRead
  <1> QED  BY <1>5, <1>6

LEMMA JournalReads ==
    ASSUME Parameters, IInv, NEW p \in Runner, pc[p] = "append", record' = record,
           events' = Append(events, [event |-> staged.event, revision |-> staged.write.revision])
    PROVE  /\ storeLock = p /\ staged # None /\ staged \in Staged /\ staged.next = "append"
           /\ staged.from \in Recording /\ staged.event \in Event
           /\ events' \in Seq(Entry) /\ Carried(record, events)' /\ CarriedOver(record, events)'
           /\ Events = seen[p] /\ NextEvent(Events, staged.event)
           /\ Events' = Append(Events, staged.event) /\ StartsFit(Events)'
           /\ Revision' = staged.write.revision /\ Revision' = Revision + 1
  <1> DEFINE x == [event |-> staged.event, revision |-> staged.write.revision]
  <1>1. storeLock = p /\ staged # None /\ staged \in Staged
    BY AtWrite DEF Committing
  <1>2. /\ record \in Record /\ events \in Seq(Entry) /\ Carried(record, events) /\ StartsFit(Events)
        /\ Revision \in Nat /\ Revision >= record.revision /\ record.revision \in Nat /\ Events \in Seq(Event)
    BY EventsTypes DEF IInv, TypeInv, Record
  <1>3. /\ staged.next = "append" /\ CarriedOver(record, events) /\ staged.from \in Recording
        /\ staged.event # None /\ staged.write.revision = Revision + 1
        /\ Events = seen[p] /\ NextEvent(Events, staged.event)
    BY <1>1 DEF IInv, StagedFits, Recorded
  <1>4. staged.event \in Event /\ staged.write.revision \in Nat
    BY <1>1, <1>3 DEF Staged, Record
  <1>5. x \in Entry /\ x.event = staged.event /\ x.revision = Revision + 1
    BY <1>3, <1>4 DEF Entry
  <1>6. x.revision > record.revision
    BY <1>2, <1>5
  <1> HIDE DEF x
  <1>7. /\ ReadEvents(record, Append(events, x)) = Append(ReadEvents(record, events), x.event)
        /\ ReadRevision(record, Append(events, x)) = x.revision
    BY <1>2, <1>3, <1>5, <1>6, ReadAppended
  <1>8. events' = Append(events, x)
    BY DEF x
  <1>9. Events' = Append(Events, staged.event) /\ Revision' = Revision + 1
    BY <1>5, <1>7, <1>8 DEF Events, Revision
  <1>10. /\ events' \in Seq(Entry) /\ Len(events') = Len(events) + 1
         /\ \A i \in 1 .. Len(events) : events'[i] = events[i]
    BY <1>2, <1>5, <1>8
  <1>11. record.legacy \in Seq(Event) /\ Len(record.legacy) \in Nat /\ Len(events) \in Nat
         /\ DOMAIN record.legacy = 1 .. Len(record.legacy)
    BY <1>2 DEF Record
  <1>12. \A i \in DOMAIN record.legacy : i \in 1 .. Len(events)
    BY <1>3, <1>11 DEF CarriedOver
  <1>13. Carried(record, events')
    BY <1>2, <1>10, <1>12 DEF Carried
  <1>14. CarriedOver(record, events')
    BY <1>3, <1>10, <1>11 DEF CarriedOver
  <1>15. Carried(record, events)' /\ CarriedOver(record, events)'
    BY <1>13, <1>14 DEF Carried, CarriedOver
  <1>16. StartsFit(Append(Events, staged.event))
    BY <1>2, <1>3, <1>4, StartsFitAppend DEF Parameters
  <1>17. StartsFit(Events)'
    BY <1>9, <1>16 DEF StartsFit, StartFits
  <1> QED  BY <1>1, <1>3, <1>4, <1>9, <1>10, <1>15, <1>17

LEMMA RecordReads ==
    ASSUME Parameters, IInv, NEW p \in Runner, pc[p] = "write", record' = staged.write, events' = events
    PROVE  /\ storeLock = p /\ staged # None /\ staged \in Staged
           /\ record' \in Record /\ Carried(record, events)'
           /\ Events' = Events /\ Revision' = staged.write.revision
           /\ staged.next = "write" => Revision' = Revision + 1
           /\ staged.next = "append" =>
                Revision' = Revision /\ Events = Append(seen[p], staged.event) /\ staged.event \in Event
  <1>1. storeLock = p /\ staged # None /\ staged \in Staged
    BY AtWrite DEF Committing
  <1>2. /\ record \in Record /\ events \in Seq(Entry) /\ Revision \in Nat
    BY EventsTypes DEF IInv, TypeInv
  <1>3. /\ CarriedOver(record, events) /\ staged.write.legacy = <<>>
        /\ staged.next = "append" =>
             Revision = staged.write.revision /\ Events = Append(seen[p], staged.event) /\ staged.event # None
        /\ staged.next = "write" => staged.write.revision = Revision + 1
    BY <1>1 DEF IInv, StagedFits, Recorded
  <1>4. staged.write \in Record /\ staged.next \in {"append", "write"} /\ staged.event \in Event \cup {None}
    BY <1>1 DEF Staged
  <1>5. staged.write.revision >= Revision /\ staged.write.revision \in Nat
    BY <1>2, <1>3, <1>4 DEF Record
  <1>6. /\ ReadEvents(staged.write, events) = ReadEvents(record, events)
        /\ ReadRevision(staged.write, events) = staged.write.revision
    <2>1. staged.write.revision >= ReadRevision(record, events)
      BY <1>5 DEF Revision
    <2> QED  BY <1>2, <1>3, <1>4, <2>1, ReadRewritten
  <1>7. Events' = Events /\ Revision' = staged.write.revision
    BY <1>6 DEF Events, Revision
  <1>8. Carried(record, events)'
    BY <1>3 DEF Carried
  <1> QED  BY <1>1, <1>3, <1>4, <1>7, <1>8

LEMMA ReconcileReads ==
    ASSUME Parameters, IInv, Reconcile
    PROVE  /\ record' \in Record /\ events' \in Seq(Entry) /\ Carried(record, events)'
           /\ Events' = Events /\ Revision' = Revision + 1
           /\ storeLock = None /\ record'.lease = None
           /\ UNCHANGED <<storeLock, staged, pc, seen, invoked>>
  <1>1. /\ record \in Record /\ events \in Seq(Entry) /\ Revision \in Nat /\ Carried(record, events)
    BY EventsTypes DEF IInv, TypeInv
  <1> DEFINE r == [record EXCEPT !.revision = Revision + 1, !.legacy = <<>>, !.lease = None]
             log == events \o Rest(record, events)
  <1>2. /\ storeLock = None /\ record' = r /\ events' = log
        /\ UNCHANGED <<storeLock, staged, pc, seen, invoked>>
    BY DEF Reconcile, local, Rest
  <1>3. r \in Record /\ r.revision = Revision + 1 /\ r.legacy = <<>> /\ r.lease = None
    <2>1. Revision + 1 \in Nat
      BY <1>1
    <2> QED  BY <1>1, <2>1, RecordChanged
  <1>4. /\ log \in Seq(Entry) /\ CarriedOver(record, log)
        /\ ReadEvents(record, log) = Events /\ ReadRevision(record, log) = Revision
    BY <1>1, ReadCompleted DEF Events, Revision
  <1> HIDE DEF r, log
  <1>5. r.revision >= ReadRevision(record, log)
    BY <1>1, <1>3, <1>4
  <1>6. ReadEvents(r, log) = Events /\ ReadRevision(r, log) = Revision + 1
    BY <1>1, <1>3, <1>4, <1>5, ReadRewritten
  <1>7. Events' = ReadEvents(r, log) /\ Revision' = ReadRevision(r, log)
    BY <1>2 DEF Events, Revision
  <1>8. Carried(record, events)'
    BY <1>2, <1>3 DEF Carried
  <1> QED  BY <1>2, <1>3, <1>4, <1>6, <1>7, <1>8

-----------------------------------------------------------------------------
(* Every step keeps the invariant.                                         *)

\* What is said of a history after a step is said of the history there is then.
LEMMA Primes ==
    ASSUME NEW p
    PROVE  /\ (Quiet(Events))' <=> Quiet(Events')
           /\ (Quiet(seen[p]))' <=> Quiet(seen'[p])
           /\ (Runnable(seen[p]))' <=> Runnable(seen'[p])
           /\ (Pending(seen[p]) # {})' <=> Pending(seen'[p]) # {}
           /\ supported' = supported => (Unrun(seen[p]) # None)' <=> Unrun(seen'[p]) # None
           /\ (AttemptOn(Events, Last(Events).task))' <=> AttemptOn(Events', Last(Events').task)
           /\ (StartsFit(Events))' <=> StartsFit(Events')
           /\ \A e : (NextEvent(Events, e))' <=> NextEvent(Events', e)
  <1>1. (Quiet(Events))' <=> Quiet(Events')
    BY DEF Quiet, InFlight
  <1>2. (Quiet(seen[p]))' <=> Quiet(seen'[p])
    BY DEF Quiet, InFlight
  <1>3. (Runnable(seen[p]))' <=> Runnable(seen'[p])
    BY DEF Runnable, Quiet, InFlight, Pending, TaskStatus, Current, DependenciesReady, ReceiptsOf
  <1>4. (Pending(seen[p]) # {})' <=> Pending(seen'[p]) # {}
    BY DEF InFlight, Pending, TaskStatus, ReceiptsOf
  <1>5. supported' = supported => ((Unrun(seen[p]) # None)' <=> Unrun(seen'[p]) # None)
    BY DEF Unrun, InFlight, Pending, TaskStatus, Current, DependenciesReady, ReceiptsOf, Receipt
  <1>6. (AttemptOn(Events, Last(Events).task))' <=> AttemptOn(Events', Last(Events').task)
    BY DEF AttemptOn, InFlight, Pending, TaskStatus, Current, ReceiptsOf, Last
  <1>7. (StartsFit(Events))' <=> StartsFit(Events')
    BY DEF StartsFit, StartFits, InFlight, TaskStatus, ReceiptsOf
  <1>8. \A e : (NextEvent(Events, e))' <=> NextEvent(Events', e)
    BY DEF NextEvent, Runnable, Quiet, InFlight, Pending, TaskStatus, Current, NextAttempt, Started, DependenciesReady, ReceiptsOf
  <1> QED  BY <1>1, <1>2, <1>3, <1>4, <1>5, <1>6, <1>7, <1>8

\* The plan's capability is settled before the run.
LEMMA SupportStays == ASSUME Next PROVE supported' = supported
  BY DEF Next, Run, ReadRecord, ReadJournal, Decide, GiveUp, StartAppend, StartAcquire, StartRelease,
         Refused, Migrate, AppendJournal, WriteRecord, Invoke, AdapterFails, WriteFails, Kill, Reconcile

\* An attempt under way is of a task of the plan, and nothing is quiet meanwhile.
LEMMA AttemptIsLoud ==
    ASSUME StagesFit, NEW es, NEW t, AttemptOn(es, t)
    PROVE  t \in Task /\ ~ Quiet(es)
  BY CurrentIsPending DEF AttemptOn, Quiet

\* The last event of an attempt under way.
LEMMA AttemptStart ==
    ASSUME Parameters, IInv, NEW p \in Runner, Attempting(p)
    PROVE  /\ Current(seen[p]) \in Task /\ Last(seen[p]).attempt \in Attempt
           /\ Last(Events) = Last(seen[p]) /\ Last(Events).task = Current(seen[p])
           /\ Last(Events) = Started(Current(seen[p]), Last(seen[p]).attempt)
           /\ Last(Events) = Events[Len(Events)] /\ Len(Events) \in DOMAIN Events
  <1> DEFINE e == Last(Events)
  <1>1. /\ seen[p] = Events /\ Len(Events) > 0 /\ e.kind = "task_started" /\ AttemptOn(Events, e.task)
        /\ StartsFit(Events) /\ Events \in Seq(Event)
    BY EventsTypes DEF IInv, AttemptInv, AttemptFits
  <1>2. e = Events[Len(Events)] /\ Len(Events) \in DOMAIN Events
    BY <1>1 DEF Last
  <1>3. e \in Event
    BY <1>1, <1>2
  <1>4. StartFits(Events, e.task, e.attempt)
    BY <1>1, <1>2 DEF StartsFit
  <1>5. e.task \in Task /\ e.attempt \in Attempt
    <2>1. e.task \in Task /\ e.attempt \in 1 .. Stages[e.task].max
      BY <1>4 DEF StartFits
    <2>2. Stages[e.task].max \in Attempt
      BY <2>1 DEF Parameters, StagesFit
    <2> HIDE DEF e
    <2> QED  BY <2>1, <2>2 DEF Attempt
  <1>6. e = Started(e.task, e.attempt)
    BY <1>1, <1>3 DEF Event, Started
  <1>7. e.task = Current(seen[p])
    BY <1>1 DEF AttemptOn
  <1> QED  BY <1>1, <1>2, <1>5, <1>6, <1>7

\* What a runner that thinks comes to do is decided on what it has seen.
LEMMA ThinkingFits ==
    ASSUME Parameters, IInv, NEW p \in Runner, Thinks(p), supported' = supported
    PROVE  /\ (SeenFits(p))'
           /\ pc'[p] \in {"invoke", "running"} => Invoke(p)
           /\ ~ Invoke(p) => invoked' = invoked
  <1>0. pc \in [Runner -> Recording \cup Leasing
                  \cup {"idle", "read", "begin", "next", "invoke", "migrate", "append", "write", "done", "dead"}]
    BY DEF IInv, TypeInv
  <1>a. ASSUME NEW l, pc' = [pc EXCEPT ![p] = l],
               l \in {"read", "begin", "done", "release_failed", "running", "run_started", "run_finished", "unrun", "acquire"}
        PROVE  pc'[p] = l /\ (At(p))' = l
    BY <1>0, <1>a DEF At, Committing
  <1>b. ASSUME NEW l \in {"read", "begin", "done", "release_failed"}, pc' = [pc EXCEPT ![p] = l]
        PROVE  (SeenFits(p))' /\ pc'[p] \notin {"invoke", "running"}
    <2>1. pc'[p] = l /\ (At(p))' = l
      BY <1>a, <1>b
    <2> QED  BY <2>1 DEF SeenFits
  <1>1. CASE ReadRecord(p)
    BY <1>1, <1>b DEF ReadRecord, Goto
  <1>2. CASE ReadJournal(p)
    BY <1>2, <1>b DEF ReadJournal, Goto
  <1>3. CASE GiveUp(p)
    BY <1>3, <1>b DEF GiveUp, Goto
  <1>4. CASE Refused(p)
    BY <1>4, <1>b DEF Refused, Goto, Thrown
  <1>5. CASE AdapterFails(p)
    BY <1>5, <1>b DEF AdapterFails, Goto, Thrown
  <1>6. CASE Invoke(p)
    <2>1. pc'[p] = "running" /\ (At(p))' = "running"
      BY <1>6, <1>a DEF Invoke, Goto
    <2>2. (SeenFits(p))'
      BY <2>1 DEF SeenFits
    <2> QED  BY <1>6, <2>1, <2>2
  <1>7. CASE Decide(p)
    <2> DEFINE es == seen[p]
    <2>1. /\ (pc[p] = "begin" /\ (es = <<>> \/ RunActive(es))) \/ pc[p] = "next"
          /\ IF es = <<>> THEN Goto(p, "run_started")
             ELSE IF Pending(es) = {} \/ (\E t \in Task :
                       TaskStatus(es, t) \in {"blocked", "unsupported", "attempt_failed_terminal"})
                  THEN Goto(p, "run_finished")
             ELSE IF Unrun(es) # None THEN Goto(p, "unrun")
             ELSE Goto(p, "acquire")
          /\ seen' = seen /\ invoked' = invoked /\ supported' = supported
      BY <1>7 DEF Decide, local
    <2>2. Quiet(es)
      <3>1. CASE pc[p] = "next"
        BY <3>1 DEF IInv, SeenInv, SeenFits, At, Committing
      <3>2. CASE es = <<>>
        BY <3>2 DEF Quiet, InFlight
      <3>3. CASE RunActive(es)
        BY <3>3 DEF RunActive, Quiet, TaskStatus
      <3> QED  BY <2>1, <3>1, <3>2, <3>3
    <2>3. es \in Seq(Event)
      BY DEF IInv, TypeInv
    <2>4. /\ (At(p))' \in {"run_started", "run_finished", "unrun", "acquire"} /\ pc'[p] = (At(p))'
          /\ (At(p))' = "acquire" => Runnable(es)
          /\ (At(p))' = "unrun" => Pending(es) # {} /\ Unrun(es) # None
      <3> HIDE DEF es
      <3>1. CASE es = <<>>
        BY <2>1, <3>1, <1>a DEF Goto
      <3>2. CASE es # <<>> /\ (Pending(es) = {} \/ (\E t \in Task :
                       TaskStatus(es, t) \in {"blocked", "unsupported", "attempt_failed_terminal"}))
        BY <2>1, <3>2, <1>a DEF Goto
      <3>3. CASE /\ es # <<>> /\ Pending(es) # {}
                 /\ \A t \in Task : TaskStatus(es, t) \notin {"blocked", "unsupported", "attempt_failed_terminal"}
        <4>1. CASE Unrun(es) # None
          BY <2>1, <3>3, <4>1, <1>a DEF Goto
        <4>2. CASE Unrun(es) = None
          <5>1. DependenciesReady(es, Current(es))
            BY <2>3, <3>3, <4>2, CurrentEvents
          <5>2. Runnable(es)
            BY <2>2, <3>3, <5>1 DEF Runnable
          <5>3. pc' = [pc EXCEPT ![p] = "acquire"]
            BY <2>1, <3>3, <4>2 DEF Goto
          <5> QED  BY <5>2, <5>3, <1>a
        <4> QED  BY <4>1, <4>2
      <3> QED  BY <3>1, <3>2, <3>3
    <2>5. (SeenFits(p))'
      BY <2>1, <2>2, <2>4, Primes DEF SeenFits
    <2>6. ~ Invoke(p)
      BY <2>1 DEF Invoke
    <2> QED  BY <2>1, <2>4, <2>5, <2>6
  <1>8. Invoke(p) \/ invoked' = invoked
    BY DEF Thinks, ReadRecord, ReadJournal, Decide, GiveUp, Refused, AdapterFails
  <1> QED  BY <1>1, <1>2, <1>3, <1>4, <1>5, <1>6, <1>7, <1>8 DEF Thinks

\* Cursor starts for the attempt that was recorded, once.
LEMMA InvokeCounts ==
    ASSUME Parameters, IInv, NEW p \in Runner, Invoke(p)
    PROVE  /\ \A t \in Task, a \in Attempt :
                /\ invoked'[t][a] <= 1
                /\ invoked'[t][a] # 0 => \E i \in DOMAIN Events : Events[i] = Started(t, a)
           /\ \A t \in Task, a \in Attempt :
                invoked'[t][a] # invoked[t][a] => t = Last(Events).task /\ a = Last(Events).attempt
  <1> DEFINE u == Current(seen[p])
             b == Last(seen[p]).attempt
  <1>1. pc[p] = "invoke" /\ invoked' = [invoked EXCEPT ![u][b] = @ + 1]
    BY DEF Invoke
  <1>2. /\ u \in Task /\ b \in Attempt /\ Last(Events) = Started(u, b)
        /\ Events[Len(Events)] = Started(u, b) /\ Len(Events) \in DOMAIN Events
    BY <1>1, AttemptStart DEF Attempting
  <1>3. Last(Events).task = u /\ Last(Events).attempt = b
    BY <1>2 DEF Started
  <1>4. invoked[u][b] = 0
    BY <1>1, <1>3 DEF IInv, InvokedInv
  <1>5. invoked \in [Task -> [Attempt -> Nat]]
    BY DEF IInv, TypeInv
  <1>6. \A t \in Task, a \in Attempt : 
            invoked[t][a] <= 1 /\ (invoked[t][a] # 0 => \E i \in DOMAIN Events : Events[i] = Started(t, a))
    BY DEF IInv, InvokedInv
  <1> HIDE DEF u, b
  <1>7. \A t \in Task, a \in Attempt :
            invoked'[t][a] = IF t = u /\ a = b THEN 1 ELSE invoked[t][a]
    BY <1>1, <1>2, <1>4, <1>5
  <1>8. ASSUME NEW t \in Task, NEW a \in Attempt
        PROVE  /\ invoked'[t][a] <= 1
               /\ invoked'[t][a] # 0 => \E i \in DOMAIN Events : Events[i] = Started(t, a)
               /\ invoked'[t][a] # invoked[t][a] => t = u /\ a = b
    <2>1. CASE t = u /\ a = b
      BY <1>2, <1>7, <2>1
    <2>2. CASE ~ (t = u /\ a = b)
      BY <1>6, <1>7, <2>2
    <2> QED  BY <2>1, <2>2
  <1> QED  BY <1>3, <1>8

\* A runner at an attempt stays so while no event is added.
LEMMA AttemptKept ==
    ASSUME NEW q, AttemptFits(q), Events' = Events, (Attempting(q))' => Attempting(q) /\ seen'[q] = seen[q]
    PROVE  (AttemptFits(q))'
  <1> SUFFICES ASSUME (Attempting(q))'
               PROVE  (/\ seen[q] = Events /\ Len(Events) > 0 /\ Last(Events).kind = "task_started"
                       /\ AttemptOn(Events, Last(Events).task))'
    BY DEF AttemptFits
  <1>1. /\ seen[q] = Events /\ Len(Events) > 0 /\ Last(Events).kind = "task_started"
        /\ AttemptOn(Events, Last(Events).task)
    BY DEF AttemptFits
  <1> QED  BY <1>1, Primes DEF Last

LEMMA ThinkingKeeps ==
    ASSUME Parameters, IInv, NEW p \in Runner, Thinks(p), supported' = supported
    PROVE  IInv'
  <1>1. /\ UNCHANGED <<record, events, storeLock, staged>>
        /\ pc[p] \notin {"migrate", "append", "write"}
        /\ invoked' \in [Task -> [Attempt -> Nat]]
    BY ThinkingStays DEF IInv
  <1>2. PICK l \in Recording \cup Leasing \cup {"read", "begin", "next", "done"} : pc' = [pc EXCEPT ![p] = l]
    BY ThinkingStays DEF IInv
  <1>3. PICK es \in Seq(Event) : seen' = [seen EXCEPT ![p] = es]
    BY ThinkingStays DEF IInv
  <1>4. Events' = Events /\ Revision' = Revision
    BY <1>1, SameRead
  <1>5. /\ (SeenFits(p))'
        /\ pc'[p] \in {"invoke", "running"} => Invoke(p)
        /\ ~ Invoke(p) => invoked' = invoked
    BY ThinkingFits
  <1>6. /\ pc \in [Runner -> Recording \cup Leasing
                      \cup {"idle", "read", "begin", "next", "invoke", "migrate", "append", "write", "done", "dead"}]
        /\ seen \in [Runner -> Seq(Event)] /\ TypeInv /\ LockInv /\ StagedFits /\ EventFits
    BY DEF IInv, TypeInv
  <1>7. /\ pc'[p] = l /\ seen'[p] = es
        /\ \A q \in Runner : q # p => pc'[q] = pc[q] /\ seen'[q] = seen[q]
        /\ l \notin {"migrate", "append", "write"}
    BY <1>2, <1>3, <1>6 DEF Recording, Leasing
  <1>8. storeLock # p
    BY <1>1, <1>6 DEF LockInv, Committing
  <1>9. \A q \in Runner : q # p => (At(q))' = At(q) /\ (Committing(q))' = Committing(q)
    BY <1>1, <1>7 DEF At, Committing
  <1>t. TypeInv'
    BY <1>1, <1>2, <1>3, <1>6 DEF TypeInv
  <1>l. LockInv'
    BY <1>1, <1>6, <1>7, <1>8 DEF LockInv, Committing
  <1>c. (Carried(record, events))'
    BY <1>1 DEF IInv, Carried
  <1>10. staged # None => storeLock \in Runner /\ pc'[storeLock] = pc[storeLock] /\ seen'[storeLock] = seen[storeLock]
    BY <1>6, <1>7, <1>8 DEF LockInv, TypeInv
  <1>s. StagedFits'
    BY <1>1, <1>4, <1>6, <1>10, Primes DEF StagedFits, Recorded, CarriedOver
  <1>e. EventFits'
    <2> SUFFICES ASSUME staged # None PROVE EventFits'
      BY <1>1 DEF EventFits
    <2>1. (seen[storeLock])' = seen[storeLock] /\ (pc[storeLock])' = pc[storeLock]
      BY <1>1, <1>10
    <2>2. (Started(Current(seen[storeLock]), NextAttempt(seen[storeLock])))'
            = Started(Current(seen[storeLock]), NextAttempt(seen[storeLock]))
      BY <2>1 DEF Started, Current, NextAttempt, Pending, TaskStatus, InFlight, ReceiptsOf
    <2> QED  BY <1>1, <1>4, <1>6, <2>1, <2>2, Primes DEF EventFits, Recorded
  <1>11. \A q \in Runner : (Attempting(q))' => Attempting(q) /\ seen'[q] = seen[q]
    <2>1. Invoke(p) => pc[p] = "invoke" /\ seen' = seen
      BY DEF Invoke, local
    <2>2. ASSUME NEW q \in Runner, q # p, (Attempting(q))'
          PROVE  Attempting(q) /\ seen'[q] = seen[q]
      BY <1>1, <1>7, <2>2 DEF Attempting
    <2>3. (Attempting(p))' => Attempting(p) /\ seen'[p] = seen[p]
      BY <1>1, <1>5, <1>8, <2>1 DEF Attempting
    <2> QED  BY <2>2, <2>3
  <1>a. AttemptInv'
    <2>1. \A q \in Runner : (AttemptFits(q))'
      BY <1>4, <1>11, AttemptKept DEF IInv, AttemptInv
    <2> QED  BY <1>1, <1>11, <2>1 DEF IInv, AttemptInv
  <1>n. SeenInv'
    <2> SUFFICES ASSUME NEW q \in Runner PROVE (SeenFits(q))'
      BY DEF SeenInv
    <2>1. CASE q = p
      BY <1>5, <2>1
    <2>2. CASE q # p
      <3>1. (At(q))' = At(q) /\ seen'[q] = seen[q] /\ SeenFits(q)
        BY <1>7, <1>9, <2>2 DEF IInv, SeenInv
      <3> QED  BY <3>1, Primes DEF SeenFits
    <2> QED  BY <2>1, <2>2
  <1>i. InvokedInv'
    <2>1. CASE Invoke(p)
      <3>1. Attempting(p) /\ \A q \in Runner : (Attempting(q))' => q = p
        BY <1>11, <2>1 DEF Invoke, Attempting, IInv, AttemptInv
      <3>2. \A q \in Runner : pc'[q] # "invoke"
        BY <2>1, <3>1, <1>2, <1>6 DEF Invoke, Goto, Attempting
      <3>3. ~ (staged # None /\ staged.from = "started")
        BY <1>8, <3>1 DEF IInv, AttemptInv, StagedFits, Recording
      <3>4. \A t \in Task, a \in Attempt : (
                /\ invoked[t][a] <= 1
                /\ invoked[t][a] # 0 => \E i \in DOMAIN Events: Events[i] = Started(t, a))'
        <4>1. \A t \in Task, a \in Attempt : (Started(t, a))' = Started(t, a)
          BY DEF Started
        <4> QED  BY <1>4, <2>1, <4>1, InvokeCounts
      <3> QED  BY <1>1, <3>2, <3>3, <3>4 DEF InvokedInv
    <2>2. CASE ~ Invoke(p)
      <3>1. invoked' = invoked /\ \A q \in Runner : pc'[q] = "invoke" => pc[q] = "invoke"
        BY <1>5, <1>7, <2>2
      <3> QED  BY <1>1, <1>4, <3>1 DEF IInv, InvokedInv, Started, Last
    <2> QED  BY <2>1, <2>2
  <1>f. (StartsFit(Events))'
    BY <1>4, Primes DEF IInv
  <1> QED  BY <1>t, <1>l, <1>c, <1>s, <1>e, <1>a, <1>n, <1>i, <1>f DEF IInv

\* While an attempt is under way, its receipt is all that may be recorded.
LEMMA OnlyItsReceipt ==
    ASSUME Parameters, IInv, NEW p \in Runner, NEW q \in Runner,
           pc[p] \in Recording, Events = seen[p], storeLock # p, Attempting(q)
    PROVE  q = p
  <1>1. SeenFits(p) /\ AttemptFits(q)
    BY DEF IInv, SeenInv, AttemptInv
  <1>2. ~ Quiet(Events)
    BY <1>1, AttemptIsLoud DEF AttemptFits, Parameters
  <1>3. ~ Committing(p)
    BY DEF IInv, LockInv
  <1>4. pc[p] = "running"
    BY <1>1, <1>2, <1>3 DEF SeenFits, At, Recording
  <1> QED  BY <1>4 DEF Attempting, IInv, AttemptInv

LEMMA BeginningKeeps ==
    ASSUME Parameters, IInv, NEW p \in Runner, NEW s, Begins(p, s), supported' = supported
    PROVE  IInv'
  <1>1. /\ pc[p] \in Recording \cup Leasing /\ storeLock = None /\ storeLock' = p
        /\ staged' = s /\ s \in Staged /\ s.from = pc[p]
        /\ s.write.legacy = <<>> /\ s.write.revision = Revision + 1
        /\ pc' = [pc EXCEPT ![p] = "migrate"]
        /\ UNCHANGED <<record, events, seen, invoked>>
        /\ \/ /\ s.next = "append" /\ s.event \in Candidates(p) /\ Events = seen[p] /\ pc[p] \in Recording
              /\ s.write.lease = record.lease /\ s.write.generation = record.generation
           \/ /\ s.next = "write" /\ s.event = None /\ pc[p] \in Leasing
              /\ s.write.lease = None \/ s.write.generation > record.generation
    BY DEF Begins
  <1>2. s # None /\ None \notin Event /\ None \notin Runner
    BY <1>1 DEF Parameters, NoneFits
  <1>3. Events' = Events /\ Revision' = Revision
    BY <1>1, SameRead
  <1>4. s.next = "append" => s.event \in Event /\ RecordedFrom(p, s.event) /\ NextEvent(Events, s.event)
    <2> SUFFICES ASSUME s.next = "append"
                 PROVE  s.event \in Event /\ RecordedFrom(p, s.event) /\ NextEvent(Events, s.event)
      OBVIOUS
    <2>1. s.event \in Candidates(p) /\ Events = seen[p]
      BY <1>1
    <2> QED  BY <2>1, CandidatesFit
  <1>5. /\ pc \in [Runner -> Recording \cup Leasing
                      \cup {"idle", "read", "begin", "next", "invoke", "migrate", "append", "write", "done", "dead"}]
        /\ TypeInv /\ LockInv /\ AttemptInv /\ SeenInv /\ InvokedInv
    BY DEF IInv, TypeInv
  <1>6. /\ pc'[p] = "migrate" /\ \A q \in Runner : q # p => pc'[q] = pc[q] /\ ~ Committing(q)
        /\ ~ Committing(p)
    BY <1>1, <1>2, <1>5 DEF LockInv
  <1>7. \A q \in Runner : (At(q))' = At(q)
    <2> SUFFICES ASSUME NEW q \in Runner PROVE (At(q))' = At(q)
      OBVIOUS
    <2>1. CASE q = p
      BY <1>1, <1>6, <2>1 DEF At, Committing
    <2>2. CASE q # p
      BY <1>6, <2>2 DEF At, Committing
    <2> QED  BY <2>1, <2>2
  <1>8. ~ Recorded'
    BY <1>1, <1>6 DEF Recorded
  <1>9. \A q \in Runner : (Attempting(q))' => Attempting(q) /\ (s.event # None => q = p)
    <2> SUFFICES ASSUME NEW q \in Runner, (Attempting(q))'
                 PROVE  Attempting(q) /\ (s.event # None => q = p)
      OBVIOUS
    <2>1. Attempting(q)
      <3>1. CASE q = p
        BY <1>1, <1>6, <3>1 DEF Attempting
      <3>2. CASE q # p
        BY <1>1, <1>6, <3>2 DEF Attempting
      <3> QED  BY <3>1, <3>2
    <2>2. s.event # None => pc[p] \in Recording /\ Events = seen[p]
      BY <1>1
    <2>3. s.event # None => q = p
      BY <1>1, <1>2, <2>1, <2>2, OnlyItsReceipt
    <2> QED  BY <2>1, <2>3
  <1>t. TypeInv'
    BY <1>1, <1>5 DEF TypeInv
  <1>l. LockInv'
    BY <1>1, <1>2, <1>6 DEF LockInv, Committing
  <1>c. (Carried(record, events))'
    BY <1>1 DEF IInv, Carried
  <1>10. s.next = "append" <=> s.from \in Recording
    BY <1>1 DEF Recording, Leasing
  <1>s. StagedFits'
    <2>1. s.next = "append" => (NextEvent(Events, s.event))'
      BY <1>1, <1>3, <1>4, Primes DEF NextEvent
    <2> QED  BY <1>1, <1>2, <1>3, <1>4, <1>6, <1>8, <1>10, <2>1 DEF StagedFits
  <1>e. EventFits'
    <2>1. (seen[storeLock])' = seen[p]
      BY <1>1
    <2>2. (Started(Current(seen[storeLock]), NextAttempt(seen[storeLock])))'
            = Started(Current(seen[p]), NextAttempt(seen[p]))
      BY <2>1 DEF Started, Current, NextAttempt, Pending, TaskStatus, InFlight, ReceiptsOf
    <2>3. s.from \in Recording => RecordedFrom(p, s.event)
      BY <1>4, <1>10
    <2>4. pc[p] \in {"started", "running", "run_started", "run_finished", "unrun"} => s.from \in Recording
      BY <1>1 DEF Recording
    <2> QED  BY <1>1, <1>8, <2>2, <2>3, <2>4 DEF EventFits, RecordedFrom
  <1>a. AttemptInv'
    <2>1. \A q \in Runner : (AttemptFits(q))'
      BY <1>1, <1>3, <1>5, <1>9, AttemptKept DEF AttemptInv
    <2> QED  BY <1>1, <1>5, <1>9, <2>1 DEF AttemptInv
  <1>n. SeenInv'
    <2> SUFFICES ASSUME NEW q \in Runner PROVE (SeenFits(q))'
      BY DEF SeenInv
    <2>1. (At(q))' = At(q) /\ seen'[q] = seen[q] /\ SeenFits(q)
      BY <1>1, <1>5, <1>7 DEF SeenInv
    <2> QED  BY <2>1, Primes DEF SeenFits
  <1>i. InvokedInv'
    <2>1. s.from = "started" => invoked[s.event.task][s.event.attempt] = 0
      <3> SUFFICES ASSUME s.from = "started" PROVE invoked[s.event.task][s.event.attempt] = 0
        OBVIOUS
      <3>1. Runnable(Events) /\ s.event = Started(Current(Events), NextAttempt(Events))
        BY <1>1, <1>4, <1>10 DEF RecordedFrom, Recording
      <3>2. Current(Events) \in Task /\ NextAttempt(Events) \in Attempt
        <4>1. Events \in Seq(Event)
          BY <1>5, EventsTypes
        <4>2. Current(Events) \in Task
          BY <3>1, CurrentIsPending DEF Runnable, Parameters
        <4>3. NextAttempt(Events) \in 1 .. Stages[Current(Events)].max
          BY <3>1, <4>1, NextAttemptFits DEF Parameters
        <4>4. Stages[Current(Events)].max \in 1 .. 10
          BY <4>2 DEF Parameters, StagesFit, Attempt
        <4> QED  BY <4>2, <4>3, <4>4 DEF Attempt
      <3>3. \A i \in DOMAIN Events : Events[i] # Started(Current(Events), NextAttempt(Events))
        BY <1>5, <3>1, EventsTypes, AttemptIsNew DEF IInv, Parameters
      <3>4. invoked[Current(Events)][NextAttempt(Events)] = 0
        BY <1>5, <3>2, <3>3 DEF InvokedInv
      <3> QED  BY <3>1, <3>4 DEF Started
    <2>2. \A q \in Runner : pc'[q] = "invoke" => pc[q] = "invoke"
      BY <1>6
    <2> QED  BY <1>1, <1>3, <1>5, <2>1, <2>2 DEF InvokedInv, Started, Last
  <1>f. (StartsFit(Events))'
    BY <1>3, Primes DEF IInv
  <1> QED  BY <1>t, <1>l, <1>c, <1>s, <1>e, <1>a, <1>n, <1>i, <1>f DEF IInv

\* What a step of p at its write leaves as it is, for all others: it has the lock, and where
\* they are and what they have seen is the same.
Alone(p) ==
    /\ \E l : pc' = [pc EXCEPT ![p] = l]
    /\ \A q \in Runner : q # p => seen'[q] = seen[q]
    /\ supported' = supported /\ invoked' = invoked

\* The others then keep what they know.
LEMMA OthersKeep ==
    ASSUME Parameters, IInv, NEW p \in Runner, Committing(p), Alone(p),
           storeLock' = storeLock \/ storeLock' = None,
           NEW q \in Runner, q # p
    PROVE  /\ (SeenFits(q))' /\ ~ Committing(q) /\ (Committing(q))' = Committing(q) /\ pc'[q] = pc[q]
           /\ (Attempting(q))' => Attempting(q)
  <1>1. storeLock = p /\ staged # None /\ pc'[q] = pc[q] /\ seen'[q] = seen[q] /\ supported' = supported
    BY AtWrite DEF Alone, IInv, TypeInv
  <1>2. ~ Committing(q) /\ storeLock' # q
    BY <1>1 DEF IInv, LockInv, Parameters, NoneFits
  <1>3. (Committing(q))' = Committing(q)
    BY <1>1 DEF Committing
  <1>4. (At(q))' = At(q)
    BY <1>1, <1>2, <1>3 DEF At
  <1>5. SeenFits(q)
    BY DEF IInv, SeenInv
  <1>6. (SeenFits(q))'
    BY <1>1, <1>4, <1>5, Primes DEF SeenFits
  <1>7. (Attempting(q))' => Attempting(q)
    BY <1>1, <1>2 DEF Attempting
  <1> QED  BY <1>1, <1>2, <1>3, <1>6, <1>7

\* Carrying over an event, or going on to the write.
LEMMA MigratingKeeps ==
    ASSUME Parameters, IInv, NEW p \in Runner, Migrate(p)
    PROVE  IInv'
  <1>1. /\ storeLock = p /\ staged # None /\ staged \in Staged
        /\ UNCHANGED <<record, storeLock, staged, seen, invoked>>
        /\ events' \in Seq(Entry) /\ (Carried(record, events))'
        /\ Events' = Events /\ Revision' = Revision
        /\ \/ pc' = pc
           \/ pc' = [pc EXCEPT ![p] = staged.next] /\ (CarriedOver(record, events))'
    BY MigrateReads
  <1>2. pc[p] = "migrate" /\ supported' = supported
    BY DEF Migrate
  <1>3. /\ pc \in [Runner -> Recording \cup Leasing
                      \cup {"idle", "read", "begin", "next", "invoke", "migrate", "append", "write", "done", "dead"}]
        /\ TypeInv /\ LockInv /\ StagedFits /\ EventFits /\ AttemptInv /\ SeenInv /\ InvokedInv
    BY DEF IInv, TypeInv
  <1>4. staged.next \in {"append", "write"}
    BY <1>1 DEF Staged
  <1>5. /\ pc'[p] \in {"migrate", "append", "write"}
        /\ pc'[p] # "migrate" => pc'[p] = staged.next /\ (CarriedOver(record, events))'
        /\ \A q \in Runner : q # p => pc'[q] = pc[q]
    BY <1>1, <1>2, <1>3, <1>4
  <1>6. ~ Recorded /\ ~ Recorded'
    BY <1>1, <1>2, <1>5 DEF Recorded
  <1>7. \A q \in Runner : (Committing(q))' = Committing(q) /\ (At(q))' = At(q)
    <2> SUFFICES ASSUME NEW q \in Runner PROVE (Committing(q))' = Committing(q) /\ (At(q))' = At(q)
      OBVIOUS
    <2>1. (Committing(q))' = Committing(q)
      BY <1>2, <1>5 DEF Committing
    <2>2. (At(q))' = At(q)
      <3>1. CASE q = p
        BY <1>1, <1>2, <1>5, <3>1 DEF At, Committing
      <3>2. CASE q # p
        BY <1>1, <1>5, <3>2 DEF At, Committing
      <3> QED  BY <3>1, <3>2
    <2> QED  BY <2>1, <2>2
  <1>8. \A q \in Runner : (Attempting(q))' => Attempting(q)
    <2> SUFFICES ASSUME NEW q \in Runner, (Attempting(q))' PROVE Attempting(q)
      OBVIOUS
    <2>1. CASE q = p
      BY <1>1, <1>2, <1>5, <2>1 DEF Attempting
    <2>2. CASE q # p
      BY <1>1, <1>5, <2>2 DEF Attempting
    <2> QED  BY <2>1, <2>2
  <1>t. TypeInv'
    <2>1. pc' \in [Runner -> Recording \cup Leasing
                      \cup {"idle", "read", "begin", "next", "invoke", "migrate", "append", "write", "done", "dead"}]
      BY <1>1, <1>3, <1>4
    <2> QED  BY <1>1, <1>3, <2>1 DEF TypeInv
  <1>l. LockInv'
    BY <1>1, <1>3, <1>7 DEF LockInv
  <1>s. StagedFits'
    <2>1. \A e : NextEvent(Events, e) => (NextEvent(Events, e))'
      BY <1>1, Primes
    <2>2. NextEvent(Events, staged.event) => (NextEvent(Events, staged.event))'
      BY <1>1, <2>1 DEF NextEvent
    <2> QED  BY <1>1, <1>2, <1>3, <1>5, <1>6, <2>2 DEF StagedFits
  <1>e. EventFits'
    <2>1. (Started(Current(seen[storeLock]), NextAttempt(seen[storeLock])))'
            = Started(Current(seen[storeLock]), NextAttempt(seen[storeLock]))
      BY <1>1 DEF Started, Current, NextAttempt, Pending, TaskStatus, InFlight, ReceiptsOf
    <2> QED  BY <1>1, <1>3, <1>6, <2>1 DEF EventFits
  <1>a. AttemptInv'
    <2>1. \A q \in Runner : (AttemptFits(q))'
      BY <1>1, <1>3, <1>8, AttemptKept DEF AttemptInv
    <2> QED  BY <1>1, <1>3, <1>8, <2>1 DEF AttemptInv
  <1>n. SeenInv'
    <2> SUFFICES ASSUME NEW q \in Runner PROVE (SeenFits(q))'
      BY DEF SeenInv
    <2>1. (At(q))' = At(q) /\ seen'[q] = seen[q] /\ SeenFits(q)
      BY <1>1, <1>3, <1>7 DEF SeenInv
    <2> QED  BY <1>2, <2>1, Primes DEF SeenFits
  <1>i. InvokedInv'
    <2>1. \A q \in Runner : pc'[q] = "invoke" => pc[q] = "invoke"
      BY <1>5
    <2> QED  BY <1>1, <1>3, <2>1 DEF InvokedInv, Started, Last
  <1>f. (StartsFit(Events))'
    BY <1>1, Primes DEF IInv
  <1> QED  BY <1>1, <1>t, <1>l, <1>s, <1>e, <1>a, <1>n, <1>i, <1>f DEF IInv

\* The start of an attempt that is in a history stays in it.
LEMMA StartStays ==
    ASSUME NEW es \in Seq(Event), NEW e, NEW x, \E i \in DOMAIN es : es[i] = x
    PROVE  \E i \in DOMAIN Append(es, e) : Append(es, e)[i] = x
  <1>1. PICK i \in DOMAIN es : es[i] = x
    OBVIOUS
  <1>2. i \in DOMAIN Append(es, e) /\ Append(es, e)[i] = x
    BY <1>1
  <1> QED  BY <1>2

\* The event is in the journal, the record follows.
LEMMA AppendingKeeps ==
    ASSUME Parameters, IInv, NEW p \in Runner, AppendJournal(p)
    PROVE  IInv'
  <1>1. /\ pc[p] = "append" /\ record' = record
        /\ events' = Append(events, [event |-> staged.event, revision |-> staged.write.revision])
        /\ pc' = [pc EXCEPT ![p] = "write"]
        /\ UNCHANGED <<storeLock, staged, seen, invoked, supported>>
    BY DEF AppendJournal, Goto, local
  <1>2. /\ storeLock = p /\ staged # None /\ staged \in Staged /\ staged.next = "append"
        /\ staged.from \in Recording /\ staged.event \in Event
        /\ events' \in Seq(Entry) /\ (Carried(record, events))' /\ (CarriedOver(record, events))'
        /\ Events = seen[p] /\ NextEvent(Events, staged.event)
        /\ Events' = Append(Events, staged.event) /\ (StartsFit(Events))'
        /\ Revision' = staged.write.revision /\ Revision' = Revision + 1
    BY <1>1, JournalReads
  <1>3. /\ pc \in [Runner -> Recording \cup Leasing
                      \cup {"idle", "read", "begin", "next", "invoke", "migrate", "append", "write", "done", "dead"}]
        /\ TypeInv /\ LockInv /\ StagedFits /\ EventFits /\ AttemptInv /\ SeenInv /\ InvokedInv
        /\ Events \in Seq(Event)
    BY EventsTypes DEF IInv, TypeInv
  <1>4. pc'[p] = "write" /\ Committing(p) /\ (Committing(p))'
    BY <1>1, <1>3 DEF Committing
  <1>5. Alone(p)
    BY <1>1 DEF Alone
  <1>6. \A q \in Runner : q # p =>
            /\ (SeenFits(q))' /\ ~ Committing(q) /\ (Committing(q))' = Committing(q)
            /\ pc'[q] = pc[q]
            /\ (Attempting(q))' => Attempting(q)
    BY <1>1, <1>4, <1>5, OthersKeep
  <1>7. \A q \in Runner : ~ (Attempting(q))'
    <2> SUFFICES ASSUME NEW q \in Runner, (Attempting(q))' PROVE FALSE
      OBVIOUS
    <2>1. CASE q = p
      BY <1>1, <1>4, <2>1 DEF Attempting
    <2>2. CASE q # p
      <3>1. Attempting(q)
        BY <1>6, <2>2
      <3>2. None \notin Event
        BY DEF Parameters, NoneFits
      <3> QED  BY <1>2, <1>3, <2>2, <3>1, <3>2 DEF AttemptInv
    <2> QED  BY <2>1, <2>2
  <1>t. TypeInv'
    BY <1>1, <1>2, <1>3 DEF TypeInv
  <1>l. LockInv'
    BY <1>1, <1>2, <1>3, <1>4, <1>6 DEF LockInv
  <1>s. StagedFits'
    <2>1. Recorded'
      BY <1>1, <1>2, <1>4 DEF Recorded
    <2>2. None \notin Event
      BY DEF Parameters, NoneFits
    <2>3. /\ staged.write.legacy = <<>> /\ staged.write.lease = record.lease
          /\ staged.write.generation = record.generation
      BY <1>2, <1>3 DEF StagedFits
    <2> QED  BY <1>1, <1>2, <1>4, <2>1, <2>2, <2>3 DEF StagedFits
  <1>e. EventFits'
    <2>1. (Started(Current(seen[storeLock]), NextAttempt(seen[storeLock])))'
            = Started(Current(seen[storeLock]), NextAttempt(seen[storeLock]))
      BY <1>1 DEF Started, Current, NextAttempt, Pending, TaskStatus, InFlight, ReceiptsOf
    <2>2. ASSUME staged.from = "running" PROVE Quiet(Events')
      <3>1. AttemptOn(Events, Last(Events).task) /\ staged.event.kind = "task_receipt"
        BY <1>1, <1>2, <1>3, <2>2 DEF AttemptInv, AttemptFits, Attempting, EventFits
      <3>2. staged.event.task = Current(Events)
        BY <1>2, <3>1 DEF NextEvent, Started
      <3>3. staged.event.task = Last(Events).task
        BY <3>1, <3>2 DEF AttemptOn
      <3> QED  BY <1>2, <1>3, <3>1, <3>3, ReceiptEnds
    <2> QED  BY <1>1, <1>3, <2>1, <2>2, Primes DEF EventFits
  <1>a. AttemptInv'
    BY <1>7 DEF AttemptInv, AttemptFits
  <1>n. SeenInv'
    <2>1. (At(p))' = At(p) /\ seen'[p] = seen[p] /\ SeenFits(p)
      BY <1>1, <1>3, <1>4 DEF At, SeenInv
    <2>2. (SeenFits(p))'
      BY <1>1, <2>1, Primes DEF SeenFits
    <2> QED  BY <1>6, <2>2 DEF SeenInv
  <1>i. InvokedInv'
    <2>1. \A t \in Task, a \in Attempt : (
                /\ invoked[t][a] <= 1
                /\ invoked[t][a] # 0 => \E i \in DOMAIN Events: Events[i] = Started(t, a))'
      <3> SUFFICES ASSUME NEW t \in Task, NEW a \in Attempt
                   PROVE  (/\ invoked[t][a] <= 1
                           /\ invoked[t][a] # 0 => \E i \in DOMAIN Events: Events[i] = Started(t, a))'
        OBVIOUS
      <3>1. /\ invoked[t][a] <= 1
            /\ invoked[t][a] # 0 => \E i \in DOMAIN Events: Events[i] = Started(t, a)
        BY <1>3 DEF InvokedInv
      <3>2. invoked[t][a] # 0 => \E i \in DOMAIN Events': Events'[i] = Started(t, a)
        <4> DEFINE x == Started(t, a)
        <4> HIDE DEF x
        <4>1. (\E i \in DOMAIN Events: Events[i] = x) => \E i \in DOMAIN Events': Events'[i] = x
          <5> DEFINE es == Append(Events, staged.event)
          <5>1. ASSUME \E i \in DOMAIN Events: Events[i] = x
                PROVE  \E i \in DOMAIN es: es[i] = x
            <6>1. Events \in Seq(Event)
              BY <1>3
            <6> QED  BY <5>1, <6>1, StartStays
          <5>2. Events' = es
            BY <1>2
          <5> HIDE DEF es
          <5> QED  BY <5>1, <5>2
        <4> QED  BY <3>1, <4>1 DEF x
      <3>3. (Started(t, a))' = Started(t, a)
        BY DEF Started
      <3> QED  BY <1>1, <3>1, <3>2, <3>3
    <2>2. \A q \in Runner : pc'[q] # "invoke"
      BY <1>7 DEF Attempting
    <2> QED  BY <1>1, <1>3, <2>1, <2>2 DEF InvokedInv
  <1> QED  BY <1>1, <1>2, <1>t, <1>l, <1>s, <1>e, <1>a, <1>n, <1>i DEF IInv

\* A runner leaves the lock: its write fails or it is killed, before or after an event or the
\* record was written.
Leaves(p) ==
    /\ storeLock = p /\ storeLock' = None /\ staged' = None
    /\ \E l \in {"done", "release_failed", "dead"} : pc' = [pc EXCEPT ![p] = l]
    /\ seen' = seen /\ invoked' = invoked /\ supported' = supported
    /\ record' \in Record /\ events' \in Seq(Entry) /\ (Carried(record, events))'
    /\ \/ Events' = Events
       \/ staged.event \in Event /\ NextEvent(Events, staged.event) /\ Events' = Append(Events, staged.event)

LEMMA LeavingKeeps ==
    ASSUME Parameters, IInv, NEW p \in Runner, Leaves(p)
    PROVE  IInv'
  <1>1. /\ storeLock = p /\ storeLock' = None /\ staged' = None
        /\ seen' = seen /\ invoked' = invoked /\ supported' = supported
        /\ record' \in Record /\ events' \in Seq(Entry) /\ (Carried(record, events))'
    BY DEF Leaves
  <1>2. PICK l \in {"done", "release_failed", "dead"} : pc' = [pc EXCEPT ![p] = l]
    BY DEF Leaves
  <1>3. /\ pc \in [Runner -> Recording \cup Leasing
                      \cup {"idle", "read", "begin", "next", "invoke", "migrate", "append", "write", "done", "dead"}]
        /\ TypeInv /\ LockInv /\ AttemptInv /\ InvokedInv /\ Events \in Seq(Event) /\ StartsFit(Events)
        /\ None \notin Runner /\ StagesFit /\ None \notin Event
    BY EventsTypes DEF IInv, TypeInv, Parameters, NoneFits
  <1>4. pc'[p] = l /\ Committing(p) /\ ~ (Committing(p))' /\ ~ (Attempting(p))'
    BY <1>1, <1>2, <1>3 DEF Committing, LockInv, Attempting
  <1>5. Alone(p)
    BY <1>1, <1>2 DEF Alone
  <1>6. \A q \in Runner : q # p =>
            /\ (SeenFits(q))' /\ ~ Committing(q) /\ (Committing(q))' = Committing(q)
            /\ pc'[q] = pc[q]
            /\ (Attempting(q))' => Attempting(q)
    BY <1>1, <1>4, <1>5, OthersKeep
  <1>7. \/ Events' = Events
        \/ /\ \A q \in Runner : ~ (Attempting(q))'
           /\ staged.event \in Event /\ NextEvent(Events, staged.event) /\ Events' = Append(Events, staged.event)
    <2>1. staged.event \in Event => \A q \in Runner : Attempting(q) => q = p
      BY <1>1, <1>3 DEF AttemptInv, LockInv
    <2>2. staged.event \in Event => \A q \in Runner : ~ (Attempting(q))'
      BY <1>4, <1>6, <2>1
    <2> QED  BY <2>2 DEF Leaves
  <1>t. TypeInv'
    BY <1>1, <1>2, <1>3 DEF TypeInv, Leasing
  <1>l. LockInv'
    BY <1>1, <1>3, <1>4, <1>6 DEF LockInv
  <1>s. StagedFits' /\ EventFits'
    BY <1>1 DEF StagedFits, EventFits
  <1>a. AttemptInv'
    <2>1. \A q \in Runner : (AttemptFits(q))'
      <3> SUFFICES ASSUME NEW q \in Runner PROVE (AttemptFits(q))'
        OBVIOUS
      <3>1. CASE (Attempting(q))' => Events' = Events
        <4>1. CASE ~ (Attempting(q))'
          BY <4>1 DEF AttemptFits
        <4>2. CASE Events' = Events /\ q # p
          BY <1>1, <1>3, <1>6, <4>2, AttemptKept DEF AttemptInv
        <4> QED  BY <1>4, <3>1, <4>1, <4>2
      <3> QED  BY <1>7, <3>1
    <2>2. \A q \in Runner : (Attempting(q))' => Attempting(q)
      BY <1>4, <1>6
    <2> QED  BY <1>1, <1>3, <2>1, <2>2 DEF AttemptInv
  <1>n. SeenInv'
    <2>1. (SeenFits(p))'
      BY <1>4 DEF SeenFits, At
    <2> QED  BY <1>6, <2>1 DEF SeenInv
  <1>i. InvokedInv'
    <2>1. \A t \in Task, a \in Attempt : (
                /\ invoked[t][a] <= 1
                /\ invoked[t][a] # 0 => \E i \in DOMAIN Events: Events[i] = Started(t, a))'
      <3> SUFFICES ASSUME NEW t \in Task, NEW a \in Attempt
                   PROVE  (/\ invoked[t][a] <= 1
                           /\ invoked[t][a] # 0 => \E i \in DOMAIN Events: Events[i] = Started(t, a))'
        OBVIOUS
      <3>1. /\ invoked[t][a] <= 1
            /\ invoked[t][a] # 0 => \E i \in DOMAIN Events: Events[i] = Started(t, a)
        BY <1>3 DEF InvokedInv
      <3>2. invoked[t][a] # 0 => \E i \in DOMAIN Events': Events'[i] = Started(t, a)
        BY <1>3, <1>7, <3>1, StartStays
      <3>3. (Started(t, a))' = Started(t, a)
        BY DEF Started
      <3> QED  BY <1>1, <3>1, <3>2, <3>3
    <2>2. ASSUME NEW q \in Runner, pc'[q] = "invoke"
          PROVE  invoked'[Last(Events').task][Last(Events').attempt] = 0
      <3>1. (Attempting(q))' /\ q # p
        BY <1>4, <2>2 DEF Attempting
      <3>2. Events' = Events /\ pc[q] = "invoke"
        BY <1>6, <1>7, <2>2, <3>1
      <3> QED  BY <1>1, <1>3, <3>2 DEF InvokedInv
    <2>3. (Last(Events).task)' = Last(Events').task /\ (Last(Events).attempt)' = Last(Events').attempt
      BY DEF Last
    <2> QED  BY <1>1, <2>1, <2>2, <2>3 DEF InvokedInv
  <1>f. (StartsFit(Events))'
    <2>1. CASE Events' = Events
      BY <1>3, <2>1, Primes
    <2>2. CASE staged.event \in Event /\ NextEvent(Events, staged.event) /\ Events' = Append(Events, staged.event)
      <3>1. StartsFit(Append(Events, staged.event))
        BY <1>3, <2>2, StartsFitAppend
      <3> QED  BY <2>2, <3>1, Primes
    <2> QED  BY <1>7, <2>1, <2>2
  <1> QED  BY <1>1, <1>t, <1>l, <1>s, <1>a, <1>n, <1>i, <1>f DEF IInv

\* The record is written, and the runner goes on with what it has seen and added.
LEMMA WritingKeeps ==
    ASSUME Parameters, IInv, NEW p \in Runner, WriteRecord(p)
    PROVE  IInv'
  <1>1. /\ pc[p] = "write" /\ record' = staged.write /\ events' = events
        /\ seen' = [seen EXCEPT ![p] = IF staged.event = None THEN @ ELSE Append(@, staged.event)]
        /\ pc' = [pc EXCEPT ![p] = AfterWrite(staged.from)]
        /\ storeLock' = None /\ staged' = None /\ invoked' = invoked /\ supported' = supported
    BY DEF WriteRecord, Goto, Unlock
  <1>2. /\ storeLock = p /\ staged # None /\ staged \in Staged
        /\ record' \in Record /\ (Carried(record, events))'
        /\ Events' = Events
        /\ staged.next = "append" => Events = Append(seen[p], staged.event) /\ staged.event \in Event
    BY <1>1, RecordReads
  <1>3. /\ pc \in [Runner -> Recording \cup Leasing
                      \cup {"idle", "read", "begin", "next", "invoke", "migrate", "append", "write", "done", "dead"}]
        /\ seen \in [Runner -> Seq(Event)] /\ Events \in Seq(Event)
        /\ TypeInv /\ LockInv /\ StagedFits /\ EventFits /\ AttemptInv /\ InvokedInv /\ SeenFits(p)
        /\ None \notin Runner /\ StagesFit /\ None \notin Event
    BY EventsTypes DEF IInv, TypeInv, SeenInv, Parameters, NoneFits
  <1> DEFINE l == AfterWrite(staged.from)
             es == IF staged.event = None THEN seen[p] ELSE Append(seen[p], staged.event)
  <1>4. /\ l \in {"next", "started", "invoke", "release", "done"}
        /\ l = "next" <=> staged.from \in {"run_started", "unrun", "release"}
        /\ l = "started" <=> staged.from = "acquire"
        /\ l = "invoke" <=> staged.from = "started"
        /\ l = "release" <=> staged.from = "running"
    BY <1>2 DEF AfterWrite, Staged, Recording, Leasing
  <1>5. pc' = [pc EXCEPT ![p] = l] /\ seen' = [seen EXCEPT ![p] = es]
    BY <1>1
  <1>6. es \in Seq(Event)
    <2>1. staged.event \in Event \cup {None} /\ seen[p] \in Seq(Event)
      BY <1>2, <1>3 DEF Staged
    <2> QED  BY <2>1
  <1>7. /\ staged.from \in Recording => es = Events /\ staged.event \in Event
        /\ staged.from \notin Recording => es = seen[p]
    <2>1. /\ staged.from \in Recording <=> staged.next = "append"
          /\ staged.from \in Recording <=> staged.event # None
      BY <1>2, <1>3 DEF StagedFits
    <2> QED  BY <1>2, <2>1
  <1> HIDE DEF l, es
  <1>8. pc'[p] = l /\ seen'[p] = es /\ Committing(p) /\ ~ (Committing(p))'
    BY <1>1, <1>3, <1>4, <1>5 DEF Committing
  <1>9. Alone(p)
    BY <1>1, <1>3, <1>5 DEF Alone
  <1>10. \A q \in Runner : q # p =>
            /\ (SeenFits(q))' /\ ~ Committing(q) /\ (Committing(q))' = Committing(q)
            /\ pc'[q] = pc[q] /\ seen'[q] = seen[q]
            /\ (Attempting(q))' => Attempting(q)
    BY <1>1, <1>8, <1>9, OthersKeep DEF Alone
  <1>11. (Attempting(p))' => staged.from = "started"
    BY <1>1, <1>3, <1>4, <1>8 DEF Attempting
  <1>12. staged.from = "started" =>
            /\ seen'[p] = Events /\ Last(Events) = staged.event /\ staged.event.kind = "task_started"
            /\ Len(Events) > 0 /\ AttemptOn(Events, staged.event.task)
            /\ \A q \in Runner : Attempting(q) => q = p
    <2> SUFFICES ASSUME staged.from = "started"
                 PROVE  /\ seen'[p] = Events /\ Last(Events) = staged.event /\ staged.event.kind = "task_started"
                        /\ Len(Events) > 0 /\ AttemptOn(Events, staged.event.task)
                        /\ \A q \in Runner : Attempting(q) => q = p
      OBVIOUS
    <2>1. seen'[p] = Events /\ staged.event \in Event /\ staged.next = "append"
      BY <1>2, <1>3, <1>7, <1>8 DEF Recording, StagedFits
    <2>2. Events = Append(seen[p], staged.event) /\ seen[p] \in Seq(Event)
      BY <1>2, <1>3, <2>1
    <2>3. Last(Events) = staged.event /\ Len(Events) > 0
      BY <2>1, <2>2 DEF Last
    <2>4. Runnable(seen[p]) /\ staged.event = Started(Current(seen[p]), NextAttempt(seen[p]))
      BY <1>2, <1>3, <1>8 DEF SeenFits, At, EventFits
    <2>5. AttemptOn(Events, staged.event.task)
      BY <1>3, <2>1, <2>2, <2>4, AttemptAppend
    <2> QED  BY <1>2, <1>3, <2>1, <2>3, <2>4, <2>5 DEF Started, AttemptInv
  <1>t. TypeInv'
    <2>1. pc' \in [Runner -> Recording \cup Leasing
                      \cup {"idle", "read", "begin", "next", "invoke", "migrate", "append", "write", "done", "dead"}]
      BY <1>3, <1>4, <1>5 DEF Recording, Leasing
    <2>2. seen' \in [Runner -> Seq(Event)]
      BY <1>3, <1>5, <1>6
    <2> QED  BY <1>1, <1>2, <1>3, <2>1, <2>2 DEF TypeInv
  <1>l. LockInv'
    BY <1>1, <1>3, <1>8, <1>10 DEF LockInv
  <1>s. StagedFits' /\ EventFits'
    BY <1>1 DEF StagedFits, EventFits
  <1>a. AttemptInv'
    <2>1. (AttemptFits(p))'
      <3>1. AttemptOn(Events, Last(Events).task) => (AttemptOn(Events, Last(Events).task))'
        BY <1>2, Primes
      <3> QED  BY <1>2, <1>11, <1>12, <3>1 DEF AttemptFits, Last
    <2>2. \A q \in Runner : q # p => (AttemptFits(q))'
      BY <1>2, <1>3, <1>10, AttemptKept DEF AttemptInv
    <2>3. \A q, r \in Runner : (Attempting(q))' /\ (Attempting(r))' => q = r
      BY <1>3, <1>10, <1>11, <1>12 DEF AttemptInv
    <2> QED  BY <1>1, <2>1, <2>2, <2>3 DEF AttemptInv
  <1>n. SeenInv'
    <2>1. (At(p))' = l
      BY <1>8 DEF At
    <2>2. l \in {"next", "started", "release"} => Quiet(es)
      <3>1. ASSUME staged.from \in {"run_started", "unrun"} PROVE Quiet(es)
        <4>1. Quiet(seen[p]) /\ staged.event.kind # "task_started"
          BY <1>2, <1>3, <1>8, <3>1 DEF SeenFits, At, EventFits
        <4>2. es = Append(seen[p], staged.event) /\ staged.event \in Event /\ seen[p] \in Seq(Event)
          BY <1>3, <1>7, <3>1 DEF es, Recording
        <4> QED  BY <4>1, <4>2, QuietAppend
      <3>2. ASSUME staged.from \in {"release", "acquire"} PROVE Quiet(es)
        BY <1>2, <1>3, <1>7, <1>8, <3>2 DEF SeenFits, At, Recording
      <3>3. ASSUME staged.from = "running" PROVE Quiet(es)
        <4>1. Recorded
          BY <1>1, <1>2, <1>3, <3>3 DEF Recorded, StagedFits, Recording
        <4>2. Quiet(Events)
          BY <1>2, <1>3, <3>3, <4>1 DEF EventFits
        <4> QED  BY <1>7, <3>3, <4>2 DEF Recording
      <3> QED  BY <1>4, <3>1, <3>2, <3>3
    <2>3. l = "started" => Runnable(es)
      BY <1>2, <1>3, <1>4, <1>7, <1>8 DEF SeenFits, At, Recording
    <2>4. (SeenFits(p))'
      BY <1>4, <1>8, <2>1, <2>2, <2>3, Primes DEF SeenFits
    <2> QED  BY <1>10, <2>4 DEF SeenInv
  <1>i. InvokedInv'
    <2>1. \A t \in Task, a \in Attempt : (
                /\ invoked[t][a] <= 1
                /\ invoked[t][a] # 0 => \E i \in DOMAIN Events: Events[i] = Started(t, a))'
      BY <1>1, <1>2, <1>3 DEF InvokedInv, Started
    <2>2. ASSUME NEW q \in Runner, pc'[q] = "invoke"
          PROVE  invoked[Last(Events).task][Last(Events).attempt] = 0
      <3>1. CASE q = p
        BY <1>2, <1>3, <1>4, <1>8, <1>12, <2>2, <3>1 DEF InvokedInv
      <3>2. CASE q # p
        BY <1>3, <1>10, <2>2, <3>2 DEF InvokedInv
      <3> QED  BY <3>1, <3>2
    <2>3. (Last(Events).task)' = Last(Events).task /\ (Last(Events).attempt)' = Last(Events).attempt
      BY <1>2 DEF Last
    <2> QED  BY <1>1, <2>1, <2>2, <2>3 DEF InvokedInv
  <1>f. (StartsFit(Events))'
    BY <1>2, Primes DEF IInv
  <1> QED  BY <1>2, <1>t, <1>l, <1>s, <1>a, <1>n, <1>i, <1>f DEF IInv

\* A failing write leaves the lock, with nothing, the event or the record written.
LEMMA FailingKeeps ==
    ASSUME Parameters, IInv, NEW p \in Runner, WriteFails(p)
    PROVE  IInv'
  <1>1. /\ Committing(p) /\ storeLock' = None /\ staged' = None
        /\ \/ UNCHANGED <<record, events>>
           \/ /\ pc[p] = "append" /\ record' = record
              /\ events' = Append(events, [event |-> staged.event, revision |-> staged.write.revision])
           \/ pc[p] = "write" /\ record' = staged.write /\ events' = events
        /\ \E l \in {"done", "release_failed", "dead"} : pc' = [pc EXCEPT ![p] = l]
        /\ seen' = seen /\ invoked' = invoked /\ supported' = supported
    BY DEF WriteFails, Committing, Goto, Thrown, Unlock, local
  <1>2. storeLock = p /\ staged # None
    BY <1>1, AtWrite
  <1>3. record \in Record /\ events \in Seq(Entry) /\ Carried(record, events)
    BY DEF IInv, TypeInv
  <1>4. CASE UNCHANGED <<record, events>>
    <2>1. Leaves(p)
      BY <1>1, <1>2, <1>3, <1>4, SameRead DEF Leaves, Carried
    <2> QED  BY <2>1, LeavingKeeps
  <1>5. CASE /\ pc[p] = "append" /\ record' = record
             /\ events' = Append(events, [event |-> staged.event, revision |-> staged.write.revision])
    <2>1. Leaves(p)
      BY <1>1, <1>2, <1>3, <1>5, JournalReads DEF Leaves
    <2> QED  BY <2>1, LeavingKeeps
  <1>6. CASE pc[p] = "write" /\ record' = staged.write /\ events' = events
    <2>1. Leaves(p)
      BY <1>1, <1>2, <1>3, <1>6, RecordReads DEF Leaves
    <2> QED  BY <2>1, LeavingKeeps
  <1> QED  BY <1>1, <1>4, <1>5, <1>6

\* A runner that is killed outside of a write takes nothing with it.
LEMMA KillingKeeps ==
    ASSUME Parameters, IInv, NEW p \in Runner, Kill(p)
    PROVE  IInv'
  <1>1. /\ pc' = [pc EXCEPT ![p] = "dead"] /\ UNCHANGED <<record, events, seen, invoked, supported>>
        /\ IF storeLock = p THEN storeLock' = None /\ staged' = None
           ELSE storeLock' = storeLock /\ staged' = staged
    BY DEF Kill, Goto, Unlock, local
  <1>2. Events' = Events /\ Revision' = Revision
    BY <1>1, SameRead
  <1>3. CASE storeLock = p
    <2>1. Leaves(p)
      BY <1>1, <1>2, <1>3 DEF Leaves, IInv, TypeInv, Carried
    <2> QED  BY <2>1, LeavingKeeps
  <1>4. CASE storeLock # p
    <2>1. /\ pc \in [Runner -> Recording \cup Leasing
                        \cup {"idle", "read", "begin", "next", "invoke", "migrate", "append", "write", "done", "dead"}]
          /\ TypeInv /\ LockInv /\ StagedFits /\ EventFits /\ AttemptInv /\ SeenInv /\ InvokedInv
          /\ storeLock' = storeLock /\ staged' = staged
      BY <1>1, <1>4 DEF IInv, TypeInv
    <2>2. /\ pc'[p] = "dead" /\ ~ Committing(p) /\ ~ (Committing(p))' /\ ~ (Attempting(p))'
          /\ \A q \in Runner : q # p => pc'[q] = pc[q]
      BY <1>1, <1>4, <2>1 DEF LockInv, Committing, Attempting
    <2>3. \A q \in Runner : (Attempting(q))' => Attempting(q)
      <3>1. ASSUME NEW q \in Runner, q # p, (Attempting(q))' PROVE Attempting(q)
        BY <2>1, <2>2, <3>1 DEF Attempting
      <3> QED  BY <2>2, <3>1
    <2>4. staged # None => storeLock \in Runner /\ pc'[storeLock] = pc[storeLock]
      BY <1>4, <2>1, <2>2 DEF LockInv, TypeInv
    <2>t. TypeInv'
      BY <1>1, <2>1 DEF TypeInv
    <2>l. LockInv'
      <3>1. ASSUME NEW q \in Runner PROVE (Committing(q))' = Committing(q)
        BY <2>2 DEF Committing
      <3> QED  BY <2>1, <3>1 DEF LockInv
    <2>s. StagedFits'
      <3>1. \A e : NextEvent(Events, e) => (NextEvent(Events, e))'
        BY <1>2, Primes
      <3>2. NextEvent(Events, staged.event) => (NextEvent(Events, staged.event))'
        BY <2>1, <3>1 DEF NextEvent
      <3> QED  BY <1>1, <1>2, <2>1, <2>4, <3>2 DEF StagedFits, Recorded, CarriedOver
    <2>e. EventFits'
      <3>1. (Started(Current(seen[storeLock]), NextAttempt(seen[storeLock])))'
              = Started(Current(seen[storeLock]), NextAttempt(seen[storeLock]))
        BY <1>1, <2>1 DEF Started, Current, NextAttempt, Pending, TaskStatus, InFlight, ReceiptsOf
      <3> QED  BY <1>1, <1>2, <2>1, <2>4, <3>1, Primes DEF EventFits, Recorded
    <2>a. AttemptInv'
      <3>1. \A q \in Runner : (AttemptFits(q))'
        BY <1>1, <1>2, <2>1, <2>3, AttemptKept DEF AttemptInv
      <3> QED  BY <2>1, <2>3, <3>1 DEF AttemptInv
    <2>n. SeenInv'
      <3> SUFFICES ASSUME NEW q \in Runner PROVE (SeenFits(q))'
        BY DEF SeenInv
      <3>1. CASE q = p
        BY <2>2, <3>1 DEF SeenFits, At
      <3>2. CASE q # p
        <4>1. (At(q))' = At(q) /\ seen'[q] = seen[q] /\ SeenFits(q)
          BY <1>1, <2>1, <2>2, <3>2 DEF SeenInv, At, Committing
        <4> QED  BY <1>1, <4>1, Primes DEF SeenFits
      <3> QED  BY <3>1, <3>2
    <2>i. InvokedInv'
      <3>1. \A q \in Runner : pc'[q] = "invoke" => pc[q] = "invoke"
        BY <2>2
      <3> QED  BY <1>1, <1>2, <2>1, <3>1 DEF InvokedInv, Started, Last
    <2>f. (StartsFit(Events))' /\ (Carried(record, events))'
      BY <1>1, <1>2, Primes DEF IInv, Carried
    <2> QED  BY <2>t, <2>l, <2>s, <2>e, <2>a, <2>n, <2>i, <2>f DEF IInv
  <1> QED  BY <1>3, <1>4

\* The operator takes a lease away while nobody writes.
LEMMA ReconcilingKeeps ==
    ASSUME Parameters, IInv, Reconcile
    PROVE  IInv'
  <1>1. /\ record' \in Record /\ events' \in Seq(Entry) /\ (Carried(record, events))'
        /\ Events' = Events /\ storeLock = None
        /\ UNCHANGED <<storeLock, staged, pc, seen, invoked>>
    BY ReconcileReads
  <1>2. supported' = supported
    BY DEF Reconcile
  <1>3. TypeInv /\ LockInv /\ AttemptInv /\ SeenInv /\ InvokedInv /\ staged = None
    BY <1>1 DEF IInv, LockInv
  <1>4. \A q \in Runner : (At(q))' = At(q) /\ (Attempting(q))' = Attempting(q) /\ (Committing(q))' = Committing(q)
    BY <1>1 DEF At, Attempting, Committing
  <1>t. TypeInv'
    BY <1>1, <1>3 DEF TypeInv
  <1>l. LockInv'
    BY <1>1, <1>3, <1>4 DEF LockInv
  <1>s. StagedFits' /\ EventFits'
    BY <1>1, <1>3 DEF StagedFits, EventFits
  <1>a. AttemptInv'
    <2>1. \A q \in Runner : (AttemptFits(q))'
      BY <1>1, <1>3, <1>4, AttemptKept DEF AttemptInv
    <2> QED  BY <1>1, <1>3, <1>4, <2>1 DEF AttemptInv
  <1>n. SeenInv'
    <2> SUFFICES ASSUME NEW q \in Runner PROVE (SeenFits(q))'
      BY DEF SeenInv
    <2>1. (At(q))' = At(q) /\ seen'[q] = seen[q] /\ SeenFits(q)
      BY <1>1, <1>3, <1>4 DEF SeenInv
    <2> QED  BY <1>2, <2>1, Primes DEF SeenFits
  <1>i. InvokedInv'
    BY <1>1, <1>3 DEF InvokedInv, Started, Last
  <1>f. (StartsFit(Events))'
    BY <1>1, Primes DEF IInv
  <1> QED  BY <1>1, <1>t, <1>l, <1>s, <1>a, <1>n, <1>i, <1>f DEF IInv

\* Nothing changes but what no part of the invariant is about.
LEMMA StutterKeeps ==
    ASSUME IInv, UNCHANGED vars
    PROVE  IInv'
  <1>1. UNCHANGED <<record, events, storeLock, supported, pc, seen, staged, invoked>>
    BY DEF vars
  <1>2. Events' = Events /\ Revision' = Revision
    BY <1>1, SameRead
  <1>3. TypeInv' /\ LockInv' /\ (Carried(record, events))'
    BY <1>1 DEF IInv, TypeInv, LockInv, Committing, Carried
  <1>4. \A q \in Runner : (At(q))' = At(q) /\ (Attempting(q))' = Attempting(q)
    BY <1>1 DEF At, Attempting, Committing
  <1>s. StagedFits'
    <2>1. \A e : NextEvent(Events, e) => (NextEvent(Events, e))'
      BY <1>2, Primes
    <2>2. NextEvent(Events, staged.event) => (NextEvent(Events, staged.event))'
      BY <1>1, <2>1 DEF NextEvent
    <2> QED  BY <1>1, <1>2, <2>2 DEF IInv, StagedFits, Recorded, CarriedOver
  <1>e. EventFits'
    <2>1. (Started(Current(seen[storeLock]), NextAttempt(seen[storeLock])))'
            = Started(Current(seen[storeLock]), NextAttempt(seen[storeLock]))
      BY <1>1 DEF Started, Current, NextAttempt, Pending, TaskStatus, InFlight, ReceiptsOf
    <2> QED  BY <1>1, <1>2, <2>1, Primes DEF IInv, EventFits, Recorded
  <1>a. AttemptInv'
    <2>1. \A q \in Runner : (AttemptFits(q))'
      BY <1>1, <1>2, <1>4, AttemptKept DEF IInv, AttemptInv
    <2> QED  BY <1>1, <1>4, <2>1 DEF IInv, AttemptInv
  <1>n. SeenInv'
    <2> SUFFICES ASSUME NEW q \in Runner PROVE (SeenFits(q))'
      BY DEF SeenInv
    <2>1. (At(q))' = At(q) /\ seen'[q] = seen[q] /\ SeenFits(q)
      BY <1>1, <1>4 DEF IInv, SeenInv
    <2> QED  BY <1>1, <2>1, Primes DEF SeenFits
  <1>i. InvokedInv'
    BY <1>1, <1>2 DEF IInv, InvokedInv, Started, Last
  <1>f. (StartsFit(Events))'
    BY <1>2, Primes DEF IInv
  <1> QED  BY <1>3, <1>s, <1>e, <1>a, <1>n, <1>i, <1>f DEF IInv

\* The invariant holds at first, of a new record and of an old one.
LEMMA Initially ==
    ASSUME Parameters, Init
    PROVE  IInv
  <1>1. /\ events = <<>> /\ storeLock = None /\ staged = None
        /\ pc = [p \in Runner |-> "idle"] /\ seen = [p \in Runner |-> <<>>]
        /\ invoked = [t \in Task |-> [a \in Attempt |-> 0]]
        /\ None \notin Runner
    BY DEF Init, Parameters, NoneFits
  <1>2. PICK es, v, g, l : record = [revision |-> v, legacy |-> es, generation |-> g, lease |-> l]
            /\ \/ v = 1 /\ es = <<>> /\ g = 0 /\ l = None
               \/ /\ v = 3 /\ es = <<Mark("run_started"), Receipt(1, 1, "passed")>> /\ g = 1
                  /\ l = None \/ \E p \in Runner : l = LegacyLease(p)
    <2>1. CASE record = NewRecord
      BY <2>1 DEF NewRecord
    <2>2. CASE record \in LegacyRecords
      <3>1. PICK g \in {1}, l \in {None} \cup {LegacyLease(p) : p \in Runner} :
                record = [revision |-> 3, legacy |-> <<Mark("run_started"), Receipt(1, 1, "passed")>>,
                          generation |-> g, lease |-> l]
        BY <2>2 DEF LegacyRecords
      <3>2. g = 1 /\ (l = None \/ \E p \in Runner : l = LegacyLease(p))
        OBVIOUS
      <3> QED  BY <3>1, <3>2
    <2> QED  BY <2>1, <2>2 DEF Init
  <1>3. Mark("run_started") \in Event /\ Mark("run_started").kind = "run_started"
    BY DEF Mark, Event
  <1>4. Receipt(1, 1, "passed") \in Event /\ Receipt(1, 1, "passed").kind = "task_receipt"
    BY DEF Receipt, Event, Outcome
  <1>5. es \in Seq(Event) /\ \A i \in DOMAIN es : es[i].kind # "task_started"
    <2>1. CASE es = <<>>
      BY <2>1
    <2>2. CASE es = <<Mark("run_started"), Receipt(1, 1, "passed")>>
      <3> DEFINE m == Mark("run_started")
                 c == Receipt(1, 1, "passed")
      <3> HIDE DEF m, c
      <3>1. m \in Event /\ c \in Event /\ m.kind # "task_started" /\ c.kind # "task_started"
        BY <1>3, <1>4 DEF m, c
      <3>2. es = <<m, c>>
        BY <2>2 DEF m, c
      <3>3. \A i \in DOMAIN es : es[i] = m \/ es[i] = c
        BY <3>2
      <3>4. es \in Seq(Event)
        BY <3>1, <3>2
      <3> QED  BY <3>1, <3>3, <3>4
    <2> QED  BY <1>2, <2>1, <2>2
  <1>6. l \in Lease \cup {None}
    <2>1. \A p \in Runner : LegacyLease(p) \in Lease
      BY DEF LegacyLease, Lease
    <2> QED  BY <1>2, <2>1
  <1>7. record \in Record
    BY <1>2, <1>5, <1>6 DEF Record
  <1>8. Events = es
    BY <1>1, <1>2 DEF Events, ReadEvents, FromJournal
  <1>t. TypeInv
    BY <1>1, <1>7 DEF TypeInv
  <1>l. LockInv
    BY <1>1 DEF LockInv, Committing
  <1>c. Carried(record, events)
    <2>1. Len(es) < v
      <3>1. CASE es = <<>> /\ v = 1
        BY <3>1
      <3>2. CASE es = <<Mark("run_started"), Receipt(1, 1, "passed")>> /\ v = 3
        <4> DEFINE m == Mark("run_started")
                   c == Receipt(1, 1, "passed")
        <4> HIDE DEF m, c
        <4>1. es = <<m, c>> /\ v = 3
          BY <3>2 DEF m, c
        <4> QED  BY <4>1
      <3> QED  BY <1>2, <3>1, <3>2
    <2>2. record.legacy = es /\ record.revision = v /\ Len(events) = 0
      BY <1>1, <1>2
    <2>3. \A i \in DOMAIN es : i > 0
      BY <1>5
    <2> QED  BY <2>1, <2>2, <2>3 DEF Carried
  <1>s. StagedFits /\ EventFits
    BY <1>1 DEF StagedFits, EventFits
  <1>a. AttemptInv
    BY <1>1 DEF AttemptInv, AttemptFits, Attempting
  <1>n. SeenInv
    BY <1>1 DEF SeenInv, SeenFits, At, Committing
  <1>i. InvokedInv
    BY <1>1 DEF InvokedInv
  <1>f. StartsFit(Events)
    BY <1>5, <1>8 DEF StartsFit
  <1> QED  BY <1>t, <1>l, <1>c, <1>s, <1>a, <1>n, <1>i, <1>f DEF IInv

\* No step breaks the invariant.
LEMMA StepKeeps ==
    ASSUME Parameters, IInv, [Next]_vars
    PROVE  IInv'
  <1>1. CASE UNCHANGED vars
    BY <1>1, StutterKeeps
  <1>2. CASE Reconcile
    BY <1>2, ReconcilingKeeps
  <1>3. ASSUME Next, NEW p \in Runner, Run(p) \/ AdapterFails(p) \/ WriteFails(p) \/ Kill(p)
        PROVE  IInv'
    <2>0. supported' = supported
      BY <1>3, SupportStays
    <2>1. CASE Thinks(p)
      BY <2>0, <2>1, ThinkingKeeps
    <2>2. CASE StartAppend(p) \/ StartAcquire(p) \/ StartRelease(p)
      <3>1. PICK s : Begins(p, s)
        BY <2>2, BeginsAppend, BeginsAcquire, BeginsRelease
      <3> QED  BY <2>0, <3>1, BeginningKeeps
    <2>3. CASE Migrate(p)
      BY <2>3, MigratingKeeps
    <2>4. CASE AppendJournal(p)
      BY <2>4, AppendingKeeps
    <2>5. CASE WriteRecord(p)
      BY <2>5, WritingKeeps
    <2>6. CASE WriteFails(p)
      BY <2>6, FailingKeeps
    <2>7. CASE Kill(p)
      BY <2>7, KillingKeeps
    <2> QED  BY <1>3, <2>1, <2>2, <2>3, <2>4, <2>5, <2>6, <2>7 DEF Run, Thinks
  <1> QED  BY <1>1, <1>2, <1>3 DEF Next

-----------------------------------------------------------------------------
(* What it is for.                                                         *)

\* The invariant says of the attempts what it is to say.
LEMMA OnceFollows ==
    ASSUME Parameters, IInv
    PROVE  InvokedOnce
  <1>1. /\ InvokedInv /\ AttemptInv /\ StartsFit(Events) /\ Events \in Seq(Event)
        /\ invoked \in [Task -> [Attempt -> Nat]]
    BY EventsTypes DEF IInv, TypeInv
  <1>2. ASSUME NEW t \in Task, NEW a \in Attempt, invoked[t][a] = 1
        PROVE  /\ \E i \in DOMAIN Events: Events[i] = Started(t, a)
               /\ a <= Stages[t].max
               /\ \A u \in Stages[t].needs: TaskStatus(Events, u) = "passed"
    <2>1. PICK i \in DOMAIN Events : Events[i] = Started(t, a)
      BY <1>1, <1>2 DEF InvokedInv
    <2>2. StartFits(Events, t, a)
      BY <1>1, <2>1 DEF StartsFit, Started
    <2>3. Stages[t].max \in Nat
      BY DEF Parameters, StagesFit, Attempt
    <2> QED  BY <2>1, <2>2, <2>3 DEF StartFits, Attempt
  <1> DEFINE R == {p \in Runner: pc[p] = "running"}
  <1>3. \A p, q \in R : p = q
    BY <1>1 DEF AttemptInv, Attempting
  <1>4. Cardinality(R) <= 1
    <2> HIDE DEF R
    <2>1. CASE R = {}
      BY <2>1, FS_EmptySet
    <2>2. CASE R # {}
      <3>1. PICK p : R = {p}
        BY <1>3, <2>2
      <3> QED  BY <3>1, FS_Singleton
    <2> QED  BY <2>1, <2>2
  <1>5. \A t \in Task, a \in Attempt : invoked[t][a] <= 1
    BY <1>1 DEF InvokedInv
  <1> QED  BY <1>2, <1>4, <1>5 DEF InvokedOnce

\* What is read only grows, and with it the revision.
LEMMA Grows ==
    ASSUME NEW es \in Seq(Event)
    PROVE  IsPrefix(es, es) /\ \A e : IsPrefix(es, Append(es, e))
  <1>1. SubSeq(es, 1, Len(es)) = es /\ \A e : SubSeq(Append(es, e), 1, Len(es)) = es
    OBVIOUS
  <1>2. /\ Len(es) \in Nat /\ \A e : Len(Append(es, e)) = Len(es) + 1
    OBVIOUS
  <1> QED  BY <1>1, <1>2 DEF IsPrefix

LEMMA FencesFollow ==
    ASSUME Parameters, IInv, [Next]_vars
    PROVE  RevisionFences
  <1>1. Events \in Seq(Event) /\ Revision \in Nat /\ StagedFits /\ IsPrefix(Events, Events)
    BY EventsTypes, Grows DEF IInv
  <1>2. ASSUME Events' = Events, record'.lease = record.lease PROVE RevisionFences
    BY <1>1, <1>2 DEF RevisionFences
  <1>3. ASSUME Events' = Events, record'.lease = None, Revision' = Revision + 1 PROVE RevisionFences
    BY <1>1, <1>3 DEF RevisionFences
  <1>4. ASSUME NEW p \in Runner, pc[p] = "append", record' = record,
               events' = Append(events, [event |-> staged.event, revision |-> staged.write.revision])
        PROVE  RevisionFences
    <2>1. Events' = Append(Events, staged.event) /\ Revision' = Revision + 1
      BY <1>4, JournalReads
    <2>2. IsPrefix(Events, Events')
      BY <1>1, <2>1, Grows
    <2> QED  BY <1>1, <1>4, <2>1, <2>2 DEF RevisionFences
  <1>5. ASSUME NEW p \in Runner, pc[p] = "write", record' = staged.write, events' = events
        PROVE  RevisionFences
    <2>1. /\ storeLock = p /\ staged # None /\ Events' = Events
          /\ staged.next = "write" => Revision' = Revision + 1
          /\ staged.next \in {"append", "write"}
      BY <1>5, RecordReads DEF Staged
    <2>2. /\ staged.next = "append" => record'.lease = record.lease
          /\ staged.next = "write" =>
                record'.lease = None \/ record'.generation > record.generation
      BY <1>1, <1>5, <2>1 DEF StagedFits
    <2> QED  BY <1>1, <2>1, <2>2 DEF RevisionFences
  <1>6. ASSUME record' = record, events' = events PROVE RevisionFences
    BY <1>2, <1>6, SameRead
  <1>7. CASE UNCHANGED vars
    BY <1>6, <1>7 DEF vars
  <1>8. CASE Reconcile
    BY <1>3, <1>8, ReconcileReads
  <1>9. ASSUME NEW p \in Runner, Run(p) \/ AdapterFails(p) \/ WriteFails(p) \/ Kill(p)
        PROVE  RevisionFences
    <2>1. CASE Thinks(p)
      BY <1>6, <2>1, ThinkingStays DEF IInv
    <2>2. CASE StartAppend(p) \/ StartAcquire(p) \/ StartRelease(p)
      BY <1>6, <2>2 DEF StartAppend, StartAcquire, StartRelease
    <2>3. CASE Migrate(p)
      BY <1>2, <2>3, MigrateReads
    <2>4. CASE AppendJournal(p)
      BY <1>4, <2>4 DEF AppendJournal
    <2>5. CASE WriteRecord(p)
      BY <1>5, <2>5 DEF WriteRecord
    <2>6. CASE WriteFails(p)
      BY <1>4, <1>5, <1>6, <2>6 DEF WriteFails
    <2>7. CASE Kill(p)
      BY <1>6, <2>7 DEF Kill
    <2> QED  BY <1>9, <2>1, <2>2, <2>3, <2>4, <2>5, <2>6, <2>7 DEF Run, Thinks
  <1> QED  BY <1>7, <1>8, <1>9 DEF Next

\* In every behaviour of any plan, an attempt is started once, recorded and in order, and one
\* runner at most has Cursor at work (runWorkflow, cli/orchestration.ts).
THEOREM StartsOnce == ASSUME Parameters PROVE Spec => []InvokedOnce
  <1>1. Init => IInv
    BY Initially
  <1>2. IInv /\ [Next]_vars => IInv'
    BY StepKeeps
  <1>3. IInv => InvokedOnce
    BY OnceFollows
  <1> QED  BY <1>1, <1>2, <1>3, PTL DEF Spec

\* In every behaviour, what read() returns changes with a higher revision, its events only
\* grow, and no generation of a lease comes back (WorkflowPersistenceStore).
THEOREM RevisionsFence == ASSUME Parameters PROVE Spec => [][RevisionFences]_vars
  <1>1. Init => IInv
    BY Initially
  <1>2. IInv /\ [Next]_vars => IInv'
    BY StepKeeps
  <1>3. IInv /\ [Next]_vars => RevisionFences
    BY FencesFollow
  <1> QED  BY <1>1, <1>2, <1>3, PTL DEF Spec

-----------------------------------------------------------------------------
(* A set of numbers has a least element.                                   *)

LEMMA Least ==
    ASSUME NEW T \in SUBSET Nat, T # {}
    PROVE  \E x \in T: \A y \in T: x <= y
  <1> DEFINE Down == {0 .. x: x \in T}
  <1>1. Down \subseteq FiniteSubsetsOf(Nat) /\ Down # {}
    <2>1. ASSUME NEW x \in T PROVE 0 .. x \in FiniteSubsetsOf(Nat)
      <3>1. x \in Int /\ x \in Nat
        OBVIOUS
      <3>2. IsFiniteSet(0 .. x)
        BY <3>1, FS_Interval
      <3>  QED  BY <3>1, <3>2 DEF FiniteSubsetsOf
    <2>  QED  BY <2>1
  <1>2. IsWellFoundedOn(StrictSubsetOrdering(Nat), FiniteSubsetsOf(Nat))
    BY FS_StrictSubsetOrderingWellFounded
  <1>3. PICK d \in Down: \A e \in Down: <<e, d>> \notin StrictSubsetOrdering(Nat)
    <2> HIDE DEF Down
    <2>  QED  BY <1>1, <1>2, WFMin
  <1>4. PICK x \in T: d = 0 .. x
    OBVIOUS
  <1>5. ASSUME NEW y \in T PROVE x <= y
    <2>1. <<0 .. y, 0 .. x>> \notin StrictSubsetOrdering(Nat)
      BY <1>3, <1>4
    <2>2. 0 .. y \in SUBSET Nat /\ 0 .. x \in SUBSET Nat /\ x \in Nat /\ y \in Nat
      OBVIOUS
    <2>3. CASE y < x
      <3>1. 0 .. y \subseteq 0 .. x
        BY <2>2, <2>3
      <3>2. x \in 0 .. x /\ x \notin 0 .. y
        BY <2>2, <2>3
      <3>3. <<0 .. y, 0 .. x>> \in StrictSubsetOrdering(Nat)
        BY <2>2, <3>1, <3>2 DEF StrictSubsetOrdering
      <3>  QED  BY <2>1, <3>3
    <2>  QED  BY <2>2, <2>3
  <1>  QED  BY <1>5

-----------------------------------------------------------------------------
(* Continuation.  As long as no write without the lock undid a             *)
(* transaction, the projection tells what was granted: how many            *)
(* continuations, the event and the epoch of the last, and at least as     *)
(* many failures as end the grants.                                        *)

\* The catalog's profiles allow at least one failure.
ContinuationParameters == MaxContinuations \in Nat /\ Threshold \in Nat \ {0} /\ Cn!NoneFits

\* The last k of the grants s, and no more, have the fingerprint f.
Ends(s, f, k) ==
    /\ k \in 0 .. Len(s)
    /\ \A i \in Len(s) - k + 1 .. Len(s): s[i].print = f
    /\ k < Len(s) => s[Len(s) - k].print # f

LEMMA EndsUnique ==
    ASSUME NEW S, NEW s \in Seq(S), NEW f, NEW j, NEW k, Ends(s, f, j), Ends(s, f, k)
    PROVE  j = k
  <1>1. Len(s) \in Nat /\ j \in 0 .. Len(s) /\ k \in 0 .. Len(s)
    BY LenProperties DEF Ends
  <1>2. ASSUME j < k PROVE FALSE
    <2>1. Len(s) - j \in Len(s) - k + 1 .. Len(s) /\ j < Len(s)
      BY <1>1, <1>2
    <2>  QED  BY <2>1 DEF Ends
  <1>3. ASSUME k < j PROVE FALSE
    <2>1. Len(s) - k \in Len(s) - j + 1 .. Len(s) /\ k < Len(s)
      BY <1>1, <1>3
    <2>  QED  BY <2>1 DEF Ends
  <1>  QED  BY <1>1, <1>2, <1>3

LEMMA EndsExists ==
    ASSUME NEW S, NEW s \in Seq(S), NEW f
    PROVE  \E k \in 0 .. Len(s): Ends(s, f, k)
  <1> DEFINE T == {k \in 0 .. Len(s): k < Len(s) => s[Len(s) - k].print # f}
  <1>1. Len(s) \in Nat
    BY LenProperties
  <1>2. Len(s) \in T /\ T \in SUBSET Nat
    BY <1>1
  <1>3. PICK k \in T: \A j \in T: k <= j
    <2> HIDE DEF T
    <2>  QED  BY <1>2, Least
  <1>4. ASSUME NEW i \in Len(s) - k + 1 .. Len(s) PROVE s[i].print = f
    <2>1. Len(s) - i \in 0 .. Len(s) /\ Len(s) - i < k /\ Len(s) - i < Len(s) /\ Len(s) - (Len(s) - i) = i
      BY <1>1
    <2>2. Len(s) - i \notin T
      BY <1>1, <1>3, <2>1
    <2>  QED  BY <2>1, <2>2
  <1>5. Ends(s, f, k)
    BY <1>4 DEF Ends
  <1>  QED  BY <1>5

LEMMA StreakEnds ==
    ASSUME NEW S, NEW s \in Seq(S), NEW f
    PROVE  Ends(s, f, Cn!Streak(s, f))
  <1> DEFINE P(k) == /\ \A i \in Len(s) - k + 1 .. Len(s): s[i].print = f
                     /\ k < Len(s) => s[Len(s) - k].print # f
  <1>1. \E k \in 0 .. Len(s): P(k)
    BY EndsExists DEF Ends
  <1>2. Cn!Streak(s, f) = CHOOSE k \in 0 .. Len(s): P(k)
    BY DEF Cn!Streak
  <1>3. Cn!Streak(s, f) \in 0 .. Len(s) /\ P(Cn!Streak(s, f))
    <2> HIDE DEF P
    <2>  QED  BY <1>1, <1>2
  <1>  QED  BY <1>3 DEF Ends

LEMMA StreakAppends ==
    ASSUME NEW S, NEW s \in Seq(S), NEW g \in S, NEW f
    PROVE  Cn!Streak(Append(s, g), f) = IF g.print = f THEN Cn!Streak(s, f) + 1 ELSE 0
  <1> DEFINE t == Append(s, g)
  <1> DEFINE k == Cn!Streak(s, f)
  <1>1. /\ t \in Seq(S) /\ Len(t) = Len(s) + 1 /\ Len(s) \in Nat
        /\ t[Len(s) + 1] = g /\ \A i \in 1 .. Len(s): t[i] = s[i]
    BY AppendProperties, LenProperties
  <1>2. Ends(s, f, k)
    BY StreakEnds
  <1>3. Ends(t, f, Cn!Streak(t, f))
    BY <1>1, StreakEnds
  <1>4. k \in 0 .. Len(s)
    BY <1>2 DEF Ends
  <1> HIDE DEF t, k
  <1>5. CASE g.print = f
    <2>1. \A i \in Len(t) - (k + 1) + 1 .. Len(t): t[i].print = f
      <3>1. ASSUME NEW i \in Len(t) - (k + 1) + 1 .. Len(t), i # Len(t) PROVE t[i].print = f
        <4>1. i \in Len(s) - k + 1 .. Len(s) /\ i \in 1 .. Len(s)
          BY <1>1, <1>4, <3>1
        <4>  QED  BY <1>1, <1>2, <4>1 DEF Ends
      <3>  QED  BY <1>1, <1>5, <3>1
    <2>2. k + 1 < Len(t) => t[Len(t) - (k + 1)].print # f
      <3>1. ASSUME k + 1 < Len(t) PROVE t[Len(t) - (k + 1)].print # f
        <4>1. k < Len(s) /\ Len(t) - (k + 1) = Len(s) - k /\ Len(s) - k \in 1 .. Len(s)
          BY <1>1, <1>4, <3>1
        <4>  QED  BY <1>1, <1>2, <4>1 DEF Ends
      <3>  QED  BY <3>1
    <2>3. Ends(t, f, k + 1)
      BY <1>1, <1>4, <2>1, <2>2 DEF Ends
    <2>4. Cn!Streak(t, f) = k + 1
      BY <1>1, <1>3, <2>3, EndsUnique
    <2>  QED  BY <1>5, <2>4 DEF t, k
  <1>6. CASE g.print # f
    <2>1. Ends(t, f, 0)
      BY <1>1, <1>6 DEF Ends
    <2>2. Cn!Streak(t, f) = 0
      BY <1>1, <1>3, <2>1, EndsUnique
    <2>  QED  BY <1>6, <2>2 DEF t
  <1>  QED  BY <1>5, <1>6

LEMMA StreakOfNone ==
    ASSUME NEW f
    PROVE  Cn!Streak(<<>>, f) = 0
  <1>1. <<>> \in Seq({}) /\ Len(<<>>) = 0
    BY EmptySeq
  <1>2. Ends(<<>>, f, Cn!Streak(<<>>, f))
    BY <1>1, StreakEnds
  <1>  QED  BY <1>1, <1>2 DEF Ends

LEMMA PrefixesOfAppend ==
    ASSUME NEW S, NEW s \in Seq(S), NEW g \in S
    PROVE  /\ \A n \in 1 .. Len(s): SubSeq(Append(s, g), 1, n) = SubSeq(s, 1, n)
           /\ SubSeq(Append(s, g), 1, Len(s) + 1) = Append(s, g)
  <1>1. /\ Append(s, g) \in Seq(S) /\ Len(Append(s, g)) = Len(s) + 1 /\ Len(s) \in Nat
        /\ \A i \in 1 .. Len(s): Append(s, g)[i] = s[i]
    BY AppendProperties, LenProperties
  <1>2. ASSUME NEW n \in 1 .. Len(s) PROVE SubSeq(Append(s, g), 1, n) = SubSeq(s, 1, n)
    <2>1. SubSeq(s, 1, n) = [i \in 1 .. n |-> s[i]]
      BY <1>1
    <2>2. SubSeq(Append(s, g), 1, n) = [i \in 1 .. n |-> Append(s, g)[i]]
      BY <1>1
    <2>3. \A i \in 1 .. n: Append(s, g)[i] = s[i]
      BY <1>1
    <2>  QED  BY <2>1, <2>2, <2>3
  <1>3. SubSeq(Append(s, g), 1, Len(s) + 1) = Append(s, g)
    BY <1>1, SubSeqFull
  <1>  QED  BY <1>2, <1>3

\* What was granted.
Continuation == [event: StopEvent, print: Fingerprint \cup {None}, epoch: Nat]

Hooked(h) ==
    /\ stopper[h].pc \in {"idle", "evidence", "transact", "resume"}
    /\ stopper[h].pc \in {"evidence", "resume"} => stopper[h].copy \in Cn!Projection
    /\ stopper[h].pc = "transact" => stopper[h].event \in StopEvent /\ stopper[h].print \in Fingerprint \cup {None}

ContinuationTyped ==
    /\ proj \in Cn!Projection /\ grants \in Seq(Continuation) /\ raced \in BOOLEAN
    /\ DOMAIN stopper = Hook /\ \A h \in Hook: Hooked(h)

Stops == routing \in {"human_blocker", "terminal_failure"}

Consecutive ==
    \A i \in 1 .. Len(grants) - 1:
        grants[i].event # grants[i + 1].event /\ grants[i].epoch <= grants[i + 1].epoch

PrefixesBounded ==
    \A n \in DOMAIN grants, f \in Fingerprint: Cn!Streak(SubSeq(grants, 1, n), f) < Threshold

Remembered ==
    /\ Len(grants) = proj.consumed /\ proj.consumed <= MaxContinuations
    /\ grants # <<>> => /\ grants[Len(grants)].event = proj.event
                        /\ grants[Len(grants)].epoch <= proj.epoch

FailuresRemembered ==
    \A f \in Fingerprint: Cn!Streak(grants, f) <= IF f = proj.print THEN proj.fails ELSE 0

ContinuationInv ==
    /\ ContinuationTyped
    /\ ~ raced => /\ Remembered
                  /\ Consecutive
                  /\ Stops => PrefixesBounded /\ FailuresRemembered

LEMMA ContinuationStarts ==
    ASSUME ContinuationParameters, Cn!Init
    PROVE  ContinuationInv
  <1>1. grants = <<>> /\ Len(grants) = 0 /\ DOMAIN grants = {} /\ grants \in Seq(Continuation)
    BY EmptySeq DEF Cn!Init
  <1>2. /\ proj \in [status: {"active"}, epoch: {1}, consumed: {0}, event: {None}, print: {None}, fails: {0},
                     cancel: {FALSE}, work: {"open"}, phase: {"iterative", "stuck"}]
    BY DEF Cn!Init
  <1>3. proj \in Cn!Projection /\ proj.consumed = 0 /\ proj.fails = 0
    <2>1. PICK p \in {"iterative", "stuck"}:
            proj = [status |-> "active", epoch |-> 1, consumed |-> 0, event |-> None, print |-> None, fails |-> 0,
                    cancel |-> FALSE, work |-> "open", phase |-> p]
      BY <1>2
    <2>2. p \in Cn!Phase /\ "active" \in Cn!Status /\ "open" \in Cn!Work
      BY DEF Cn!Status, Cn!Work, Cn!Phase
    <2>3. None \in StopEvent \cup {None} /\ None \in Fingerprint \cup {None} /\ FALSE \in BOOLEAN /\ 0 \in Nat /\ 1 \in Nat
      OBVIOUS
    <2>  QED  BY <2>1, <2>2, <2>3 DEF Cn!Projection
  <1>4. DOMAIN stopper = Hook /\ \A h \in Hook: Hooked(h)
    BY DEF Cn!Init, Cn!Rest, Hooked
  <1>5. Remembered /\ Consecutive /\ PrefixesBounded
    BY <1>1, <1>3 DEF ContinuationParameters, Remembered, Consecutive, PrefixesBounded
  <1>6. FailuresRemembered
    BY <1>1, <1>3, StreakOfNone DEF FailuresRemembered
  <1>7. raced = FALSE
    BY DEF Cn!Init
  <1>  QED  BY <1>1, <1>3, <1>4, <1>5, <1>6, <1>7 DEF ContinuationInv, ContinuationTyped

LEMMA HookMoves ==
    ASSUME DOMAIN stopper = Hook, \A i \in Hook: Hooked(i), NEW h \in Hook, NEW r, stopper' = [stopper EXCEPT ![h] = r],
           r.pc \in {"idle", "evidence", "transact", "resume"},
           r.pc \in {"evidence", "resume"} => r.copy \in Cn!Projection,
           r.pc = "transact" => r.event \in StopEvent /\ r.print \in Fingerprint \cup {None}
    PROVE  DOMAIN stopper' = Hook /\ \A i \in Hook: Hooked(i)'
  <1>1. DOMAIN stopper' = Hook /\ stopper'[h] = r /\ \A i \in Hook: i # h => stopper'[i] = stopper[i]
    OBVIOUS
  <1>  QED  BY <1>1 DEF Hooked

LEMMA HookRests ==
    ASSUME DOMAIN stopper = Hook, \A i \in Hook: Hooked(i), NEW h \in Hook, stopper' = [stopper EXCEPT ![h] = Cn!Rest]
    PROVE  DOMAIN stopper' = Hook /\ \A i \in Hook: Hooked(i)'
  BY HookMoves DEF Cn!Rest

\* What the transactions remember is kept by a step that grants nothing and loses nothing.
LEMMA NothingGranted ==
    ASSUME ContinuationInv, proj' \in Cn!Projection, grants' = grants, routing' = routing, raced' \in BOOLEAN,
           raced => raced', DOMAIN stopper' = Hook /\ \A h \in Hook: Hooked(h)',
           ~ raced' => /\ proj'.consumed = proj.consumed /\ proj'.event = proj.event
                       /\ proj.epoch <= proj'.epoch
                       /\ proj'.print = proj.print /\ proj'.fails = proj.fails
    PROVE  ContinuationInv'
  <1>1. ContinuationTyped'
    BY DEF ContinuationInv, ContinuationTyped
  <1>2. ASSUME ~ raced' PROVE Remembered' /\ Consecutive' /\ (Stops => PrefixesBounded /\ FailuresRemembered)'
    <2>1. Remembered /\ Consecutive /\ (Stops => PrefixesBounded /\ FailuresRemembered)
      BY <1>2 DEF ContinuationInv, ContinuationTyped
    <2>2. Consecutive' /\ (Stops => PrefixesBounded)'
      BY <2>1 DEF Consecutive, Stops, PrefixesBounded
    <2>3. (Stops => FailuresRemembered)'
      BY <1>2, <2>1 DEF FailuresRemembered, Stops
    <2>4. Len(grants) = proj'.consumed /\ proj'.consumed <= MaxContinuations
      BY <1>2, <2>1 DEF Remembered
    <2>5. ASSUME grants # <<>>
          PROVE  grants[Len(grants)].event = proj'.event /\ grants[Len(grants)].epoch <= proj'.epoch
      <3>1. grants[Len(grants)] \in Continuation
        BY <2>5, ElementOfSeq, EmptySeq, LenProperties DEF ContinuationInv, ContinuationTyped
      <3>2. proj.epoch \in Nat /\ proj'.epoch \in Nat /\ grants[Len(grants)].epoch \in Nat
        BY <3>1 DEF ContinuationInv, ContinuationTyped, Cn!Projection, Continuation
      <3>  QED  BY <1>2, <2>1, <2>5, <3>2 DEF Remembered
    <2>6. Remembered'
      BY <2>4, <2>5 DEF Remembered
    <2>  QED  BY <2>2, <2>3, <2>6
  <1>  QED  BY <1>1, <1>2 DEF ContinuationInv

\* The projection as it was, or as a hook read it.
LEMMA HooksGo ==
    ASSUME ContinuationInv, NEW h \in Hook,
           \/ \E e \in StopEvent, f \in Fingerprint \cup {None}: \E s, epoch: Cn!StopHook(h, e, f, s, epoch)
           \/ Cn!ResponseHook(h) \/ Cn!ResumeRead(h) \/ Cn!Refuse(h) \/ Cn!HookEnds(h)
    PROVE  ContinuationInv'
  <1>1. /\ proj \in Cn!Projection /\ raced \in BOOLEAN
        /\ DOMAIN stopper = Hook /\ \A i \in Hook: Hooked(i)
    BY DEF ContinuationInv, ContinuationTyped
  <1>2. proj' = proj /\ grants' = grants /\ routing' = routing /\ raced' = raced
    BY DEF Cn!StopHook, Cn!ResponseHook, Cn!ResumeRead, Cn!Refuse, Cn!HookEnds
  <1>3. DOMAIN stopper' = Hook /\ \A i \in Hook: Hooked(i)'
    <2>1. CASE \E e \in StopEvent, f \in Fingerprint \cup {None}: \E s, epoch: Cn!StopHook(h, e, f, s, epoch)
      <3>1. PICK e \in StopEvent, f \in Fingerprint \cup {None}: \E s, epoch: Cn!StopHook(h, e, f, s, epoch)
        BY <2>1
      <3>0. PICK s, epoch: Cn!StopHook(h, e, f, s, epoch)
        BY <3>1
      <3> DEFINE r == [pc |-> "transact", copy |-> None, event |-> e, print |-> f, status |-> s, epoch |-> epoch]
      <3>2. stopper' = [stopper EXCEPT ![h] = r]
        BY <3>0 DEF Cn!StopHook
      <3>3. r.pc = "transact" /\ r.event = e /\ r.print = f
        OBVIOUS
      <3> HIDE DEF r
      <3>  QED  BY <1>1, <3>2, <3>3, HookMoves
    <2>2. CASE Cn!ResponseHook(h)
      <3> DEFINE r == [Cn!Rest EXCEPT !.pc = "evidence", !.copy = proj]
      <3>1. stopper' = [stopper EXCEPT ![h] = r]
        BY <2>2 DEF Cn!ResponseHook
      <3>2. r.pc = "evidence" /\ r.copy = proj
        BY DEF Cn!Rest
      <3> HIDE DEF r
      <3>  QED  BY <1>1, <3>1, <3>2, HookMoves
    <2>3. CASE Cn!ResumeRead(h)
      <3> DEFINE r == [Cn!Rest EXCEPT !.pc = "resume", !.copy = proj]
      <3>1. stopper' = [stopper EXCEPT ![h] = r]
        BY <2>3 DEF Cn!ResumeRead
      <3>2. r.pc = "resume" /\ r.copy = proj
        BY DEF Cn!Rest
      <3> HIDE DEF r
      <3>  QED  BY <1>1, <3>1, <3>2, HookMoves
    <2>4. CASE Cn!Refuse(h) \/ Cn!HookEnds(h)
      <3>1. stopper' = [stopper EXCEPT ![h] = Cn!Rest]
        BY <2>4 DEF Cn!Refuse, Cn!HookEnds
      <3>  QED  BY <1>1, <3>1, HookRests
    <2>  QED  BY <2>1, <2>2, <2>3, <2>4
  <1>4. proj.epoch \in Nat
    BY <1>1 DEF Cn!Projection
  <1>  QED  BY <1>1, <1>2, <1>3, <1>4, NothingGranted

LEMMA EvidenceSaved ==
    ASSUME ContinuationInv, NEW h \in Hook, NEW named \in BOOLEAN, NEW e \in StopEvent,
           NEW f \in Fingerprint \cup {None}, Cn!SaveEvidence(h, named, e, f)
    PROVE  ContinuationInv'
  <1>1. /\ proj \in Cn!Projection /\ raced \in BOOLEAN /\ stopper[h].copy \in Cn!Projection
        /\ DOMAIN stopper = Hook /\ \A i \in Hook: Hooked(i)
    BY DEF ContinuationInv, ContinuationTyped, Hooked, Cn!SaveEvidence
  <1>2. /\ proj' = IF named THEN stopper[h].copy ELSE proj
        /\ raced' = (raced \/ (named /\ stopper[h].copy # proj))
        /\ grants' = grants /\ routing' = routing
    BY DEF Cn!SaveEvidence
  <1>3. DOMAIN stopper' = Hook /\ \A i \in Hook: Hooked(i)'
    <2> DEFINE r == [pc |-> "transact", copy |-> None, event |-> e, print |-> f,
                     status |-> "completed", epoch |-> stopper[h].copy.epoch]
    <2>1. stopper' = [stopper EXCEPT ![h] = Cn!Rest] \/ stopper' = [stopper EXCEPT ![h] = r]
      BY DEF Cn!SaveEvidence
    <2>2. r.pc = "transact" /\ r.event = e /\ r.print = f
      OBVIOUS
    <2> HIDE DEF r
    <2>3. CASE stopper' = [stopper EXCEPT ![h] = Cn!Rest]
      BY <1>1, <2>3, HookRests
    <2>4. CASE stopper' = [stopper EXCEPT ![h] = r]
      BY <1>1, <2>2, <2>4, HookMoves
    <2>  QED  BY <2>1, <2>3, <2>4
  <1>4. proj' \in Cn!Projection /\ raced' \in BOOLEAN /\ (raced => raced') /\ (~ raced' => proj' = proj)
    BY <1>1, <1>2
  <1>5. proj.epoch \in Nat
    BY <1>1 DEF Cn!Projection
  <1>  QED  BY <1>2, <1>3, <1>4, <1>5, NothingGranted

LEMMA Resumes ==
    ASSUME ContinuationInv, NEW h \in Hook, Cn!ResumeWrite(h)
    PROVE  ContinuationInv'
  <1>1. /\ proj \in Cn!Projection /\ raced \in BOOLEAN /\ stopper[h].copy \in Cn!Projection
        /\ DOMAIN stopper = Hook /\ \A i \in Hook: Hooked(i)
    BY DEF ContinuationInv, ContinuationTyped, Hooked, Cn!ResumeWrite
  <1>2. /\ proj' = [stopper[h].copy EXCEPT !.epoch = @ + 1, !.status = "active"]
        /\ raced' = (raced \/ stopper[h].copy # proj)
        /\ grants' = grants /\ routing' = routing /\ stopper' = [stopper EXCEPT ![h] = Cn!Rest]
    BY DEF Cn!ResumeWrite
  <1>3. DOMAIN stopper' = Hook /\ \A i \in Hook: Hooked(i)'
    BY <1>1, <1>2, HookRests
  <1>4. proj' \in Cn!Projection
    <2> DEFINE copy == stopper[h].copy
    <2>1. copy.epoch + 1 \in Nat /\ "active" \in Cn!Status
      BY <1>1 DEF Cn!Projection, Cn!Status
    <2>2. copy \in Cn!Projection /\ proj' = [copy EXCEPT !.epoch = copy.epoch + 1, !.status = "active"]
      BY <1>1, <1>2
    <2> HIDE DEF copy
    <2>  QED  BY <2>1, <2>2 DEF Cn!Projection
  <1>5. /\ proj'.epoch = stopper[h].copy.epoch + 1 /\ proj'.consumed = stopper[h].copy.consumed
        /\ proj'.event = stopper[h].copy.event /\ proj'.print = stopper[h].copy.print
        /\ proj'.fails = stopper[h].copy.fails /\ proj.epoch \in Nat
    BY <1>1, <1>2 DEF Cn!Projection
  <1>6. ~ raced' => stopper[h].copy = proj
    BY <1>2
  <1>7. raced' \in BOOLEAN /\ (raced => raced') /\ (~ raced' => proj.epoch <= proj'.epoch)
    BY <1>1, <1>2, <1>5, <1>6
  <1>  QED  BY <1>2, <1>3, <1>4, <1>5, <1>6, <1>7, NothingGranted

LEMMA Changes ==
    ASSUME ContinuationInv, NEW cancel \in BOOLEAN, NEW work \in Cn!Work, Cn!Change(cancel, work)
    PROVE  ContinuationInv'
  <1>1. /\ proj \in Cn!Projection /\ raced \in BOOLEAN
        /\ DOMAIN stopper = Hook /\ \A i \in Hook: Hooked(i)
    BY DEF ContinuationInv, ContinuationTyped
  <1>2. /\ proj' = [proj EXCEPT !.cancel = cancel \/ @, !.work = work]
        /\ grants' = grants /\ routing' = routing /\ raced' = raced /\ stopper' = stopper
    BY DEF Cn!Change
  <1>3. /\ proj' \in Cn!Projection /\ proj'.epoch = proj.epoch /\ proj'.consumed = proj.consumed
        /\ proj'.event = proj.event /\ proj'.print = proj.print /\ proj'.fails = proj.fails
        /\ proj.epoch \in Nat
    BY <1>1, <1>2 DEF Cn!Projection
  <1>4. DOMAIN stopper' = Hook /\ \A i \in Hook: Hooked(i)'
    BY <1>1, <1>2 DEF Hooked
  <1>  QED  BY <1>1, <1>2, <1>3, <1>4, NothingGranted

LEMMA Cancels ==
    ASSUME ContinuationInv, NEW h \in Hook, Cn!Cancel(h)
    PROVE  ContinuationInv'
  <1>1. /\ proj \in Cn!Projection /\ raced \in BOOLEAN
        /\ DOMAIN stopper = Hook /\ \A i \in Hook: Hooked(i)
    BY DEF ContinuationInv, ContinuationTyped
  <1>2. /\ proj' = [proj EXCEPT !.status = "cancelled"]
        /\ grants' = grants /\ routing' = routing /\ raced' = raced /\ stopper' = [stopper EXCEPT ![h] = Cn!Rest]
    BY DEF Cn!Cancel
  <1>3. /\ proj' \in Cn!Projection /\ proj'.epoch = proj.epoch /\ proj'.consumed = proj.consumed
        /\ proj'.event = proj.event /\ proj'.print = proj.print /\ proj'.fails = proj.fails
        /\ proj.epoch \in Nat
    BY <1>1, <1>2 DEF Cn!Projection, Cn!Status
  <1>4. DOMAIN stopper' = Hook /\ \A i \in Hook: Hooked(i)'
    BY <1>1, <1>2, HookRests
  <1>  QED  BY <1>1, <1>2, <1>3, <1>4, NothingGranted

\* All the grants are the last of their prefixes.
LEMMA AllOfThem ==
    ASSUME ContinuationParameters, grants \in Seq(Continuation), PrefixesBounded, NEW f \in Fingerprint
    PROVE  Cn!Streak(grants, f) \in Nat /\ Cn!Streak(grants, f) < Threshold
  <1>1. Ends(grants, f, Cn!Streak(grants, f))
    BY StreakEnds
  <1>2. Cn!Streak(grants, f) \in Nat
    BY <1>1, LenProperties DEF Ends
  <1>3. CASE grants = <<>>
    BY <1>2, <1>3, StreakOfNone DEF ContinuationParameters
  <1>4. CASE grants # <<>>
    <2>1. Len(grants) \in DOMAIN grants
      BY <1>4, EmptySeq, LenProperties
    <2>2. SubSeq(grants, 1, Len(grants)) = grants
      BY SubSeqFull
    <2>  QED  BY <1>2, <2>1, <2>2 DEF PrefixesBounded
  <1>  QED  BY <1>3, <1>4

LEMMA EndsTheWorkflow ==
    ASSUME ContinuationParameters, ContinuationInv, NEW h \in Hook, Cn!EndWorkflow(h)
    PROVE  ContinuationInv'
  <1> DEFINE d == stopper[h]
  <1> DEFINE print == proj'.print
  <1>1. /\ proj \in Cn!Projection /\ raced \in BOOLEAN /\ grants \in Seq(Continuation)
        /\ DOMAIN stopper = Hook /\ \A i \in Hook: Hooked(i)
        /\ d.print \in Fingerprint \cup {None}
    BY DEF ContinuationInv, ContinuationTyped, Hooked, Cn!EndWorkflow
  <1>2. /\ grants' = grants /\ routing' = routing /\ raced' = raced /\ stopper' = [stopper EXCEPT ![h] = Cn!Rest]
    BY DEF Cn!EndWorkflow
  <1> DEFINE routed == /\ proj.consumed < MaxContinuations /\ ~ pastDeadline /\ d.status # "ambiguous"
                       /\ Cn!Verdict(d) # "completed"
  <1>3. /\ proj' = [proj EXCEPT !.status = Cn!Verdict(d), !.print = IF routed THEN d.print ELSE @,
                                !.phase = IF Cn!Verdict(d) = "completed" THEN "terminal" ELSE @]
        /\ Cn!Verdict(d) # "active"
    BY DEF Cn!EndWorkflow
  <1>4. Cn!Verdict(d) \in Cn!Status
    BY DEF Cn!Verdict, Cn!Status
  <1>5. proj' \in Cn!Projection
    BY <1>1, <1>3, <1>4 DEF Cn!Projection, Cn!Phase
  <1>6. /\ proj'.epoch = proj.epoch /\ proj'.consumed = proj.consumed /\ proj'.event = proj.event
        /\ proj'.fails = proj.fails /\ proj'.print = (IF routed THEN d.print ELSE proj.print)
        /\ proj.epoch \in Nat /\ proj.fails \in Nat
    BY <1>1, <1>3 DEF Cn!Projection
  <1>7. DOMAIN stopper' = Hook /\ \A i \in Hook: Hooked(i)'
    BY <1>1, <1>2, HookRests
  <1>8. CASE proj'.print = proj.print
    BY <1>1, <1>2, <1>5, <1>6, <1>7, <1>8, NothingGranted
  <1>9. CASE proj'.print # proj.print
    <2>1. routed /\ d.print # proj.print
      BY <1>6, <1>9
    <2>2. Cn!Repeated(d.print)
      <3>1. ~ (proj.consumed >= MaxContinuations)
        BY <1>1, <2>1 DEF ContinuationParameters, Cn!Projection
      <3>  QED  BY <1>3, <2>1, <3>1 DEF Cn!Verdict
    <2>3. Threshold = 1
      BY <2>1, <2>2 DEF Cn!Repeated, Cn!Failures, ContinuationParameters
    <2>4. ContinuationTyped'
      BY <1>1, <1>2, <1>5, <1>7 DEF ContinuationTyped
    <2>5. ASSUME ~ raced PROVE Remembered' /\ Consecutive' /\ (Stops => PrefixesBounded /\ FailuresRemembered)'
      <3>1. Remembered /\ Consecutive /\ (Stops => PrefixesBounded)
        BY <2>5 DEF ContinuationInv
      <3>2. Remembered'
        BY <1>2, <1>6, <3>1 DEF Remembered
      <3>3. Consecutive' /\ (Stops => PrefixesBounded)'
        BY <1>2, <3>1 DEF Consecutive, Stops, PrefixesBounded
      <3>4. ASSUME Stops, NEW f \in Fingerprint PROVE Cn!Streak(grants, f) = 0
        BY <1>1, <2>3, <3>1, <3>4, AllOfThem
      <3>5. (Stops => FailuresRemembered)'
        BY <1>2, <1>6, <3>4 DEF Stops, FailuresRemembered
      <3>  QED  BY <3>2, <3>3, <3>5
    <2>  QED  BY <1>2, <2>4, <2>5 DEF ContinuationInv
  <1>  QED  BY <1>8, <1>9

LEMMA Grants ==
    ASSUME ContinuationParameters, ContinuationInv, NEW h \in Hook, Cn!GrantContinuation(h)
    PROVE  ContinuationInv'
  <1> DEFINE d == stopper[h]
  <1> DEFINE g == [event |-> d.event, print |-> d.print, epoch |-> proj.epoch]
  <1> DEFINE n == Len(grants)
  <1>1. /\ proj \in Cn!Projection /\ raced \in BOOLEAN /\ grants \in Seq(Continuation)
        /\ DOMAIN stopper = Hook /\ \A i \in Hook: Hooked(i)
        /\ d.event \in StopEvent /\ d.print \in Fingerprint \cup {None}
    BY DEF ContinuationInv, ContinuationTyped, Hooked, Cn!GrantContinuation
  <1>2. /\ routing' = routing /\ raced' = raced /\ stopper' = [stopper EXCEPT ![h] = Cn!Rest]
        /\ grants' = Append(grants, g) /\ proj' = Cn!Grant(d)
        /\ Cn!Verdict(d) = "active" /\ d.event # proj.event
    BY DEF Cn!GrantContinuation, Cn!Known
  <1>3. /\ proj.epoch \in Nat /\ proj.consumed \in Nat /\ proj.fails \in Nat
        /\ Cn!Failures(d.print) \in Nat
    BY <1>1 DEF Cn!Projection, Cn!Failures
  <1> DEFINE print == IF d.print = None THEN proj.print ELSE d.print
  <1> DEFINE fails == IF d.print = None THEN 0 ELSE Cn!Failures(d.print)
  <1> DEFINE phase == IF Cn!Repeated(d.print) /\ routing = "replan" THEN "plan" ELSE proj.phase
  <1>11. /\ proj' = [proj EXCEPT !.consumed = proj.consumed + 1, !.event = d.event, !.print = print,
                                 !.fails = fails, !.phase = phase]
         /\ print \in Fingerprint \cup {None} /\ fails \in Nat /\ phase \in Cn!Phase
    BY <1>1, <1>2, <1>3 DEF Cn!Grant, Cn!Projection, Cn!Phase
  <1>12. proj' \in Cn!Projection
    <2>1. proj.consumed + 1 \in Nat /\ d.event \in StopEvent \cup {None}
      BY <1>1, <1>3
    <2> HIDE DEF d, print, fails, phase
    <2>  QED  BY <1>1, <1>11, <2>1 DEF Cn!Projection
  <1>4. /\ proj' \in Cn!Projection
        /\ proj'.consumed = proj.consumed + 1 /\ proj'.event = d.event /\ proj'.epoch = proj.epoch
        /\ proj'.print = (IF d.print = None THEN proj.print ELSE d.print)
        /\ proj'.fails = (IF d.print = None THEN 0 ELSE Cn!Failures(d.print))
    BY <1>1, <1>11, <1>12 DEF Cn!Projection
  <1>5. DOMAIN stopper' = Hook /\ \A i \in Hook: Hooked(i)'
    BY <1>1, <1>2, HookRests
  <1>6. g \in Continuation /\ g.event = d.event /\ g.print = d.print /\ g.epoch = proj.epoch
    BY <1>1, <1>3 DEF Continuation
  <1> HIDE DEF g
  <1>7. /\ grants' \in Seq(Continuation) /\ Len(grants') = n + 1 /\ grants'[n + 1] = g /\ n \in Nat
        /\ \A i \in 1 .. n: grants'[i] = grants[i] /\ grants[i] \in Continuation
    BY <1>1, <1>2, <1>6, AppendProperties, LenProperties, ElementOfSeq
  <1>8. ContinuationTyped'
    BY <1>1, <1>2, <1>4, <1>5, <1>7 DEF ContinuationTyped
  <1>9. proj.consumed < MaxContinuations
    BY <1>2, <1>3 DEF Cn!Verdict, ContinuationParameters
  <1>10. ASSUME ~ raced PROVE Remembered' /\ Consecutive' /\ (Stops => PrefixesBounded /\ FailuresRemembered)'
    <2>1. Remembered /\ Consecutive /\ (Stops => PrefixesBounded /\ FailuresRemembered)
      BY <1>10 DEF ContinuationInv
    <2>2. Remembered'
      <3>1. Len(grants') = proj'.consumed /\ proj'.consumed <= MaxContinuations
        BY <1>3, <1>4, <1>7, <1>9, <2>1 DEF Remembered, ContinuationParameters
      <3>2. grants'[Len(grants')].event = proj'.event /\ grants'[Len(grants')].epoch <= proj'.epoch
        BY <1>3, <1>4, <1>6, <1>7
      <3>  QED  BY <3>1, <3>2 DEF Remembered
    <2>3. Consecutive'
      <3>1. ASSUME NEW i \in 1 .. Len(grants') - 1
            PROVE  grants'[i].event # grants'[i + 1].event /\ grants'[i].epoch <= grants'[i + 1].epoch
        <4>1. i \in 1 .. n
          BY <1>7
        <4>2. CASE i = n
          <5>1. grants # <<>>
            BY <1>7, <4>1, <4>2, EmptySeq
          <5>2. grants[n].event = proj.event /\ grants[n].epoch <= proj.epoch
            BY <2>1, <5>1 DEF Remembered
          <5>3. grants'[i] = grants[n] /\ grants'[i + 1] = g
            BY <1>7, <4>1, <4>2
          <5>  QED  BY <1>2, <1>6, <5>2, <5>3
        <4>3. CASE i # n
          <5>1. i \in 1 .. n - 1 /\ i + 1 \in 1 .. n
            BY <1>7, <4>1, <4>3
          <5>2. grants'[i] = grants[i] /\ grants'[i + 1] = grants[i + 1]
            BY <1>7, <4>1, <5>1
          <5>  QED  BY <2>1, <5>1, <5>2 DEF Consecutive
        <4>  QED  BY <4>2, <4>3
      <3>  QED  BY <3>1 DEF Consecutive
    <2>4. ASSUME Stops PROVE PrefixesBounded' /\ FailuresRemembered'
      <3>1. ~ Cn!Repeated(d.print)
        BY <1>2, <2>4 DEF Cn!Verdict, Stops
      <3>2. d.print # None => Cn!Failures(d.print) < Threshold
        BY <1>3, <3>1 DEF Cn!Repeated, ContinuationParameters
      <3>3. ASSUME NEW f \in Fingerprint
            PROVE  /\ Cn!Streak(grants', f) <= IF f = proj'.print THEN proj'.fails ELSE 0
                   /\ Cn!Streak(grants', f) < Threshold
        <4>1. f # None
          BY DEF ContinuationParameters, Cn!NoneFits
        <4>2. Cn!Streak(grants', f) = IF g.print = f THEN Cn!Streak(grants, f) + 1 ELSE 0
          BY <1>1, <1>2, <1>6, StreakAppends
        <4>3. Cn!Streak(grants, f) \in Nat
          BY <1>1, <2>1, <2>4, AllOfThem
        <4>4. Cn!Streak(grants, f) <= IF f = proj.print THEN proj.fails ELSE 0
          BY <2>1, <2>4 DEF FailuresRemembered
        <4>5. CASE d.print = f
          <5>1. Cn!Streak(grants', f) <= Cn!Failures(f)
            BY <1>3, <1>6, <4>2, <4>3, <4>4, <4>5 DEF Cn!Failures
          <5>2. proj'.print = f /\ proj'.fails = Cn!Failures(f)
            BY <1>4, <4>1, <4>5
          <5>3. Cn!Streak(grants', f) \in Nat
            BY <1>6, <4>2, <4>3, <4>5
          <5>  QED  BY <1>3, <3>2, <4>1, <4>5, <5>1, <5>2, <5>3 DEF ContinuationParameters
        <4>6. CASE d.print # f
          <5>1. Cn!Streak(grants', f) = 0
            BY <1>6, <4>2, <4>6
          <5>2. proj'.fails \in Nat
            BY <1>3, <1>4
          <5>  QED  BY <5>1, <5>2 DEF ContinuationParameters
        <4>  QED  BY <4>5, <4>6
      <3>4. FailuresRemembered'
        BY <3>3 DEF FailuresRemembered
      <3>5. ASSUME NEW m \in DOMAIN grants', NEW f \in Fingerprint
            PROVE  Cn!Streak(SubSeq(grants', 1, m), f) < Threshold
        <4>1. m \in 1 .. n + 1
          BY <1>7, LenProperties
        <4>2. CASE m = n + 1
          BY <1>1, <1>2, <1>6, <3>3, <4>2, PrefixesOfAppend
        <4>3. CASE m # n + 1
          <5>1. m \in 1 .. n /\ m \in DOMAIN grants
            BY <1>1, <1>7, <4>1, <4>3, LenProperties
          <5>2. SubSeq(grants', 1, m) = SubSeq(grants, 1, m)
            BY <1>1, <1>2, <1>6, <5>1, PrefixesOfAppend
          <5>  QED  BY <2>1, <2>4, <5>1, <5>2 DEF PrefixesBounded
        <4>  QED  BY <4>2, <4>3
      <3>6. PrefixesBounded'
        BY <3>5 DEF PrefixesBounded
      <3>  QED  BY <3>4, <3>6
    <2>  QED  BY <1>2, <2>2, <2>3, <2>4 DEF Stops
  <1>  QED  BY <1>2, <1>8, <1>10 DEF ContinuationInv

LEMMA ContinuationKept ==
    ASSUME ContinuationParameters, ContinuationInv, [Cn!Next]_(Cn!vars)
    PROVE  ContinuationInv'
  <1>1. ASSUME NEW h \in Hook, NEW e \in StopEvent, NEW f \in Fingerprint \cup {None}, NEW s, NEW epoch,
               Cn!StopHook(h, e, f, s, epoch)
        PROVE  ContinuationInv'
    BY <1>1, HooksGo
  <1>2. ASSUME NEW h \in Hook, Cn!ResponseHook(h) \/ Cn!ResumeRead(h) \/ Cn!Refuse(h) \/ Cn!HookEnds(h)
        PROVE  ContinuationInv'
    BY <1>2, HooksGo
  <1>3. ASSUME NEW h \in Hook, NEW named \in BOOLEAN, NEW e \in StopEvent, NEW f \in Fingerprint \cup {None},
               Cn!SaveEvidence(h, named, e, f)
        PROVE  ContinuationInv'
    BY <1>3, EvidenceSaved
  <1>4. ASSUME NEW h \in Hook, Cn!ResumeWrite(h) PROVE ContinuationInv'
    BY <1>4, Resumes
  <1>5. ASSUME NEW h \in Hook, Cn!Cancel(h) PROVE ContinuationInv'
    BY <1>5, Cancels
  <1>6. ASSUME NEW h \in Hook, Cn!EndWorkflow(h) PROVE ContinuationInv'
    BY <1>6, EndsTheWorkflow
  <1>7. ASSUME NEW h \in Hook, Cn!GrantContinuation(h) PROVE ContinuationInv'
    BY <1>7, Grants
  <1>8. ASSUME NEW cancel \in BOOLEAN, NEW work \in Cn!Work, Cn!Change(cancel, work) PROVE ContinuationInv'
    BY <1>8, Changes
  <1>9. ASSUME Cn!Expire \/ UNCHANGED Cn!vars PROVE ContinuationInv'
    <2>1. proj' = proj /\ routing' = routing /\ stopper' = stopper /\ grants' = grants /\ raced' = raced
      BY <1>9 DEF Cn!Expire, Cn!vars
    <2>2. ContinuationTyped'
      BY <2>1 DEF ContinuationInv, ContinuationTyped, Hooked
    <2>3. (~ raced => Remembered /\ Consecutive /\ (Stops => PrefixesBounded /\ FailuresRemembered))'
      BY <2>1 DEF ContinuationInv, Remembered, Consecutive, Stops, PrefixesBounded, FailuresRemembered
    <2>  QED  BY <2>2, <2>3 DEF ContinuationInv
  <1>  QED  BY <1>1, <1>2, <1>3, <1>4, <1>5, <1>6, <1>7, <1>8, <1>9 DEF Cn!Next

LEMMA ContinuationImplied ==
    ASSUME ContinuationParameters, ContinuationInv
    PROVE  Cn!GrantsBounded
  BY DEF ContinuationInv, Remembered, Consecutive, Stops, PrefixesBounded, Cn!GrantsBounded

\* Continuation: a workflow is continued within its budget, not twice in a row by the same event,
\* not by an event of an earlier epoch and, under a policy that stops on repeated failures, not
\* after as many of them as the profile allows.
THEOREM ContinuationsAreBounded == ASSUME ContinuationParameters PROVE Cn!Spec => []Cn!GrantsBounded
  <1>1. Cn!Init => ContinuationInv
    BY ContinuationStarts
  <1>2. ContinuationInv /\ [Cn!Next]_Cn!vars => ContinuationInv'
    BY ContinuationKept
  <1>3. ContinuationInv => Cn!GrantsBounded
    BY ContinuationImplied
  <1>  QED  BY <1>1, <1>2, <1>3, PTL DEF Cn!Spec

-----------------------------------------------------------------------------
(* HookDispatch.  A safety rule is in the registry and stays there, so     *)
(* that it is among those a call has still to ask or has been passed by.   *)

\* The rules of tier 1 that are built in.
Rule(i, priority) == [id |-> i, event |-> "preToolUse", tier |-> 1, priority |-> priority,
                      closed |-> TRUE, immutable |-> TRUE, builtin |-> TRUE]
Rules == {Rule("pre_step_gate", 10), Rule("lifecycle_pre_tool", 20)}

Registered ==
    /\ handlers \in [Hd!Id -> Hd!Handler \cup {None}]
    /\ \A i \in Hd!Id: handlers[i] # None => handlers[i].id = i
    /\ handlers["pre_step_gate"] = Rule("pre_step_gate", 10)
    /\ handlers["lifecycle_pre_tool"] = Rule("lifecycle_pre_tool", 20)

\* A call that is under way, and a call that has returned.
Asking(d) ==
    LET x == dispatch[d] IN
    /\ x.input \in Hd!Input /\ x.input.kind \in {"safe", "unsafe"} /\ x.input.event \in Hd!Event
    /\ x.verdict = None
    /\ x.todo \subseteq Hd!Handler /\ x.passed \subseteq Hd!Handler
    /\ x.input.event = "preToolUse" => Rules \subseteq x.passed \cup x.todo
    /\ Rules \cap x.passed # {} => x.input.kind = "safe"
    /\ x.pc = "waiting" =>
         /\ x.todo # {}
         /\ ~ (Hd!First(x.todo).builtin /\ Hd!First(x.todo).tier = 1)

Answered(d) ==
    LET x == dispatch[d] IN
    /\ x.verdict \in {"allowed", "denied", "thrown"}
    /\ x.verdict = "denied" => x.accuser # None
    /\ x.verdict = "allowed" /\ x.input.kind # "probe" =>
         /\ x.input.event = "preToolUse" => Rules \subseteq x.cleared
         /\ Rules \cap x.cleared # {} => x.input.kind = "safe"

Dispatched(d) ==
    /\ DOMAIN dispatch[d] = {"pc", "input", "todo", "passed", "followup", "verdict", "cleared", "accuser"}
    /\ dispatch[d].pc \in {"idle", "next", "waiting", "done"}
    /\ dispatch[d].pc = "idle" => dispatch[d].verdict = None
    /\ dispatch[d].pc \in {"next", "waiting"} => Asking(d)
    /\ dispatch[d].pc = "done" => Answered(d)

\* What a call gave up would not have let it go on.
Forgiven(d) == \A w \in late: w[1] = d => w[2].tier # 1 /\ ~ w[2].closed

Hosted ==
    /\ host \in [pc: {"idle", "spawned", "done"}, kind: {"safe", "unsafe", "probe", "invalid", None},
                 printed: {"ok", "refused", None}, told: {"error", "allowed", "denied", None}]
    /\ host.pc = "idle" => host.printed = None /\ host.told = None
    /\ host.pc = "spawned" => host.told = None
    /\ host.told = "denied" <=> host.pc = "done" /\ host.printed = "refused"

DispatchInv ==
    /\ Registered /\ Hosted
    /\ DOMAIN dispatch = Dispatch
    /\ \A d \in Dispatch: Dispatched(d)
    /\ \A d \in Dispatch: dispatch[d].verdict # "denied" => Forgiven(d)


LEMMA HookIds ==
    /\ Hd!Id = {"custom", "lifecycle_pre_tool", "persist_stop", "pre_step_gate"}
    /\ \A i \in Hd!Id: Hd!Position(i) \in 1 .. 4
    /\ \A i, j \in Hd!Id: Hd!Position(i) = Hd!Position(j) => i = j
  <1>1. /\ DOMAIN Hd!Ids = 1 .. 4 /\ Hd!Ids[1] = "custom" /\ Hd!Ids[2] = "lifecycle_pre_tool"
        /\ Hd!Ids[3] = "persist_stop" /\ Hd!Ids[4] = "pre_step_gate"
    BY DEF Hd!Ids
  <1>2. Hd!Id = {Hd!Ids[k]: k \in 1 .. 4}
    BY <1>1 DEF Hd!Id, Hd!Range
  <1>3. Hd!Id = {"custom", "lifecycle_pre_tool", "persist_stop", "pre_step_gate"}
    <2>1. 1 .. 4 = {1, 2, 3, 4}
      OBVIOUS
    <2>  QED  BY <1>1, <1>2, <2>1
  <1>4. \A i \in Hd!Id: \E k \in DOMAIN Hd!Ids: Hd!Ids[k] = i
    BY <1>1, <1>2
  <1>5. \A i \in Hd!Id: Hd!Position(i) \in 1 .. 4 /\ Hd!Ids[Hd!Position(i)] = i
    BY <1>1, <1>4 DEF Hd!Position
  <1>  QED  BY <1>3, <1>5

LEMMA HandlerFields ==
    \A h \in Hd!Handler:
        /\ h.id \in Hd!Id /\ h.event \in Hd!Event /\ h.tier \in 1 .. 5 /\ h.priority \in {10, 15, 20}
        /\ h.closed \in BOOLEAN /\ h.immutable \in BOOLEAN /\ h.builtin \in BOOLEAN
  BY DEF Hd!Handler

LEMMA RulesAre ==
    /\ Rules \subseteq Hd!Handler
    /\ \A h \in Rules: h.builtin = TRUE /\ h.tier = 1
    /\ {h \in Hd!builtinHandlers: h.tier = 1} = Rules
  <1>1. Rules \subseteq Hd!Handler
    BY HookIds DEF Rules, Rule, Hd!Handler, Hd!Event
  <1>2. \A h \in Rules: h.builtin = TRUE /\ h.tier = 1
    BY DEF Rules, Rule
  <1>3. {h \in Hd!builtinHandlers: h.tier = 1} = Rules
    BY DEF Rules, Rule, Hd!builtinHandlers
  <1>  QED  BY <1>1, <1>2, <1>3

\* Whoever is left to ask, somebody is first.
LEMMA FirstIs ==
    ASSUME NEW S \in SUBSET Hd!Handler, S # {}
    PROVE  Hd!First(S) \in S
  <1> DEFINE rank(h) == 1000 * h.tier + 10 * h.priority + Hd!Position(h.id)
  <1>1. \A h \in Hd!Handler: /\ rank(h) \in Nat /\ h.tier \in Nat /\ h.priority \in 10 .. 20
                             /\ Hd!Position(h.id) \in 1 .. 4
    BY HookIds, HandlerFields
  <1>2. \A g, h \in Hd!Handler: Hd!Before(g, h) => rank(g) < rank(h)
    BY <1>1 DEF Hd!Before
  <1> DEFINE T == {rank(h): h \in S}
  <1>3. T \in SUBSET Nat /\ T # {}
    <2> HIDE DEF rank
    <2>  QED  BY <1>1
  <1>4. PICK x \in T: \A y \in T: x <= y
    <2> HIDE DEF T
    <2>  QED  BY <1>3, Least
  <1>5. PICK h \in S: x = rank(h)
    <2> HIDE DEF rank
    <2>  QED  BY <1>4
  <1>6. \A g \in S: ~ Hd!Before(g, h)
    <2>1. \A g \in S: x <= rank(g)
      <3> HIDE DEF rank
      <3>  QED  BY <1>4
    <2> HIDE DEF rank
    <2>  QED  BY <1>1, <1>2, <1>5, <2>1
  <1>  QED  BY <1>5, <1>6 DEF Hd!First

LEMMA BuiltinFits ==
    LET b == Hd!registerBuiltinHandlers IN
    /\ b \in [Hd!Id -> Hd!Handler \cup {None}]
    /\ \A i \in Hd!Id: b[i] # None => b[i].id = i
    /\ b["pre_step_gate"] = Rule("pre_step_gate", 10)
    /\ b["lifecycle_pre_tool"] = Rule("lifecycle_pre_tool", 20)
  <1>1. /\ Rule("pre_step_gate", 10) \in Hd!builtinHandlers
        /\ Rule("lifecycle_pre_tool", 20) \in Hd!builtinHandlers
        /\ Hd!builtinHandlers \subseteq Hd!Handler
        /\ \A g, h \in Hd!builtinHandlers: g.id = h.id => g = h
        /\ Rule("pre_step_gate", 10).id = "pre_step_gate"
        /\ Rule("lifecycle_pre_tool", 20).id = "lifecycle_pre_tool"
    BY HookIds DEF Hd!builtinHandlers, Hd!Handler, Hd!Event, Rule
  <1>2. \A i \in Hd!Id: LET b == Hd!registerBuiltinHandlers[i] IN
          /\ b \in Hd!Handler \cup {None}
          /\ b # None => b.id = i
          /\ \A h \in Hd!builtinHandlers: h.id = i => b = h
    <2> SUFFICES ASSUME NEW i \in Hd!Id
                 PROVE  LET b == Hd!registerBuiltinHandlers[i] IN
                          /\ b \in Hd!Handler \cup {None}
                          /\ b # None => b.id = i
                          /\ \A h \in Hd!builtinHandlers: h.id = i => b = h
      OBVIOUS
    <2>1. CASE \E h \in Hd!builtinHandlers: h.id = i
      <3>1. /\ Hd!registerBuiltinHandlers[i] \in Hd!builtinHandlers
            /\ Hd!registerBuiltinHandlers[i].id = i
        BY <2>1 DEF Hd!registerBuiltinHandlers
      <3>  QED  BY <1>1, <3>1
    <2>2. CASE ~ \E h \in Hd!builtinHandlers: h.id = i
      BY <2>2 DEF Hd!registerBuiltinHandlers
    <2>  QED  BY <2>1, <2>2
  <1>3. Hd!registerBuiltinHandlers \in [Hd!Id -> Hd!Handler \cup {None}]
    BY <1>2 DEF Hd!registerBuiltinHandlers
  <1>  QED  BY <1>1, <1>2, <1>3, HookIds

LEMMA HookInitially == ASSUME Hd!NoneFits, Hd!Init PROVE DispatchInv
  <1>4. Registered
    BY BuiltinFits DEF Hd!Init, Registered
  <1>5. Hosted
    BY DEF Hd!NoneFits, Hd!Init, Hd!Absent, Hosted
  <1>6. \A d \in Dispatch: Dispatched(d)
    BY DEF Hd!Init, Hd!Unasked, Dispatched
  <1>7. DOMAIN dispatch = Dispatch /\ \A d \in Dispatch: Forgiven(d)
    BY DEF Hd!Init, Forgiven
  <1>  QED  BY <1>4, <1>5, <1>6, <1>7 DEF DispatchInv


\* What stands of a call whose record stays, when no one is given up for it.
LEMMA DispatchStays ==
    ASSUME NEW d \in Dispatch, Dispatched(d), dispatch'[d] = dispatch[d]
    PROVE  Dispatched(d)'
  BY DEF Dispatched, Asking, Answered

LEMMA RegistryStep ==
    ASSUME Hd!NoneFits, DispatchInv, Hd!Reset \/ \E h \in Hd!Registrable: Hd!Register(h)
    PROVE  DispatchInv'
  <1>1. dispatch' = dispatch /\ late' = late /\ host' = host
    BY DEF Hd!Reset, Hd!Register
  <1>2. Registered'
    <2>1. CASE Hd!Reset
      <3>1. handlers' = Hd!registerBuiltinHandlers
        BY <2>1 DEF Hd!Reset
      <3>  QED  BY <3>1, BuiltinFits DEF Registered
    <2>2. ASSUME NEW h \in Hd!Registrable, Hd!Register(h) PROVE Registered'
      <3>1. h \in Hd!Handler /\ h.id \in Hd!Id
        BY HandlerFields DEF Hd!Registrable
      <3>2. h.id # "pre_step_gate" /\ h.id # "lifecycle_pre_tool"
        <4>1. ~ Hd!Overrides(h)
          BY <2>2 DEF Hd!Register
        <4>2. Rule("pre_step_gate", 10) # None /\ Rule("lifecycle_pre_tool", 20) # None
          BY RulesAre DEF Rules, Hd!NoneFits
        <4>3. Rule("pre_step_gate", 10).immutable /\ Rule("lifecycle_pre_tool", 20).immutable
          BY DEF Rule
        <4>  QED  BY <4>1, <4>2, <4>3 DEF Hd!Overrides, DispatchInv, Registered
      <3>3. handlers' = [handlers EXCEPT ![h.id] = h]
        BY <2>2 DEF Hd!Register
      <3>  QED  BY <3>1, <3>2, <3>3, HookIds DEF DispatchInv, Registered
    <2>  QED  BY <2>1, <2>2
  <1>3. Hosted' /\ \A d \in Dispatch: Forgiven(d)' <=> Forgiven(d)
    BY <1>1 DEF DispatchInv, Hosted, Forgiven
  <1>  QED  BY <1>1, <1>2, <1>3, DispatchStays DEF DispatchInv

\* A call makes a step of its own.
LEMMA DispatchGoes ==
    ASSUME DispatchInv, NEW d \in Dispatch, Registered', Hosted',
           DOMAIN dispatch' = Dispatch, \A e \in Dispatch: e # d => dispatch'[e] = dispatch[e],
           Dispatched(d)',
           \A e \in Dispatch: e # d => \A w \in late': w[1] = e => w \in late,
           dispatch'[d].verdict # "denied" => Forgiven(d)'
    PROVE  DispatchInv'
  <1>1. \A e \in Dispatch: Dispatched(e)'
    BY DispatchStays DEF DispatchInv
  <1>2. \A e \in Dispatch: e # d => (Forgiven(e) => Forgiven(e)')
    BY DEF Forgiven
  <1>  QED  BY <1>1, <1>2 DEF DispatchInv

\* The record a call writes: when it returns, and when it goes on.
LEMMA Rewrites ==
    ASSUME DispatchInv, NEW d \in Dispatch
    PROVE  /\ \A v, a: Hd!Return(d, v, a) =>
                /\ DOMAIN dispatch' = Dispatch /\ \A e \in Dispatch: e # d => dispatch'[e] = dispatch[e]
                /\ DOMAIN dispatch'[d] = DOMAIN dispatch[d]
                /\ dispatch'[d].pc = "done" /\ dispatch'[d].verdict = v /\ dispatch'[d].accuser = a
                /\ dispatch'[d].cleared = dispatch[d].passed /\ dispatch'[d].input = dispatch[d].input
           /\ Hd!Onward(d) =>
                /\ DOMAIN dispatch' = Dispatch /\ \A e \in Dispatch: e # d => dispatch'[e] = dispatch[e]
                /\ DOMAIN dispatch'[d] = DOMAIN dispatch[d]
                /\ dispatch'[d].pc = "next" /\ dispatch'[d].todo = dispatch[d].todo \ {Hd!Asked(d)}
                /\ dispatch'[d].passed = dispatch[d].passed /\ dispatch'[d].verdict = dispatch[d].verdict
                /\ dispatch'[d].input = dispatch[d].input
  <1>1. /\ DOMAIN dispatch = Dispatch
        /\ DOMAIN dispatch[d] = {"pc", "input", "todo", "passed", "followup", "verdict", "cleared", "accuser"}
    BY DEF DispatchInv, Dispatched
  <1>2. ASSUME NEW v, NEW a, Hd!Return(d, v, a)
        PROVE  /\ DOMAIN dispatch' = Dispatch /\ \A e \in Dispatch: e # d => dispatch'[e] = dispatch[e]
               /\ DOMAIN dispatch'[d] = DOMAIN dispatch[d]
               /\ dispatch'[d].pc = "done" /\ dispatch'[d].verdict = v /\ dispatch'[d].accuser = a
               /\ dispatch'[d].cleared = dispatch[d].passed /\ dispatch'[d].input = dispatch[d].input
    BY <1>1, <1>2 DEF Hd!Return
  <1>3. ASSUME Hd!Onward(d)
        PROVE  /\ DOMAIN dispatch' = Dispatch /\ \A e \in Dispatch: e # d => dispatch'[e] = dispatch[e]
               /\ DOMAIN dispatch'[d] = DOMAIN dispatch[d]
               /\ dispatch'[d].pc = "next" /\ dispatch'[d].todo = dispatch[d].todo \ {Hd!Asked(d)}
               /\ dispatch'[d].passed = dispatch[d].passed /\ dispatch'[d].verdict = dispatch[d].verdict
               /\ dispatch'[d].input = dispatch[d].input
    BY <1>1, <1>3 DEF Hd!Onward
  <1>  QED  BY <1>2, <1>3

LEMMA BeginStep ==
    ASSUME Hd!NoneFits, DispatchInv, NEW d \in Dispatch, NEW input \in Hd!Input, Hd!Begin(d, input)
    PROVE  DispatchInv'
  <1>1. /\ dispatch[d].pc = "idle" /\ dispatch[d].verdict = None
        /\ handlers' = handlers /\ late' = late /\ host' = host
    BY DEF DispatchInv, Dispatched, Hd!Begin
  <1>2. Registered' /\ Hosted' /\ Forgiven(d)'
    <2>1. Forgiven(d)
      BY <1>1 DEF DispatchInv, Hd!NoneFits
    <2>  QED  BY <1>1, <2>1 DEF DispatchInv, Registered, Hosted, Forgiven
  <1>3. PICK x: /\ dispatch' = [dispatch EXCEPT ![d] = x]
                /\ x = IF input.kind = "invalid"
                       THEN [Hd!Unasked EXCEPT !.pc = "done", !.input = input, !.verdict = "thrown"]
                       ELSE IF input.kind = "probe"
                       THEN [Hd!Unasked EXCEPT !.pc = "done", !.input = input, !.verdict = "allowed"]
                       ELSE IF input.event \notin Hd!Event
                       THEN [Hd!Unasked EXCEPT !.pc = "done", !.input = input, !.verdict = "denied",
                                               !.accuser = "event"]
                       ELSE [Hd!Unasked EXCEPT !.pc = "next", !.input = input,
                                               !.todo = Hd!getOrderedHandlersForEvent(input.event)]
    BY DEF Hd!Begin
  <1>4. DOMAIN dispatch' = Dispatch /\ dispatch'[d] = x /\ \A e \in Dispatch: e # d => dispatch'[e] = dispatch[e]
    BY <1>3 DEF DispatchInv
  <1>5. Dispatched(d)'
    <2>1. CASE input.kind = "invalid"
      BY <1>3, <1>4, <2>1 DEF Dispatched, Answered, Hd!Unasked
    <2>2. CASE input.kind = "probe"
      BY <1>3, <1>4, <2>2 DEF Dispatched, Answered, Hd!Unasked
    <2>3. CASE input.kind \in {"safe", "unsafe"} /\ input.event \notin Hd!Event
      <3>1. "event" # None
        BY DEF Hd!NoneFits
      <3>  QED  BY <1>3, <1>4, <2>3, <3>1 DEF Dispatched, Answered, Hd!Unasked
    <2>4. CASE input.kind \in {"safe", "unsafe"} /\ input.event \in Hd!Event
      <3>1. /\ x.input = input /\ x.verdict = None /\ x.passed = {} /\ x.pc = "next"
            /\ x.todo = Hd!getOrderedHandlersForEvent(input.event)
            /\ DOMAIN x = {"pc", "input", "todo", "passed", "followup", "verdict", "cleared", "accuser"}
        BY <1>3, <2>4 DEF Hd!Unasked
      <3>2. Hd!getOrderedHandlersForEvent(input.event) \subseteq Hd!Handler
        BY DEF Hd!getOrderedHandlersForEvent, DispatchInv, Registered
      <3>3. input.event = "preToolUse" => Rules \subseteq Hd!getOrderedHandlersForEvent(input.event)
        <4> SUFFICES ASSUME input.event = "preToolUse"
                     PROVE  Rules \subseteq Hd!getOrderedHandlersForEvent("preToolUse")
          OBVIOUS
        <4>1. \A h \in Rules: h # None /\ h.event = "preToolUse"
          <5>1. \A h \in Rules: h # None
            BY RulesAre DEF Hd!NoneFits
          <5>2. \A h \in Rules: h.event = "preToolUse"
            BY DEF Rules, Rule
          <5>  QED  BY <5>1, <5>2
        <4>2. ASSUME NEW i \in Hd!Id, handlers[i] \in Rules
              PROVE  handlers[i] \in Hd!getOrderedHandlersForEvent("preToolUse")
          BY <4>1, <4>2 DEF Hd!getOrderedHandlersForEvent
        <4>3. /\ handlers["pre_step_gate"] = Rule("pre_step_gate", 10)
              /\ handlers["lifecycle_pre_tool"] = Rule("lifecycle_pre_tool", 20)
          BY DEF DispatchInv, Registered
        <4>  QED  BY <4>2, <4>3, HookIds DEF Rules
      <3>4. Asking(d)'
        BY <1>4, <2>4, <3>1, <3>2, <3>3 DEF Asking
      <3>  QED  BY <1>4, <3>1, <3>4 DEF Dispatched
    <2>  QED  BY <2>1, <2>2, <2>3, <2>4 DEF Hd!Input
  <1>  QED  BY <1>1, <1>2, <1>4, <1>5, DispatchGoes

\* A call returns what it was told.
LEMMA Returns ==
    ASSUME Hd!NoneFits, DispatchInv, NEW d \in Dispatch, dispatch[d].pc \in {"next", "waiting"},
           handlers' = handlers, host' = host,
           NEW v \in {"allowed", "denied"}, NEW a, Hd!Return(d, v, a),
           v = "denied" => a # None,
           v = "allowed" => dispatch[d].todo = {},
           \A w \in late': w \in late \/ w[1] = d, v = "allowed" => late' = late
    PROVE  DispatchInv'
  <1>1. Asking(d) /\ Forgiven(d) /\ Dispatched(d)
    BY DEF DispatchInv, Dispatched, Asking, Hd!NoneFits
  <1>2. /\ DOMAIN dispatch' = Dispatch /\ \A e \in Dispatch: e # d => dispatch'[e] = dispatch[e]
        /\ DOMAIN dispatch'[d] = DOMAIN dispatch[d]
        /\ dispatch'[d].pc = "done" /\ dispatch'[d].verdict = v /\ dispatch'[d].accuser = a
        /\ dispatch'[d].cleared = dispatch[d].passed /\ dispatch'[d].input = dispatch[d].input
    BY Rewrites
  <1>3. Answered(d)'
    BY <1>1, <1>2 DEF Asking, Answered
  <1>4. Dispatched(d)'
    BY <1>1, <1>2, <1>3 DEF Dispatched
  <1>5. Registered' /\ Hosted'
    BY DEF DispatchInv, Registered, Hosted
  <1>6. dispatch'[d].verdict # "denied" => Forgiven(d)'
    BY <1>1, <1>2 DEF Forgiven
  <1>  QED  BY <1>2, <1>4, <1>5, <1>6, DispatchGoes

\* A call goes on, with one more that passed it or was given up, or waits for an answer.
Moves(d) ==
    \/ /\ dispatch'[d].pc = "next" /\ dispatch'[d].todo = dispatch[d].todo \ {Hd!Asked(d)}
       /\ \/ dispatch'[d].passed = dispatch[d].passed \cup {Hd!Asked(d)}
          \/ dispatch'[d].passed = dispatch[d].passed /\ Hd!Asked(d) \notin Rules
       /\ Hd!Asked(d) \in Rules => dispatch[d].input.kind = "safe"
    \/ /\ dispatch'[d].pc = "waiting" /\ dispatch'[d].todo = dispatch[d].todo
       /\ dispatch'[d].passed = dispatch[d].passed
       /\ ~ (Hd!Asked(d).builtin /\ Hd!Asked(d).tier = 1)

LEMMA GoesOn ==
    ASSUME Hd!NoneFits, DispatchInv, NEW d \in Dispatch, dispatch[d].pc \in {"next", "waiting"},
           handlers' = handlers, host' = host, dispatch[d].todo # {},
           DOMAIN dispatch' = Dispatch, \A e \in Dispatch: e # d => dispatch'[e] = dispatch[e],
           DOMAIN dispatch'[d] = DOMAIN dispatch[d],
           dispatch'[d].input = dispatch[d].input, dispatch'[d].verdict = dispatch[d].verdict,
           Moves(d),
           \A w \in late': w \in late \/ (w = <<d, Hd!Asked(d)>> /\ ~ Hd!FailsClosed(Hd!Asked(d)))
    PROVE  DispatchInv'
  <1>1. Asking(d) /\ Forgiven(d) /\ Dispatched(d)
    BY DEF DispatchInv, Dispatched, Asking, Hd!NoneFits
  <1>2. Hd!Asked(d) \in dispatch[d].todo /\ Hd!Asked(d) \in Hd!Handler
    BY <1>1, FirstIs DEF Asking, Hd!Asked
  <1>3. Asking(d)'
    <2>1. dispatch'[d].todo \subseteq Hd!Handler /\ dispatch'[d].passed \subseteq Hd!Handler
      BY <1>1, <1>2 DEF Asking, Moves
    <2>2. dispatch[d].input.event = "preToolUse" => Rules \subseteq dispatch'[d].passed \cup dispatch'[d].todo
      BY <1>1, <1>2 DEF Asking, Moves
    <2>3. Rules \cap dispatch'[d].passed # {} => dispatch[d].input.kind = "safe"
      BY <1>1, <1>2 DEF Asking, Moves
    <2>4. dispatch'[d].pc = "waiting" =>
            /\ dispatch'[d].todo # {}
            /\ ~ (Hd!First(dispatch'[d].todo).builtin /\ Hd!First(dispatch'[d].todo).tier = 1)
      BY DEF Hd!Asked, Moves
    <2>  QED  BY <1>1, <2>1, <2>2, <2>3, <2>4 DEF Asking
  <1>4. Dispatched(d)'
    BY <1>1, <1>3 DEF Dispatched, Moves
  <1>5. Registered' /\ Hosted'
    BY DEF DispatchInv, Registered, Hosted
  <1>6. Forgiven(d)'
    BY <1>1, <1>2, HandlerFields DEF Forgiven, Hd!FailsClosed
  <1>7. \A e \in Dispatch: e # d => \A w \in late': w[1] = e => w \in late
    OBVIOUS
  <1>  QED  BY <1>4, <1>5, <1>6, <1>7, DispatchGoes


LEMMA AskStep ==
    ASSUME Hd!NoneFits, DispatchInv, NEW d \in Dispatch, Hd!Ask(d)
    PROVE  DispatchInv'
  <1>1. /\ dispatch[d].pc = "next" /\ dispatch[d].todo # {}
        /\ handlers' = handlers /\ late' = late /\ host' = host
    BY DEF Hd!Ask
  <1>2. Asking(d)
    BY <1>1 DEF DispatchInv, Dispatched
  <1>3. Hd!Asked(d) \in dispatch[d].todo /\ Hd!Asked(d) \in Hd!Handler /\ Hd!Asked(d) # None
    BY <1>1, <1>2, FirstIs DEF Asking, Hd!Asked, Hd!NoneFits
  <1>4. /\ DOMAIN dispatch = Dispatch
        /\ DOMAIN dispatch[d] = {"pc", "input", "todo", "passed", "followup", "verdict", "cleared", "accuser"}
    BY DEF DispatchInv, Dispatched
  <1>5. CASE Hd!Asked(d).builtin /\ Hd!Asked(d).tier = 1 /\ Hd!Safe(dispatch[d].input.kind)
    <2>1. dispatch' = [dispatch EXCEPT ![d].todo = @ \ {Hd!Asked(d)}, ![d].passed = @ \cup {Hd!Asked(d)}]
      BY <1>5 DEF Hd!Ask
    <2>2. /\ DOMAIN dispatch' = Dispatch /\ \A e \in Dispatch: e # d => dispatch'[e] = dispatch[e]
          /\ DOMAIN dispatch'[d] = DOMAIN dispatch[d]
          /\ dispatch'[d].input = dispatch[d].input /\ dispatch'[d].verdict = dispatch[d].verdict
          /\ dispatch'[d].pc = "next" /\ dispatch'[d].todo = dispatch[d].todo \ {Hd!Asked(d)}
          /\ dispatch'[d].passed = dispatch[d].passed \cup {Hd!Asked(d)}
      BY <1>1, <1>4, <2>1
    <2>3. dispatch[d].input.kind = "safe"
      BY <1>5 DEF Hd!Safe
    <2>4. Moves(d)
      BY <2>2, <2>3 DEF Moves
    <2>5. \A w \in late': w \in late \/ (w = <<d, Hd!Asked(d)>> /\ ~ Hd!FailsClosed(Hd!Asked(d)))
      BY <1>1
    <2>6. dispatch[d].pc \in {"next", "waiting"}
      BY <1>1
    <2>  QED  BY <1>1, <2>2, <2>4, <2>5, <2>6, GoesOn
  <1>6. CASE Hd!Asked(d).builtin /\ Hd!Asked(d).tier = 1 /\ ~ Hd!Safe(dispatch[d].input.kind)
    BY <1>1, <1>3, <1>6, Returns DEF Hd!Ask
  <1>7. CASE ~ (Hd!Asked(d).builtin /\ Hd!Asked(d).tier = 1)
    <2>1. dispatch' = [dispatch EXCEPT ![d].pc = "waiting"]
      BY <1>7 DEF Hd!Ask
    <2>2. /\ DOMAIN dispatch' = Dispatch /\ \A e \in Dispatch: e # d => dispatch'[e] = dispatch[e]
          /\ DOMAIN dispatch'[d] = DOMAIN dispatch[d]
          /\ dispatch'[d].input = dispatch[d].input /\ dispatch'[d].verdict = dispatch[d].verdict
          /\ dispatch'[d].pc = "waiting" /\ dispatch'[d].todo = dispatch[d].todo
          /\ dispatch'[d].passed = dispatch[d].passed
      BY <1>4, <2>1
    <2>3. Moves(d)
      BY <1>7, <2>2 DEF Moves
    <2>4. \A w \in late': w \in late \/ (w = <<d, Hd!Asked(d)>> /\ ~ Hd!FailsClosed(Hd!Asked(d)))
      BY <1>1
    <2>5. dispatch[d].pc \in {"next", "waiting"}
      BY <1>1
    <2>  QED  BY <1>1, <2>2, <2>3, <2>4, <2>5, GoesOn
  <1>  QED  BY <1>5, <1>6, <1>7

LEMMA AnswerSteps ==
    ASSUME Hd!NoneFits, DispatchInv, NEW d \in Dispatch,
           Hd!Pass(d) \/ Hd!Deny(d) \/ Hd!Throw(d) \/ Hd!Timeout(d)
    PROVE  DispatchInv'
  <1>1. dispatch[d].pc = "waiting" /\ handlers' = handlers /\ host' = host
    BY DEF Hd!Pass, Hd!Deny, Hd!Throw, Hd!Timeout
  <1>2. Asking(d) /\ dispatch[d].todo # {} /\ ~ (Hd!Asked(d).builtin /\ Hd!Asked(d).tier = 1)
    BY <1>1 DEF DispatchInv, Dispatched, Asking, Hd!Asked
  <1>3. Hd!Asked(d) \in Hd!Handler /\ Hd!Asked(d) # None /\ Hd!Asked(d) \notin Rules
    BY <1>2, FirstIs, RulesAre DEF Asking, Hd!Asked, Hd!NoneFits
  <1>4. /\ DOMAIN dispatch = Dispatch
        /\ DOMAIN dispatch[d] = {"pc", "input", "todo", "passed", "followup", "verdict", "cleared", "accuser"}
    BY DEF DispatchInv, Dispatched
  <1>5. CASE Hd!Pass(d)
    <2>1. PICK followup: dispatch' = [dispatch EXCEPT ![d].pc = "next", ![d].todo = @ \ {Hd!Asked(d)},
                                        ![d].passed = @ \cup {Hd!Asked(d)}, ![d].followup = followup]
      BY <1>5 DEF Hd!Pass
    <2>2. /\ DOMAIN dispatch' = Dispatch /\ \A e \in Dispatch: e # d => dispatch'[e] = dispatch[e]
          /\ DOMAIN dispatch'[d] = DOMAIN dispatch[d]
          /\ dispatch'[d].input = dispatch[d].input /\ dispatch'[d].verdict = dispatch[d].verdict
          /\ dispatch'[d].pc = "next" /\ dispatch'[d].todo = dispatch[d].todo \ {Hd!Asked(d)}
          /\ dispatch'[d].passed = dispatch[d].passed \cup {Hd!Asked(d)}
      BY <1>4, <2>1
    <2>3. late' = late
      BY <1>5 DEF Hd!Pass
    <2>4. Moves(d)
      BY <1>3, <2>2 DEF Moves
    <2>5. \A w \in late': w \in late \/ (w = <<d, Hd!Asked(d)>> /\ ~ Hd!FailsClosed(Hd!Asked(d)))
      BY <2>3
    <2>6. dispatch[d].pc \in {"next", "waiting"}
      BY <1>1
    <2>  QED  BY <1>1, <1>2, <2>2, <2>4, <2>5, <2>6, GoesOn
  <1>6. CASE Hd!Deny(d)
    <2>1. Hd!Return(d, "denied", Hd!Asked(d)) /\ late' = late
      BY <1>6 DEF Hd!Deny
    <2>  QED  BY <1>1, <1>3, <2>1, Returns
  <1>7. CASE Hd!Throw(d) \/ Hd!Timeout(d)
    <2>1. /\ Hd!Failed(d)
          /\ late' = late \/ late' = late \cup {<<d, Hd!Asked(d)>>}
      BY <1>7 DEF Hd!Throw, Hd!Timeout
    <2>2. CASE Hd!FailsClosed(Hd!Asked(d))
      <3>1. Hd!Return(d, "denied", Hd!Asked(d)) /\ \A w \in late': w \in late \/ w[1] = d
        BY <2>1, <2>2 DEF Hd!Failed
      <3>  QED  BY <1>1, <1>3, <3>1, Returns
    <2>3. CASE ~ Hd!FailsClosed(Hd!Asked(d))
      <3>1. Hd!Onward(d)
        BY <2>1, <2>3 DEF Hd!Failed
      <3>2. \A w \in late': w \in late \/ (w = <<d, Hd!Asked(d)>> /\ ~ Hd!FailsClosed(Hd!Asked(d)))
        BY <2>1, <2>3
      <3>3. Moves(d)
        BY <1>3, <3>1, Rewrites DEF Moves
      <3>  QED  BY <1>1, <1>2, <3>1, <3>2, <3>3, Rewrites, GoesOn
    <2>  QED  BY <2>2, <2>3
  <1>  QED  BY <1>5, <1>6, <1>7

LEMMA HostSteps ==
    ASSUME Hd!NoneFits, DispatchInv,
           \/ \E kind \in {"safe", "unsafe", "probe", "invalid"}: Hd!HostSpawn(kind)
           \/ Hd!CliPrint \/ Hd!HostRead
    PROVE  DispatchInv'
  <1>1. handlers' = handlers /\ dispatch' = dispatch /\ late' = late
    BY DEF Hd!HostSpawn, Hd!CliPrint, Hd!HostRead
  <1>2. /\ None # "denied" /\ None # "refused" /\ None # "allowed"
        /\ host \in [pc: {"idle", "spawned", "done"}, kind: {"safe", "unsafe", "probe", "invalid", None},
                     printed: {"ok", "refused", None}, told: {"error", "allowed", "denied", None}]
        /\ host.pc = "idle" => host.printed = None /\ host.told = None
        /\ host.pc = "spawned" => host.told = None
    BY DEF Hd!NoneFits, DispatchInv, Hosted
  <1>3. CASE \E kind \in {"safe", "unsafe", "probe", "invalid"}: Hd!HostSpawn(kind)
    <2>1. PICK kind \in {"safe", "unsafe", "probe", "invalid"}: Hd!HostSpawn(kind)
      BY <1>3
    <2>2. ASSUME kind = "invalid" PROVE Hosted'
      BY <1>2, <2>1, <2>2 DEF Hd!HostSpawn, Hosted
    <2>3. ASSUME kind # "invalid" PROVE Hosted'
      BY <1>2, <2>1, <2>3 DEF Hd!HostSpawn, Hosted
    <2>4. Hosted'
      BY <2>2, <2>3
    <2>  QED  BY <1>1, <2>4 DEF DispatchInv, Registered, Dispatched, Asking, Answered, Forgiven
  <1>4. CASE Hd!CliPrint
    <2>1. Hosted'
      BY <1>2, <1>4 DEF Hd!CliPrint, Hosted
    <2>  QED  BY <1>1, <2>1 DEF DispatchInv, Registered, Dispatched, Asking, Answered, Forgiven
  <1>5. CASE Hd!HostRead
    <2>1. Hosted'
      BY <1>2, <1>5 DEF Hd!HostRead, Hd!Audited, Hosted
    <2>  QED  BY <1>1, <2>1 DEF DispatchInv, Registered, Dispatched, Asking, Answered, Forgiven
  <1>  QED  BY <1>3, <1>4, <1>5

LEMMA DispatchStepKeeps == ASSUME Hd!NoneFits, DispatchInv, [Hd!Next]_Hd!vars PROVE DispatchInv'
  <1>1. CASE UNCHANGED Hd!vars
    BY <1>1 DEF Hd!vars, DispatchInv, Registered, Hosted, Dispatched, Asking, Answered, Forgiven
  <1>2. CASE Hd!Reset \/ \E h \in Hd!Registrable: Hd!Register(h)
    BY <1>2, RegistryStep
  <1>3. ASSUME NEW d \in Dispatch, \E input \in Hd!Input: Hd!Begin(d, input)
        PROVE  DispatchInv'
    BY <1>3, BeginStep
  <1>4. ASSUME NEW d \in Dispatch,
               Hd!Ask(d) \/ Hd!Pass(d) \/ Hd!Deny(d) \/ Hd!Throw(d) \/ Hd!Timeout(d)
        PROVE  DispatchInv'
    BY <1>4, AskStep, AnswerSteps
  <1>5. ASSUME NEW d \in Dispatch, Hd!Finish(d) PROVE DispatchInv'
    BY <1>5, Returns DEF Hd!Finish
  <1>6. ASSUME NEW w \in late, Hd!AnswerLate(w) PROVE DispatchInv'
    <2>1. /\ handlers' = handlers /\ dispatch' = dispatch /\ host' = host
          /\ \A v \in late': v \in late
      BY <1>6 DEF Hd!AnswerLate
    <2>2. \A d \in Dispatch: Forgiven(d) => Forgiven(d)'
      BY <2>1 DEF Forgiven
    <2>3. Registered' /\ Hosted' /\ \A d \in Dispatch: Dispatched(d)'
      BY <2>1, DispatchStays DEF DispatchInv, Registered, Hosted
    <2>  QED  BY <2>1, <2>2, <2>3 DEF DispatchInv
  <1>7. CASE \/ \E kind \in {"safe", "unsafe", "probe", "invalid"}: Hd!HostSpawn(kind)
             \/ Hd!CliPrint \/ Hd!HostRead
    BY <1>7, HostSteps
  <1>  QED  BY <1>1, <1>2, <1>3, <1>4, <1>5, <1>6, <1>7 DEF Hd!Next

LEMMA DispatchImplied == ASSUME Hd!NoneFits, DispatchInv PROVE Hd!SafetyFirst
  <1>1. ASSUME NEW d \in Dispatch, dispatch[d].verdict = "allowed", dispatch[d].input.kind # "probe",
               dispatch[d].input.event = "preToolUse"
        PROVE  /\ Rules \subseteq dispatch[d].cleared
               /\ Hd!Safe(dispatch[d].input.kind)
               /\ ~ \E w \in late: w[1] = d /\ (w[2].tier = 1 \/ w[2].closed)
    <2>1. dispatch[d].pc = "done" /\ Answered(d) /\ Forgiven(d)
      BY <1>1 DEF DispatchInv, Dispatched, Asking, Hd!NoneFits
    <2>2. Rules \subseteq dispatch[d].cleared /\ Rules # {}
      BY <1>1, <2>1 DEF Answered, Rules
    <2>3. dispatch[d].input.kind = "safe"
      BY <1>1, <2>1, <2>2 DEF Answered
    <2>  QED  BY <2>1, <2>2, <2>3 DEF Hd!Safe, Forgiven
  <1>2. ASSUME NEW d \in Dispatch, dispatch[d].verdict = "denied" PROVE dispatch[d].accuser # None
    <2>1. dispatch[d].pc = "done" /\ Answered(d)
      BY <1>2 DEF DispatchInv, Dispatched, Asking, Hd!NoneFits
    <2>  QED  BY <1>2, <2>1 DEF Answered
  <1>3. host.told = "denied" <=> host.pc = "done" /\ host.printed = "refused"
    BY DEF DispatchInv, Hosted
  <1>  QED  BY <1>1, <1>2, <1>3, RulesAre DEF Hd!SafetyFirst

\* However handlers are registered and replaced, time out and throw, a tool is allowed only after both
\* safety rules passed it, and the script refuses exactly what its CLI refused (dispatchHook in
\* hooks/dispatcher.ts, hooks/registry.ts and hooks/omcu-hook.mjs).
THEOREM AllowedIsSafe == ASSUME Hd!NoneFits PROVE Hd!Spec => []Hd!SafetyFirst
  <1>1. DispatchInv /\ [Hd!Next]_Hd!vars => DispatchInv'
    BY DispatchStepKeeps
  <1>2. Hd!Init => DispatchInv
    BY HookInitially
  <1>3. DispatchInv => Hd!SafetyFirst
    BY DispatchImplied
  <1> QED  BY <1>1, <1>2, <1>3, PTL DEF Hd!Spec

=============================================================================
