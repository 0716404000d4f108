------------------------------ MODULE Workflow ------------------------------
(***************************************************************************)
(* Workflow runs: WorkflowPersistenceStore (workflows/store.ts), the       *)
(* runner that executes a plan (workflows/runner.ts), the replay of its    *)
(* events (workflows/replay.ts) and the command that connects them         *)
(* (cli/orchestration.ts, "workflow run" and "lease-reconcile").           *)
(*                                                                         *)
(* A run is a record (revision, execution lease and its generation) and a  *)
(* journal of events.  Both change under one lock, the journal first, so   *)
(* that a kill leaves an event the record does not count yet; read() takes *)
(* the larger of the two revisions.  Every change names the revision it    *)
(* was decided on and is refused when there is a newer one.                *)
(*                                                                         *)
(* A Runner is one process that executes "workflow run" once.              *)
(***************************************************************************)
EXTENDS Naturals, Sequences, SequencesExt, FiniteSets, FiniteSetsExt

CONSTANTS
    Runner,     \* processes
    Proven,     \* those whose start identity the platform can prove
    Stages,     \* the tasks of the plan, in order, as [max |-> Nat, needs |-> set of indices]
    None,
    MaxFault    \* bound: kills and failing calls

VARIABLES
    record,     \* record.json
    events,     \* the events journal: sequence of [event, revision]
    storeLock,  \* holder of the lock of the record, or None
    supported,  \* capability_tier # "unsupported"
    pc,         \* program counter of each runner
    seen,       \* events as the runner knows them
    rev,        \* the revision it will name next
    lease,      \* generation of the lease it was given, or None
    staged,     \* what it is about to write, or None
    invoked,    \* history: how often Cursor was started for a task and attempt
    faults

vars == <<record, events, storeLock, supported, pc, seen, rev, lease, staged, invoked, faults>>
local == <<seen, rev, lease>>

Task == DOMAIN Stages
Attempt == 1 .. 10

(* validateWorkflowDefinition: a plan has 1 to 128 stages, a stage 1 to 10  *)
(* attempts, and what it needs comes before it.                            *)
StagesFit ==
    /\ Len(Stages) \in 1 .. 128 /\ Task = 1 .. Len(Stages)
    /\ \A t \in Task: Stages[t].max \in Attempt /\ Stages[t].needs \subseteq 1 .. t - 1

Started(t, a) == [kind |-> "task_started", task |-> t, attempt |-> a, status |-> None]
Receipt(t, a, s) == [kind |-> "task_receipt", task |-> t, attempt |-> a, status |-> s]
Mark(k) == [kind |-> k, task |-> 0, attempt |-> 0, status |-> None]

-----------------------------------------------------------------------------
(* What is kept.  A mutation is staged with the label it was started from. *)

Outcome == {"passed", "failed", "blocked", "unsupported"}

Event ==
    {e \in [kind: {"run_started", "run_finished", "task_started", "task_receipt"},
            task: Nat, attempt: Nat, status: Outcome \cup {None}] :
        IF e.kind = "task_receipt" THEN e.status \in Outcome ELSE e.status = None}

Lease == [owner: Runner, generation: Nat, nonce: BOOLEAN]
Record == [revision: Nat, legacy: Seq(Event), generation: Nat, lease: Lease \cup {None}]
Entry == [event: Event, revision: Nat]

Recording == {"run_started", "run_finished", "unrun", "started", "running"}
Leasing == {"acquire", "release", "release_failed"}
Staged == [next: {"append", "write"}, event: Event \cup {None}, from: Recording \cup Leasing, write: Record]

\* None is no runner, lease, event or staged write.
NoneFits == None \notin Runner \cup Lease \cup Event \cup Staged

-----------------------------------------------------------------------------
(* Replay.                                                                 *)

\* Where the receipts of t are, one per attempt.
ReceiptsOf(es, t) == {i \in DOMAIN es: es[i].kind = "task_receipt" /\ es[i].task = t}

\* Mutant: an attempt that was started and has no receipt is forgotten.
InFlightNever(es, t) == FALSE

InFlight(es, t) ==
    \E i \in DOMAIN es:
        /\ es[i].kind = "task_started" /\ es[i].task = t
        /\ \A j \in i + 1 .. Len(es): ~ (es[j].kind = "task_receipt" /\ es[j].task = t)

TaskStatus(es, t) ==
    LET receipts == ReceiptsOf(es, t)
        last == es[Max(receipts)].status IN
    IF InFlight(es, t) THEN "attempt_ambiguous"
    ELSE IF receipts = {} THEN "pending"
    ELSE IF last # "failed" THEN last
    ELSE IF Cardinality(receipts) >= Stages[t].max THEN "attempt_failed_terminal"
    ELSE "attempt_failed_retryable"

RunActive(es) ==
    /\ \A t \in Task: TaskStatus(es, t) \in {"pending", "passed", "attempt_failed_retryable"}
    /\ ~ /\ \E i \in DOMAIN es: es[i].kind = "run_finished"
         /\ \A t \in Task: TaskStatus(es, t) = "passed"

-----------------------------------------------------------------------------
(* The record and the journal, as read() puts them together.               *)

FromJournal(r, log) ==
    Len(log) > 0 /\ (r.legacy = <<>> \/ Len(log) >= Len(r.legacy))

ReadEvents(r, log) ==
    IF FromJournal(r, log) THEN [i \in DOMAIN log |-> log[i].event] ELSE r.legacy

\* Mutant: the revision of the record alone.
RecordRevision(r, log) == r.revision

ReadRevision(r, log) ==
    IF FromJournal(r, log) /\ Last(log).revision > r.revision
    THEN Last(log).revision ELSE r.revision

Events == ReadEvents(record, events)
Revision == ReadRevision(record, events)

Alive(p) == pc[p] \notin {"idle", "dead", "done"}

Evidence(l) ==
    IF ~ l.nonce THEN {"ambiguous"}
    ELSE IF ~ Alive(l.owner) THEN {"dead", "ambiguous"}
    ELSE IF l.owner \in Proven THEN {"active", "ambiguous"} ELSE {"ambiguous"}

-----------------------------------------------------------------------------
LegacyLease(p) == [owner |-> p, generation |-> 1, nonce |-> FALSE]

NewRecord == [revision |-> 1, legacy |-> <<>>, generation |-> 0, lease |-> None]

LegacyRecords ==
    {[revision |-> 3, legacy |-> <<Mark("run_started"), Receipt(1, 1, "passed")>>,
      generation |-> g, lease |-> l] :
        g \in {1}, l \in {None} \cup {LegacyLease(p) : p \in Runner}}

Init ==
    /\ record \in {NewRecord} \cup LegacyRecords
    /\ events = <<>>
    /\ storeLock = None
    /\ supported \in BOOLEAN
    /\ pc = [p \in Runner |-> "idle"]
    /\ seen = [p \in Runner |-> <<>>]
    /\ rev = [p \in Runner |-> 0]
    /\ lease = [p \in Runner |-> None]
    /\ staged = None
    /\ invoked = [t \in Task |-> [a \in Attempt |-> 0]]
    /\ faults = 0

Goto(p, l) == pc' = [pc EXCEPT ![p] = l]

(* store.read(id) at the start of the command takes no lock: the record    *)
(* is read before the journal.                                             *)
ReadRecord(p) ==
    /\ pc[p] = "idle"
    /\ Goto(p, "read")
    /\ rev' = [rev EXCEPT ![p] = record.revision]
    /\ seen' = [seen EXCEPT ![p] = record.legacy]
    /\ UNCHANGED <<record, events, storeLock, supported, lease, staged, invoked, faults>>

ReadJournal(p) ==
    LET old == [revision |-> rev[p], legacy |-> seen[p]] IN
    /\ pc[p] = "read"
    /\ rev' = [rev EXCEPT ![p] = ReadRevision(old, events)]
    /\ seen' = [seen EXCEPT ![p] = ReadEvents(old, events)]
    /\ Goto(p, "begin")
    /\ UNCHANGED <<record, events, storeLock, supported, lease, staged, invoked, faults>>

-----------------------------------------------------------------------------
(* WorkflowRunner.run: what comes next is decided from the events seen.    *)

Pending(es) == {t \in Task: TaskStatus(es, t) # "passed"}
Current(es) == CHOOSE t \in Pending(es): \A u \in Pending(es): t <= u
NextAttempt(es) == Cardinality(ReceiptsOf(es, Current(es))) + 1

DependenciesReady(es, t) == \A u \in Stages[t].needs: TaskStatus(es, u) = "passed"

\* The receipt of a task that is not run, or None.
Unrun(es) ==
    IF ~ DependenciesReady(es, Current(es)) THEN Receipt(Current(es), 1, "blocked")
    ELSE IF ~ supported THEN Receipt(Current(es), 1, "unsupported")
    ELSE None

Decide(p) ==
    LET es == seen[p]
        settled == \E t \in Task:
            TaskStatus(es, t) \in {"blocked", "unsupported", "attempt_failed_terminal"} IN
    /\ \/ pc[p] = "begin" /\ (es = <<>> \/ RunActive(es))
       \/ pc[p] = "next"
    /\ IF es = <<>> THEN Goto(p, "run_started")
       ELSE IF Pending(es) = {} \/ settled THEN Goto(p, "run_finished")
       ELSE IF Unrun(es) # None THEN Goto(p, "unrun")
       ELSE Goto(p, "acquire")
    /\ UNCHANGED <<record, events, storeLock, supported, local, staged, invoked, faults>>

GiveUp(p) ==
    /\ pc[p] = "begin" /\ seen[p] # <<>> /\ ~ RunActive(seen[p])
    /\ Goto(p, "done")
    /\ UNCHANGED <<record, events, storeLock, supported, local, staged, invoked, faults>>

Invoke(p) ==
    LET t == Current(seen[p]) IN
    /\ pc[p] = "invoke"
    /\ invoked' = [invoked EXCEPT ![t][Last(seen[p]).attempt] = @ + 1]
    /\ Goto(p, "running")
    /\ UNCHANGED <<record, events, storeLock, supported, local, staged, faults>>

\* Where an error inside the try block of the attempt leads.
Thrown(p) == IF lease[p] # None THEN "release_failed" ELSE "done"

AdapterFails(p) ==
    /\ pc[p] = "running" /\ faults < MaxFault
    /\ faults' = faults + 1
    /\ Goto(p, Thrown(p))
    /\ UNCHANGED <<record, events, storeLock, supported, local, staged, invoked>>

-----------------------------------------------------------------------------
(* Mutations.  Each takes the lock, reads, compares the revision, carries  *)
(* over events of an old record, and writes: append() the journal and the  *)
(* record, the others the record only.  staged holds the writes to come.   *)

Candidates(p) ==
    LET es == seen[p] IN
    CASE pc[p] = "run_started"  -> {Mark("run_started")}
      [] pc[p] = "run_finished" -> {Mark("run_finished")}
      [] pc[p] = "unrun"        -> {Unrun(es)}
      [] pc[p] = "started"      -> {Started(Current(es), NextAttempt(es))}
      [] pc[p] = "running"      -> {Receipt(Current(es), Last(es).attempt, s) : s \in {"passed", "failed"}}
      [] OTHER                  -> {}

Fenced(p) == storeLock = None /\ rev[p] = Revision

StartAppend(p) ==
    \E e \in Candidates(p):
        /\ Fenced(p)
        /\ Events = seen[p]                 \* sequence and previous_event_sha256
        /\ storeLock' = p
        /\ staged' = [next |-> "append", event |-> e, from |-> pc[p],
                      write |-> [record EXCEPT !.revision = Revision + 1, !.legacy = <<>>]]
        /\ Goto(p, "migrate")
        /\ UNCHANGED <<record, events, supported, local, invoked, faults>>

StartAcquire(p) ==
    /\ pc[p] = "acquire"
    /\ Fenced(p)
    /\ record.lease # None => \E v \in Evidence(record.lease): v \notin {"active", "ambiguous"}
    /\ storeLock' = p
    /\ LET g == record.generation + 1 IN
       staged' = [next |-> "write", event |-> None, from |-> "acquire",
                  write |-> [revision |-> Revision + 1, legacy |-> <<>>, generation |-> g,
                             lease |-> [owner |-> p, generation |-> g, nonce |-> TRUE]]]
    /\ Goto(p, "migrate")
    /\ UNCHANGED <<record, events, supported, local, invoked, faults>>

StartRelease(p) ==
    /\ pc[p] \in {"release", "release_failed"}
    /\ Fenced(p)
    /\ record.lease # None
    /\ record.lease = [owner |-> p, generation |-> lease[p], nonce |-> TRUE]
    /\ storeLock' = p
    /\ staged' = [next |-> "write", event |-> None, from |-> pc[p],
                  write |-> [record EXCEPT !.revision = Revision + 1, !.legacy = <<>>, !.lease = None]]
    /\ Goto(p, "migrate")
    /\ UNCHANGED <<record, events, supported, local, invoked, faults>>

(* A mutation the store refuses: the revision moved on, or the lease is    *)
(* held, ambiguous or another's.                                           *)
Refused(p) ==
    /\ storeLock = None
    /\ \/ /\ Candidates(p) # {} /\ (rev[p] # Revision \/ Events # seen[p])
          /\ Goto(p, Thrown(p))
       \/ /\ pc[p] = "acquire"
          /\ \/ rev[p] # Revision
             \/ record.lease # None /\ Evidence(record.lease) \cap {"active", "ambiguous"} # {}
          /\ Goto(p, "done")
       \/ /\ pc[p] \in {"release", "release_failed"}
          /\ \/ rev[p] # Revision
             \/ record.lease # [owner |-> p, generation |-> lease[p], nonce |-> TRUE]
          /\ Goto(p, "done")
    /\ UNCHANGED <<record, events, storeLock, supported, local, staged, invoked, faults>>

MigrateFrom(r, log) == Len(log) + 1

Migrate(p) ==
    LET i == MigrateFrom(record, events) IN
    /\ pc[p] = "migrate"
    /\ IF i <= Len(record.legacy)
       THEN /\ events' = Append(events, [event |-> record.legacy[i], revision |-> i + 1])
            /\ UNCHANGED pc
       ELSE UNCHANGED events /\ Goto(p, staged.next)
    /\ UNCHANGED <<record, storeLock, supported, local, staged, invoked, faults>>

AppendJournal(p) ==
    /\ pc[p] = "append"
    /\ events' = Append(events, [event |-> staged.event, revision |-> staged.write.revision])
    /\ Goto(p, "write")
    /\ UNCHANGED <<record, storeLock, supported, local, staged, invoked, faults>>

AfterWrite(from) ==
    CASE from \in {"run_started", "unrun"} -> "next"
      [] from = "acquire"        -> "started"
      [] from = "started"        -> "invoke"
      [] from = "running"        -> "release"
      [] from = "release"        -> "next"
      [] OTHER                   -> "done"

Unlock == storeLock' = None /\ staged' = None

WriteRecord(p) ==
    /\ pc[p] = "write"
    /\ record' = staged.write
    /\ rev' = [rev EXCEPT ![p] = staged.write.revision]
    /\ seen' = [seen EXCEPT ![p] = IF staged.event = None THEN @ ELSE Append(@, staged.event)]
    /\ lease' = [lease EXCEPT ![p] =
            CASE staged.from = "acquire" -> staged.write.generation
              [] staged.from \in {"release", "release_failed"} -> None
              [] OTHER -> @]
    /\ Goto(p, AfterWrite(staged.from))
    /\ Unlock
    /\ UNCHANGED <<events, supported, invoked, faults>>

(* A journal or record that cannot be written, or of which it is not known *)
(* whether it was: the error leaves the lock and ends the run, by way of   *)
(* the release when there is a lease.                                      *)
WriteFails(p) ==
    /\ pc[p] \in {"migrate", "append", "write"} /\ faults < MaxFault
    /\ faults' = faults + 1
    /\ \/ UNCHANGED <<record, events>>
       \/ pc[p] = "append" /\ UNCHANGED record
          /\ events' = Append(events, [event |-> staged.event, revision |-> staged.write.revision])
       \/ pc[p] = "write" /\ record' = staged.write /\ UNCHANGED events
    /\ Goto(p, IF staged.from \in {"release", "release_failed"} THEN "done" ELSE Thrown(p))
    /\ Unlock
    /\ UNCHANGED <<supported, local, invoked>>

Kill(p) ==
    /\ Alive(p) /\ faults < MaxFault
    /\ faults' = faults + 1
    /\ Goto(p, "dead")
    /\ IF storeLock = p THEN Unlock ELSE UNCHANGED <<storeLock, staged>>
    /\ UNCHANGED <<record, events, supported, local, invoked>>

(* The operator clears an ambiguous lease with the revision and the lease  *)
(* shown to him; a change since then refuses the call.                     *)
Reconcile ==
    /\ storeLock = None
    /\ record.lease # None
    /\ "ambiguous" \in Evidence(record.lease)
    /\ events' = events \o [i \in 1 .. Len(record.legacy) - Len(events) |->
            [event |-> record.legacy[Len(events) + i], revision |-> Len(events) + i + 1]]
    /\ record' = [record EXCEPT !.revision = Revision + 1, !.legacy = <<>>, !.lease = None]
    /\ UNCHANGED <<storeLock, supported, pc, local, staged, invoked, faults>>

Run(p) ==
    \/ ReadRecord(p) \/ ReadJournal(p) \/ Decide(p) \/ GiveUp(p)
    \/ StartAppend(p) \/ StartAcquire(p) \/ StartRelease(p) \/ Refused(p)
    \/ Migrate(p) \/ AppendJournal(p) \/ WriteRecord(p) \/ Invoke(p)

Next ==
    \/ \E p \in Runner: Run(p) \/ AdapterFails(p) \/ WriteFails(p) \/ Kill(p)
    \/ Reconcile

Spec == Init /\ [][Next]_vars
-----------------------------------------------------------------------------
TypeOK ==
    /\ record.revision \in Nat /\ record.generation \in Nat
    /\ storeLock \in Runner \cup {None}
    /\ pc \in [Runner -> {"idle", "read", "begin", "next", "run_started", "run_finished", "unrun",
                          "acquire", "started", "invoke", "running", "release", "release_failed",
                          "migrate", "append", "write", "done", "dead"}]
    /\ (storeLock = None) = (staged = None)

(* Every attempt of a task starts Cursor at most once, after it was        *)
(* recorded and when everything it needs has passed, and two runners never *)
(* have Cursor at work for the same run, through kills between journal and *)
(* record, failing writes, leases an operator cleared while their owner    *)
(* lived, and migrations of old records cut short.                         *)
InvokedOnce ==
    /\ \A t \in Task, a \in Attempt:
        /\ invoked[t][a] <= 1
        /\ invoked[t][a] = 1 =>
            /\ \E i \in DOMAIN Events: Events[i] = Started(t, a)
            /\ a <= Stages[t].max
            /\ \A u \in Stages[t].needs: TaskStatus(Events, u) = "passed"
    /\ Cardinality({p \in Runner: pc[p] = "running"}) <= 1

(* Revisions fence: whatever read() returns differently after a step has a *)
(* higher revision, the events only grow and a lease generation never      *)
(* comes back, also when the record was not written after the journal.     *)
RevisionFences ==
    /\ <<Events, record.lease>>' # <<Events, record.lease>> => Revision' > Revision
    /\ IsPrefix(Events, Events')
    /\ record.lease' # record.lease /\ record'.lease # None
        => record'.generation > record.generation
=============================================================================
