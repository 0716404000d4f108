---------------------------- MODULE TaskCreation ----------------------------
(***************************************************************************)
(* Creation of team tasks (team/tasks.ts, createTask) next to the readers  *)
(* that rebuild a task file from its journal without the task's lock.  A   *)
(* task has a file and a journal; the team's config has the next number,   *)
(* and its lock orders creations.  What workers do to a task afterwards    *)
(* (TeamTasks) is here in single steps, as far as a creation can tell.     *)
(***************************************************************************)
EXTENDS Naturals, Sequences, FiniteSets, FiniteSetsExt

CONSTANTS
    Creator, Reader,
    Request,    \* [what, rid, after]: contents, request_id or None, blocked_by
    None,
    MaxTasks,   \* bound: numbers of tasks
    MaxCreates, \* bound: calls of createTask
    MaxChanges, \* bound: what workers do
    MaxFault    \* bound: kills, writes that fail, and files that are lost

Id == 1 .. MaxTasks

VARIABLES
    file,       \* per number: the task in task-N.json, or None
    history,    \* per number: the last task in its journal, or None
    next,       \* next_task_id
    configLock, depLock,
    creator,    \* per caller: pc, its request, the task it has made
    rebuild,    \* per caller: the task it read from a journal and is about to write, or None
    finisher,   \* the task a worker has completed and whose dependents it is unblocking, or None
    given,      \* history: what createTask returned, as a sequence of [id, request]
    undone,     \* history: tasks over whose newer file a rebuilt one was written
    creates, changes, createFaults

tasks == <<file, history>>
locks == <<configLock, depLock>>
vars == <<file, history, next, configLock, depLock, creator, rebuild, finisher, given, undone,
          creates, changes, createFaults>>

Status == {"pending", "blocked", "in_progress", "completed"}
Task == [request: Request, status: Status, version: Nat \ {0}]
Resting == [pc |-> "idle", request |-> None, task |-> None]

\* None is no task, no number and nobody; "worker" is no creator.
NoneFits == None \notin Creator \cup Id \cup Task \cup [id: Id, task: Task] /\ "worker" \notin Creator \cup {None}

Init ==
    /\ file = [t \in Id |-> None] /\ history = [t \in Id |-> None]
    /\ next = 1
    /\ configLock = None /\ depLock = None
    /\ creator = [c \in Creator |-> Resting]
    /\ rebuild = [x \in Creator \cup Reader |-> None]
    /\ finisher = None
    /\ given = <<>> /\ undone = {}
    /\ creates = 0 /\ changes = 0 /\ createFaults = 0

-----------------------------------------------------------------------------
(* enumerateAllTaskIds: a number with a journal counts, file or not.       *)

\* A slip: only files count.
KnownByFile == {t \in Id: file[t] # None}

Known == {t \in Id: file[t] # None \/ history[t] # None}

Lost(t) == file[t] = None /\ history[t] # None

\* readTaskUnlocked: a file that is gone is written anew, by whoever misses it and without
\* the lock of the task, which may meanwhile be changed or rebuilt by others.
RebuildRead(x, t) ==
    /\ rebuild[x] = None /\ Lost(t)
    /\ rebuild' = [rebuild EXCEPT ![x] = [id |-> t, task |-> history[t]]]
    /\ UNCHANGED <<tasks, next, locks, creator, finisher, given, undone, creates, changes, createFaults>>

RebuildWrite(x) ==
    /\ rebuild[x] # None
    /\ LET t == rebuild[x].id IN
        /\ file' = [file EXCEPT ![t] = rebuild[x].task]
        /\ undone' = undone \cup IF history[t] = rebuild[x].task THEN {} ELSE {t}
    /\ rebuild' = [rebuild EXCEPT ![x] = None]
    /\ UNCHANGED <<history, next, locks, creator, finisher, given, creates, changes, createFaults>>

At(c, pc) == creator[c].pc = pc

\* A creation reads what it is blocked by, all tasks when it looks for its request_id, and
\* whether its number is taken.
Reads(c) ==
    IF creator[c].pc \notin {"check", "find", "occupied"} THEN {}
    ELSE creator[c].request.after \cup {next} \cup IF At(c, "find") THEN Known ELSE {}

\* Everything c has to read can be read.
Readable(c, ids) == rebuild[c] = None /\ \A t \in ids: ~ Lost(t)

-----------------------------------------------------------------------------
Goto(c, pc) == creator' = [creator EXCEPT ![c].pc = pc]
Req(c) == creator[c].request
Leave(c) ==
    /\ creator' = [creator EXCEPT ![c] = Resting]
    /\ configLock' = None
    /\ depLock' = IF depLock = c THEN None ELSE depLock

Give(c, t) == given' = Append(given, [id |-> t, request |-> Req(c)]) /\ Leave(c)

Completed(t) == file[t] # None /\ file[t].status = "completed"
Fault == createFaults < MaxFault /\ createFaults' = createFaults + 1

\* A slip: dependencies are read without their lock.
createUncoordinated(c, request) ==
    /\ At(c, "idle") /\ creates < MaxCreates
    /\ creates' = creates + 1
    /\ creator' = [creator EXCEPT ![c] = [pc |-> "config", request |-> request, task |-> None]]
    /\ UNCHANGED <<tasks, next, locks, rebuild, finisher, given, undone, changes, createFaults>>

createTask(c, request) ==
    /\ At(c, "idle") /\ creates < MaxCreates
    /\ creates' = creates + 1
    /\ creator' = [creator EXCEPT ![c] = [pc |-> IF request.after = {} THEN "config" ELSE "dep",
                                          request |-> request, task |-> None]]
    /\ UNCHANGED <<tasks, next, locks, rebuild, finisher, given, undone, changes, createFaults>>

TakeDepLock(c) ==
    /\ At(c, "dep") /\ depLock = None
    /\ depLock' = c /\ Goto(c, "config")
    /\ UNCHANGED <<tasks, next, configLock, rebuild, finisher, given, undone, creates, changes, createFaults>>

TakeConfigLock(c) ==
    /\ At(c, "config") /\ configLock = None
    /\ configLock' = c /\ Goto(c, "check")
    /\ UNCHANGED <<tasks, next, depLock, rebuild, finisher, given, undone, creates, changes, createFaults>>

\* Dependencies exist; the one that is to be made is none of them.
Check(c) ==
    /\ At(c, "check") /\ Readable(c, Req(c).after)
    /\ IF next \notin Req(c).after /\ Req(c).after \subseteq Known
       THEN Goto(c, IF Req(c).rid = None THEN "occupied" ELSE "find") /\ UNCHANGED locks
       ELSE Leave(c)
    /\ UNCHANGED <<tasks, next, rebuild, finisher, given, undone, creates, changes, createFaults>>

\* findTaskByRequestId, and next_task_id if it is behind.
Find(c) ==
    LET found == {t \in Known: file[t].request.rid = Req(c).rid} IN
    /\ At(c, "find") /\ Readable(c, Known)
    /\ \/ /\ found = {} /\ Goto(c, "occupied")
          /\ UNCHANGED <<next, locks, given>>
       \/ /\ Cardinality(found) > 1 \/ \E t \in found: file[t].request # Req(c)
          /\ Leave(c) /\ UNCHANGED <<next, given>>
       \/ \E t \in found:
            /\ found = {t} /\ file[t].request = Req(c)
            /\ next' = Max({next, t + 1}) /\ Give(c, t)
    /\ UNCHANGED <<tasks, rebuild, finisher, undone, creates, changes, createFaults>>

\* sameTaskRequest: nobody has touched it yet.
Same(t, request) == file[t].version = 1 /\ file[t].request = request

\* A slip: the number is left to the next call.
OccupiedUncounted(c) ==
    /\ At(c, "occupied") /\ next \in Known /\ Readable(c, {next})
    /\ IF Same(next, Req(c)) THEN Give(c, next) /\ UNCHANGED next
       ELSE next' = next + 1 /\ UNCHANGED <<creator, locks, given>>
    /\ UNCHANGED <<tasks, rebuild, finisher, undone, creates, changes, createFaults>>

\* A number that is taken, by a creation that was cut short, is passed over, or given to
\* whoever asks for just this task.
Occupied(c) ==
    /\ At(c, "occupied") /\ next \in Known /\ Readable(c, {next})
    /\ next' = next + 1
    /\ IF Same(next, Req(c)) THEN Give(c, next) ELSE UNCHANGED <<creator, locks, given>>
    /\ UNCHANGED <<tasks, rebuild, finisher, undone, creates, changes, createFaults>>

Made(c) == [request |-> Req(c), version |-> 1,
            status |-> IF \A t \in Req(c).after: Completed(t) THEN "pending" ELSE "blocked"]

CreateFile(c) ==
    /\ At(c, "occupied") /\ next \in Id \ Known /\ Readable(c, Req(c).after)
    /\ file' = [file EXCEPT ![next] = Made(c)]
    /\ creator' = [creator EXCEPT ![c].pc = "journal", ![c].task = Made(c)]
    /\ UNCHANGED <<history, next, locks, rebuild, finisher, given, undone, creates, changes, createFaults>>

AppendCreated(c) ==
    /\ At(c, "journal")
    /\ history' = [history EXCEPT ![next] = creator[c].task]
    /\ Goto(c, "count")
    /\ UNCHANGED <<file, next, locks, rebuild, finisher, given, undone, creates, changes, createFaults>>

CountTask(c) ==
    /\ At(c, "count")
    /\ next' = next + 1 /\ Give(c, next)
    /\ UNCHANGED <<tasks, rebuild, finisher, undone, creates, changes, createFaults>>

\* A kill or an error between any two writes, or between the last and the answer; nothing
\* is taken back.
CutShort(c) ==
    /\ ~ At(c, "idle") /\ Fault
    /\ next' \in {next} \cup IF At(c, "count") THEN {next + 1} ELSE {}
    /\ creator' = [creator EXCEPT ![c] = Resting]
    /\ rebuild' = [rebuild EXCEPT ![c] = None]
    /\ configLock' = IF configLock = c THEN None ELSE configLock
    /\ depLock' = IF depLock = c THEN None ELSE depLock
    /\ UNCHANGED <<tasks, finisher, given, undone, creates, changes>>

-----------------------------------------------------------------------------
(* Workers.                                                                *)

Commit(t, task) == file' = [file EXCEPT ![t] = task] /\ history' = [history EXCEPT ![t] = task]
Current(t) == IF file[t] # None THEN file[t] ELSE history[t]
Moved(t, status) == [Current(t) EXCEPT !.status = status, !.version = @ + 1]
Open(t) == \A u \in Current(t).request.after: Current(u).status = "completed"
Change == changes < MaxChanges /\ changes' = changes + 1

Claim(t) ==
    /\ Change /\ depLock = None
    /\ t \in Known /\ Current(t).status \in {"pending", "blocked"} /\ Open(t)
    /\ Commit(t, Moved(t, "in_progress"))
    /\ UNCHANGED <<next, locks, creator, rebuild, finisher, given, undone, creates, createFaults>>

\* Under the dependency lock, which is held until the dependents are unblocked.
Complete(t) ==
    /\ Change /\ depLock = None /\ t \in Known /\ Current(t).status = "in_progress" /\ Open(t)
    /\ Commit(t, Moved(t, "completed"))
    /\ depLock' = "worker" /\ finisher' = t
    /\ UNCHANGED <<next, configLock, creator, rebuild, given, undone, creates, createFaults>>

Freed == {t \in Known: Current(t).status = "blocked" /\ finisher \in Current(t).request.after /\ Open(t)}

Unblock ==
    /\ finisher # None
    /\ file' = [t \in Id |-> IF t \in Freed THEN Moved(t, "pending") ELSE file[t]]
    /\ history' = [t \in Id |-> IF t \in Freed THEN Moved(t, "pending") ELSE history[t]]
    /\ finisher' = None /\ depLock' = None
    /\ UNCHANGED <<next, configLock, creator, rebuild, given, undone, creates, changes, createFaults>>

\* commitTaskWithJournal fails twice and unlinks the file; the journal has the old state
\* again, two versions on.
Unlink(t) ==
    /\ Fault /\ t \in Known /\ Current(t).status \in {"pending", "in_progress"}
    /\ file' = [file EXCEPT ![t] = None]
    /\ history' = [history EXCEPT ![t] = [Current(t) EXCEPT !.version = @ + 2]]
    /\ UNCHANGED <<next, locks, creator, rebuild, finisher, given, undone, creates, changes>>

Next ==
    \/ \E c \in Creator:
        \/ \E request \in Request: createTask(c, request)
        \/ TakeDepLock(c) \/ TakeConfigLock(c) \/ Check(c) \/ Find(c) \/ Occupied(c)
        \/ CreateFile(c) \/ AppendCreated(c) \/ CountTask(c) \/ CutShort(c)
        \/ (\E t \in Id \cap Reads(c): RebuildRead(c, t)) \/ RebuildWrite(c)
    \/ \E r \in Reader: (\E t \in Id: RebuildRead(r, t)) \/ RebuildWrite(r)
    \/ \E t \in Id: Claim(t) \/ Complete(t) \/ Unlink(t)
    \/ Unblock

Spec == Init /\ [][Next]_vars

-----------------------------------------------------------------------------
TypeOK ==
    /\ file \in [Id -> Task \cup {None}] /\ history \in [Id -> Task \cup {None}]
    /\ next \in 1 .. MaxTasks + 1
    /\ configLock \in Creator \cup {None} /\ depLock \in Creator \cup {"worker", None}
    /\ \A c \in Creator: At(c, "idle") \/ Req(c) \in Request
    /\ \A c \in Creator: (configLock = c) = (creator[c].pc \notin {"idle", "dep", "config"})

(* Whatever creations are cut short, repeated or overtaken, and files      *)
(* lost and rebuilt: what createTask returned is there and is what was     *)
(* asked for, and its number is not given out again; a request_id has one  *)
(* task at most; and without one, a task belongs to one caller.            *)
CreatedOnce ==
    /\ \A k \in DOMAIN given:
        /\ given[k].id \in Known /\ given[k].id < next
        /\ Current(given[k].id).request = given[k].request
    /\ \A t, u \in Known: Current(t).request.rid = Current(u).request.rid => t = u \/ Current(t).request.rid = None
    /\ \A j, k \in DOMAIN given: given[j].id = given[k].id => j = k \/ given[j].request.rid # None

(* A task waits exactly as long as something it is blocked by is not       *)
(* completed, unless a rebuilt file undid that: a creation and a           *)
(* completion do not miss one another.                                     *)
WaitsForReason ==
    \A t \in Known:
        LET deps == Current(t).request.after IN
        finisher = None /\ undone \cap (deps \cup {t}) = {} =>
            (Current(t).status = "blocked") = (\E u \in deps: Current(u).status # "completed")
=============================================================================
