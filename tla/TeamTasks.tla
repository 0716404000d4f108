----------------------------- MODULE TeamTasks -----------------------------
(***************************************************************************)
(* The shared task list of a team: src/src/team/tasks.ts.                  *)
(*                                                                         *)
(* A task is a file, task-N.json, and a journal of the records it had.     *)
(* Workers claim tasks, renew, finish or give up their claims, take over   *)
(* abandoned ones and reopen finished ones.  Every call is a process: it   *)
(* takes the dependency lock of the team (claims, take-overs, completions  *)
(* and reopenings only), carries out reopenings that were interrupted,     *)
(* takes the lock of its task, appends the new record to the journal,      *)
(* replaces the file, and goes on to the tasks blocked by it.  It may be   *)
(* killed or meet a write error between any two of these steps.            *)
(*                                                                         *)
(* Creation of tasks is not part of this module: the graph of blocked_by   *)
(* is a constant.                                                          *)
(***************************************************************************)
EXTENDS Integers, FiniteSets

CONSTANTS
    Worker, Task,
    Deps,          \* blocked_by of every task
    Assigned,      \* request_owner of every task, or None
    Supervised,    \* workers whose claims record their process
    None,
    Lease,         \* CLAIM_LEASE_MS
    MaxTotalLease, \* MAX_TOTAL_LEASE_MS
    MaxTime,       \* bound: the clock
    MaxOps,        \* bound: calls
    MaxFault       \* bound: write errors and kills

ASSUME TaskAssumption ==
    /\ Worker # {} /\ IsFiniteSet(Task)
    /\ Deps \in [Task -> SUBSET Task]
    /\ Assigned \in [Task -> Worker \cup {None}] /\ Supervised \subseteq Worker
    /\ None \notin Worker \cup Task
    /\ Lease \in Nat \ {0} /\ MaxTotalLease \in Nat
    /\ MaxTime \in Nat /\ MaxOps \in Nat /\ MaxFault \in Nat

VARIABLES
    file,       \* task-N.json, None when unlinked
    journal,    \* of every task: number of records, the last one, whether one is a reopening
    intents,    \* reopen-N.intent.json
    depLock, taskLock,
    clock,
    alive,      \* is the worker process (the one its claims name) alive?
    pc, call,   \* a worker's call in progress: its step and its arguments
    stage,      \* the record being committed, and the one before it
    cascade,    \* dependents still to be visited
    pending,    \* intents reconcilePendingCascadeIntents has still to look at
    granted,    \* claims returned to a caller: task, token, generation
    ops, faults

store == <<file, journal, intents>>
vars == <<file, journal, intents, depLock, taskLock, clock, alive, pc, call, stage, cascade,
          pending, granted, ops, faults>>

Status == {"pending", "blocked", "in_progress", "completed", "failed"}
Terminal == {"completed", "failed"}

\* readTaskUnlocked: a missing file is rebuilt from the journal.
Current(t) == IF file[t] = None THEN journal[t].last ELSE file[t]
StatusOf(t) == Current(t).status
Rebuilt(ts) == [t \in Task |-> IF t \in ts THEN Current(t) ELSE file[t]]

Ready(t) == \A d \in Deps[t] : StatusOf(d) = "completed"
Dependents(t) == {u \in Task : t \in Deps[u]}

\* The tasks that rest on t, directly or not.
Above(t) ==
    LET reach[n \in 0..Cardinality(Task)] ==
          IF n = 0 THEN Dependents(t) ELSE reach[n - 1] \cup UNION {Dependents(u) : u \in reach[n - 1]}
    IN  reach[Cardinality(Task)]

Fresh(t, done) ==
    IF t \in done
    THEN [status |-> "completed", version |-> 3, gen |-> 1, owner |-> CHOOSE w \in Worker : TRUE,
          claim |-> None]
    ELSE [status |-> IF Deps[t] \subseteq done THEN "pending" ELSE "blocked", version |-> 1, gen |-> 0,
          owner |-> Assigned[t], claim |-> None]

\* The tasks have been created and some of them completed.
Init ==
    /\ \E done \in SUBSET Task :
         /\ \A t \in done : Deps[t] \subseteq done
         /\ file = [t \in Task |-> Fresh(t, done)]
         /\ journal = [t \in Task |-> [n |-> Fresh(t, done).version, last |-> Fresh(t, done),
                                       reopened |-> FALSE]]
    /\ intents = {}
    /\ depLock = None /\ taskLock = [t \in Task |-> None]
    /\ clock = 0
    /\ alive = [w \in Worker |-> TRUE]
    /\ pc = [w \in Worker |-> "idle"] /\ call = [w \in Worker |-> None]
    /\ stage = [w \in Worker |-> None] /\ cascade = [w \in Worker |-> None]
    /\ pending = [w \in Worker |-> {}]
    /\ granted = [w \in Worker |-> {}]
    /\ ops = 0 /\ faults = 0

-----------------------------------------------------------------------------
(* The start of a call, and the locks.                                     *)

UsesDepLock(op) == op \in {"claim", "reclaim", "complete", "reopen"}

\* expected is the version the caller has seen, 0 when it names none.
Call(w, op, t, token, expected, force) ==
    /\ pc[w] = "idle" /\ ops < MaxOps
    /\ ops' = ops + 1
    /\ call' = [call EXCEPT ![w] = [op |-> op, task |-> t, token |-> token, expected |-> expected,
                                    force |-> force]]
    /\ pc' = [pc EXCEPT ![w] = IF UsesDepLock(op) THEN "dep" ELSE "lock"]
    /\ UNCHANGED <<store, depLock, taskLock, clock, alive, stage, cascade, pending, granted, faults>>

\* claimTask, reclaimTask and reopenTask need no token, but a forced take-over has
\* to name a version; the others use a token the worker was given, be it stale.
Calls(w) ==
    alive[w] /\ \E t \in Task :
       \/ \E op \in {"claim", "reclaim", "reopen"} : Call(w, op, t, 0, 0, FALSE)
       \/ Call(w, "reclaim", t, 0, Current(t).version, TRUE)
       \/ \E g \in granted[w], op \in {"renew", "complete", "fail", "return", "release"} :
             g.task = t /\ Call(w, op, t, g.token, 0, FALSE)

\* withDependencyCoordinationLock
TakeDepLock(w) ==
    /\ pc[w] = "dep" /\ depLock = None
    /\ depLock' = w
    /\ pending' = [pending EXCEPT ![w] = intents]
    /\ pc' = [pc EXCEPT ![w] = "reconcile"]
    /\ UNCHANGED <<store, taskLock, clock, alive, call, stage, cascade, granted, ops, faults>>

\* The call is over; with "ok" its caller has the result.
Return(w) ==
    /\ pc[w] \in {"ok", "failed"}
    /\ depLock' = IF depLock = w THEN None ELSE depLock
    /\ pc' = [pc EXCEPT ![w] = "idle"]
    /\ call' = [call EXCEPT ![w] = None]
    /\ granted' = IF pc[w] = "ok" /\ call[w].op \in {"claim", "reclaim"}
                  THEN [granted EXCEPT ![w] = @ \cup {[task |-> call[w].task,
                                                       token |-> Current(call[w].task).claim.token,
                                                       gen |-> Current(call[w].task).claim.gen]}]
                  ELSE granted
    /\ UNCHANGED <<store, taskLock, clock, alive, stage, cascade, pending, ops, faults>>

-----------------------------------------------------------------------------
(* What each operation makes of the record r of its task.                  *)

Expired(r) == r.claim.until <= clock

NewClaim(w, r, t) ==
    [gen |-> r.gen + 1, token |-> journal[t].n + 1, since |-> clock, until |-> clock + Lease,
     proc |-> w \in Supervised]

\* Mutant: a process that cannot be judged counts as dead.
AmbiguousIsDead(r, ambiguous) == r.claim.proc => ~alive[r.owner] \/ ambiguous

\* Is the process of a claim known to be dead?  The evidence may be ambiguous.
ProcessDead(r, ambiguous) == r.claim.proc => ~alive[r.owner] /\ ~ambiguous

\* An expired claim whose process is not proven dead is left alone.
Abandoned(r, ambiguous) == Expired(r) /\ ProcessDead(r, ambiguous)

\* claimTask gives an abandoned task back to its assignee first.
Unclaimed(t, r) == IF r.status = "in_progress"
                   THEN [r EXCEPT !.status = "pending", !.version = @ + 1, !.owner = Assigned[t],
                                  !.claim = None]
                   ELSE r

\* Mutant: the prerequisites are not looked at.
ClaimUnready(w, t, r, ambiguous) ==
    /\ call[w].expected \in {0, r.version}
    /\ r.status \notin Terminal
    /\ r.status = "in_progress" => Abandoned(r, ambiguous)
    /\ Unclaimed(t, r).owner \in {None, w}

ClaimAllowed(w, t, r, ambiguous) ==
    /\ call[w].expected \in {0, r.version}
    /\ r.status \notin Terminal
    /\ Ready(t)
    /\ r.status = "in_progress" => Abandoned(r, ambiguous)
    /\ Unclaimed(t, r).owner \in {None, w}

Claimed(w, t, r) ==
    [status |-> "in_progress", version |-> r.version + 1, gen |-> r.gen + 1, owner |-> w,
     claim |-> NewClaim(w, r, t)]

\* force is for a lease that runs on, or a process whose death cannot be proven;
\* it does not help against one that is seen alive.
ReclaimAllowed(w, r, ambiguous) ==
    /\ r.status = "in_progress"
    /\ call[w].expected \in {0, r.version}
    /\ Expired(r) \/ call[w].force
    /\ ProcessDead(r, ambiguous) \/ (call[w].force /\ ambiguous)

\* Mutant: the claim is taken over together with its generation.
ReclaimedSame(w, t, r) ==
    [r EXCEPT !.owner = w, !.version = @ + 1, !.claim = [NewClaim(w, r, t) EXCEPT !.gen = r.gen]]

Reclaimed(w, t, r) ==
    [r EXCEPT !.owner = w, !.version = @ + 1, !.gen = @ + 1, !.claim = NewClaim(w, r, t)]

Holds(w, r) ==
    /\ r.status = "in_progress" /\ r.claim.token = call[w].token
    /\ ~Expired(r)

Later(a, b) == IF a >= b THEN a ELSE b
RenewedUntil(r) == Later(r.claim.until, clock + Lease)

RenewAllowed(w, r, ambiguous) ==
    /\ Holds(w, r) /\ r.owner = w
    /\ RenewedUntil(r) - r.claim.since <= MaxTotalLease
    /\ r.claim.proc => alive[w] /\ ~ambiguous

Renewed(r) == [r EXCEPT !.version = @ + 1, !.claim.until = RenewedUntil(r)]

FinishAllowed(w, t, r) == Holds(w, r) /\ (call[w].op = "complete" => Ready(t))

Finished(w, r) ==
    [r EXCEPT !.version = @ + 1, !.claim = None,
              !.status = CASE call[w].op = "complete" -> "completed"
                           [] call[w].op = "fail" -> "failed"
                           [] call[w].op = "return" -> "pending"]

ReleaseAllowed(w, r) == Holds(w, r) /\ r.owner = w

Released(r) == [r EXCEPT !.version = @ + 1, !.status = "pending", !.owner = None, !.claim = None]

Reopened(t, r) == [r EXCEPT !.version = @ + 1, !.status = IF Ready(t) THEN "pending" ELSE "blocked",
                            !.owner = Assigned[t], !.claim = None]

\* hasUnreconciledDependents: reachable through blocked tasks.
Unreconciled(t) ==
    LET reach[n \in 0..Cardinality(Task)] ==
          IF n = 0 THEN {t}
          ELSE reach[n - 1] \cup UNION {Dependents(u) : u \in {v \in reach[n - 1] :
                                                                v = t \/ StatusOf(v) = "blocked"}}
    IN  \E u \in reach[Cardinality(Task)] \ {t} : StatusOf(u) # "blocked"

\* A reopening is repeated when the last one may have been cut short.
Reopenable(t, r) ==
    \/ t \in intents
    \/ Unreconciled(t)
    \/ r.status \in {"pending", "blocked"} /\ journal[t].reopened

-----------------------------------------------------------------------------
(* commitTaskWithJournal: the journal first, then the file.                *)

Append(t, r, reopening) ==
    journal' = [journal EXCEPT ![t] = [n |-> @.n + 1, last |-> r, reopened |-> @.reopened \/ reopening]]

\* The record r goes to the journal; the file is to follow.
Commit(w, t, r, prev, reopening, next, fail) ==
    /\ Append(t, r, reopening)
    /\ stage' = [stage EXCEPT ![w] = [task |-> t, new |-> r, prev |-> prev, next |-> next, fail |-> fail]]
    /\ taskLock' = [taskLock EXCEPT ![t] = w]
    /\ pc' = [pc EXCEPT ![w] = "write"]

\* The records an operation may leave, none when it is refused.
Outcomes(w, t, ambiguous) ==
    LET r == Current(t)
        op == call[w].op
    IN  CASE op = "claim" -> IF ClaimAllowed(w, t, r, ambiguous)
                             THEN {Claimed(w, t, Unclaimed(t, r))} ELSE {}
          [] op = "reclaim" -> IF ReclaimAllowed(w, r, ambiguous)
                               THEN {Reclaimed(w, t, r)} ELSE {}
          [] op = "renew" -> IF RenewAllowed(w, r, ambiguous) THEN {Renewed(r)} ELSE {}
          [] op = "release" -> IF ReleaseAllowed(w, r) THEN {Released(r)} ELSE {}
          [] op \in {"complete", "fail", "return"} ->
                IF FinishAllowed(w, t, r) THEN {Finished(w, r)} ELSE {}
          [] op = "reopen" -> {}

\* The record a failed commit goes back from.
Before(w, t) == IF call[w].op = "claim" THEN Unclaimed(t, Current(t)) ELSE Current(t)

Change(w) ==
    LET t == call[w].task IN
      /\ pc[w] = "lock" /\ taskLock[t] = None
      /\ \E ambiguous \in BOOLEAN : \E r \in Outcomes(w, t, ambiguous) :
            Commit(w, t, r, Before(w, t), FALSE, IF call[w].op = "complete" THEN "unblock" ELSE "ok", "failed")
      /\ file' = Rebuilt({t} \cup IF UsesDepLock(call[w].op) THEN Deps[t] ELSE {})
      /\ cascade' = IF call[w].op = "complete"
                    THEN [cascade EXCEPT ![w] = [root |-> t, cur |-> t, rest |-> Dependents(t), todo |-> {}]]
                    ELSE cascade
      /\ UNCHANGED <<intents, depLock, clock, alive, call, pending, granted, ops, faults>>

\* The operation is refused on what it reads.
Refused(w) ==
    LET t == call[w].task IN
      /\ \E ambiguous \in BOOLEAN : Outcomes(w, t, ambiguous) = {}
      /\ call[w].op = "reopen" => StatusOf(t) \notin Terminal /\ ~Reopenable(t, Current(t))

Refuse(w) ==
    LET t == call[w].task IN
      /\ pc[w] = "lock" /\ taskLock[t] = None
      /\ Refused(w)
      /\ pc' = [pc EXCEPT ![w] = "failed"]
      /\ file' = Rebuilt({t} \cup IF UsesDepLock(call[w].op) THEN Deps[t] ELSE {})
      /\ UNCHANGED <<journal, intents, depLock, taskLock, clock, alive, call, stage, cascade, pending,
                     granted, ops, faults>>

\* A lock times out, or the journal does not take the record.
CallFails(w) ==
    /\ pc[w] \in {"dep", "lock", "append"} /\ faults < MaxFault
    /\ faults' = faults + 1
    /\ pc' = [pc EXCEPT ![w] = "failed"]
    /\ taskLock' = [t \in Task |-> IF taskLock[t] = w THEN None ELSE taskLock[t]]
    /\ stage' = [stage EXCEPT ![w] = None]
    /\ UNCHANGED <<store, depLock, clock, alive, call, cascade, pending, granted, ops>>

\* recordReopenCascadeIntent
RecordIntent(w) ==
    LET t == call[w].task
        r == Current(t)
    IN  /\ pc[w] = "lock" /\ call[w].op = "reopen" /\ taskLock[t] = None
        /\ \/ /\ r.status \in Terminal
              /\ stage' = [stage EXCEPT ![w] = [task |-> t, new |-> Reopened(t, r), prev |-> r,
                                                next |-> "cascade", fail |-> "failed"]]
              /\ taskLock' = [taskLock EXCEPT ![t] = w]
              /\ pc' = [pc EXCEPT ![w] = "append"]
           \/ /\ r.status \notin Terminal /\ Reopenable(t, r)
              /\ pc' = [pc EXCEPT ![w] = "cascade"]
              /\ UNCHANGED <<stage, taskLock>>
        /\ intents' = intents \cup {t}
        /\ file' = Rebuilt(Task)
        /\ cascade' = [cascade EXCEPT ![w] = [root |-> t, cur |-> t, rest |-> Dependents(t), todo |-> {}]]
        /\ UNCHANGED <<journal, depLock, clock, alive, call, pending, granted, ops, faults>>

AppendReopening(w) ==
    /\ pc[w] = "append"
    /\ Append(stage[w].task, stage[w].new, TRUE)
    /\ pc' = [pc EXCEPT ![w] = "write"]
    /\ UNCHANGED <<file, intents, depLock, taskLock, clock, alive, call, stage, cascade, pending,
                   granted, ops, faults>>

\* In a cascade, the dependent that has been written is itself to be followed.
Follow(w) == IF stage[w].next = "cascade" /\ stage[w].task # cascade[w].root
             THEN [cascade EXCEPT ![w].todo = @ \cup {stage[w].task}]
             ELSE cascade

\* Mutant: the lock is not given back after an error.
UnlockOnSuccess(w) == /\ taskLock' = [taskLock EXCEPT ![stage[w].task] = IF pc[w] = "write" THEN None ELSE @]
                      /\ stage' = [stage EXCEPT ![w] = None]

Unlock(w) == /\ taskLock' = [taskLock EXCEPT ![stage[w].task] = None]
             /\ stage' = [stage EXCEPT ![w] = None]

Write(w) ==
    /\ pc[w] = "write"
    /\ file' = [file EXCEPT ![stage[w].task] = stage[w].new]
    /\ cascade' = Follow(w)
    /\ pc' = [pc EXCEPT ![w] = stage[w].next]
    /\ Unlock(w)
    /\ UNCHANGED <<journal, intents, depLock, clock, alive, call, pending, granted, ops, faults>>

\* atomicWriteJson throws, with the new file in place or not.
WriteFails(w) ==
    /\ pc[w] = "write" /\ faults < MaxFault
    /\ faults' = faults + 1
    /\ \E r \in {file[stage[w].task], stage[w].new} : file' = [file EXCEPT ![stage[w].task] = r]
    /\ pc' = [pc EXCEPT ![w] = "revert"]
    /\ UNCHANGED <<journal, intents, depLock, taskLock, clock, alive, call, stage, cascade, pending,
                   granted, ops>>

\* Mutant: the previous record as it was.
RevertedAsWas(w) == stage[w].prev

\* reconciledTask: the previous record under a new version; a failed claim leaves
\* no claim behind and does not give its generation back.
Reverted(w) ==
    LET s == stage[w]
        claims == s.fail = "failed" /\ s.next = "ok" /\ call[w].op \in {"claim", "reclaim"}
        kept == IF Assigned[s.task] # None THEN Assigned[s.task]
                ELSE IF s.prev.status = "pending" THEN s.prev.owner ELSE None
    IN  IF claims
        THEN [status |-> IF s.prev.status = "in_progress" THEN "pending" ELSE s.prev.status,
              version |-> s.new.version + 1, gen |-> s.new.gen, owner |-> kept, claim |-> None]
        ELSE [s.prev EXCEPT !.version = s.new.version + 1, !.gen = s.new.gen]

\* Its journal entry is best effort.
RevertJournal(w) ==
    /\ pc[w] = "revert"
    /\ pc' = [pc EXCEPT ![w] = "rewrite"]
    /\ \/ /\ Append(stage[w].task, Reverted(w), FALSE)
          /\ UNCHANGED faults
       \/ /\ faults < MaxFault /\ faults' = faults + 1
          /\ UNCHANGED journal
    /\ UNCHANGED <<file, intents, depLock, taskLock, clock, alive, call, stage, cascade, pending,
                   granted, ops>>

\* If the file cannot be written either, it is unlinked, for the journal to speak.
\* The error ends a call, but only one step of a reconciliation.
Rewrite(w) ==
    /\ pc[w] = "rewrite"
    /\ \/ /\ file' = [file EXCEPT ![stage[w].task] = Reverted(w)]
          /\ UNCHANGED faults
       \/ /\ faults < MaxFault /\ faults' = faults + 1
          /\ \E r \in {None, file[stage[w].task]} : file' = [file EXCEPT ![stage[w].task] = r]
    /\ pc' = [pc EXCEPT ![w] = stage[w].fail]
    /\ pending' = [pending EXCEPT ![w] = IF stage[w].fail = "reconcile" THEN @ \ {cascade[w].root} ELSE @]
    /\ Unlock(w)
    /\ UNCHANGED <<journal, intents, depLock, clock, alive, call, cascade, granted, ops>>

-----------------------------------------------------------------------------
(* The tasks blocked by the one that changed.                              *)

Visited(w, u) == [cascade EXCEPT ![w].rest = @ \ {u}]

\* unblockDependentTasks: a task whose prerequisites are now all completed.
Unblock(w) ==
    /\ pc[w] = "unblock"
    /\ \/ \E u \in cascade[w].rest :
            /\ taskLock[u] = None
            /\ cascade' = Visited(w, u)
            /\ file' = Rebuilt({u} \cup Deps[u])
            /\ IF StatusOf(u) = "blocked" /\ Ready(u)
               THEN Commit(w, u, [Current(u) EXCEPT !.status = "pending", !.version = @ + 1], Current(u),
                           FALSE, "unblock", "failed")
               ELSE UNCHANGED <<journal, stage, taskLock, pc>>
       \/ /\ cascade[w].rest = {}
          /\ pc' = [pc EXCEPT ![w] = "ok"]
          /\ UNCHANGED <<file, journal, stage, taskLock, cascade>>
    /\ UNCHANGED <<intents, depLock, clock, alive, call, pending, granted, ops, faults>>

Reconciling(w) == cascade[w].root \in pending[w]

\* Mutant: the claim of a task in progress survives.
ReblockedWithClaim(u, r) ==
    [r EXCEPT !.status = "blocked", !.version = @ + 1,
              !.owner = IF Assigned[u] # None THEN Assigned[u] ELSE r.owner]

Reblocked(u, r) ==
    [r EXCEPT !.status = "blocked", !.version = @ + 1, !.claim = None,
              !.owner = IF Assigned[u] # None THEN Assigned[u]
                        ELSE IF r.status = "pending" THEN r.owner ELSE None]

\* Mutant: finished tasks are left alone.
MustReblockUnfinished(u) == StatusOf(u) \notin Terminal \cup {"blocked"}

MustReblock(u) == StatusOf(u) # "blocked"

\* reblockDependentTasks: one dependent of the task being followed.
Reblock(w) ==
    /\ pc[w] = "cascade"
    /\ \E u \in cascade[w].rest :
         /\ taskLock[u] = None
         /\ cascade' = Visited(w, u)
         /\ file' = Rebuilt({u})
         /\ IF MustReblock(u)
            THEN Commit(w, u, Reblocked(u, Current(u)), Current(u), StatusOf(u) \in Terminal, "cascade",
                        IF Reconciling(w) THEN "reconcile" ELSE "failed")
            ELSE UNCHANGED <<journal, stage, taskLock, pc>>
    /\ UNCHANGED <<intents, depLock, clock, alive, call, pending, granted, ops, faults>>

\* The dependents of one task have been seen: on to a task that was reblocked, or
\* the cascade is over and its intent removed.
ReblockNext(w) ==
    /\ pc[w] = "cascade" /\ cascade[w].rest = {}
    /\ \/ \E u \in cascade[w].todo :
            /\ cascade' = [cascade EXCEPT ![w].todo = @ \ {u}, ![w].cur = u, ![w].rest = Dependents(u)]
            /\ UNCHANGED <<intents, pc, pending>>
       \/ /\ cascade[w].todo = {}
          /\ intents' = intents \ {cascade[w].root}
          /\ pending' = [pending EXCEPT ![w] = @ \ {cascade[w].root}]
          /\ pc' = [pc EXCEPT ![w] = IF Reconciling(w) THEN "reconcile" ELSE "ok"]
          /\ UNCHANGED cascade
    /\ UNCHANGED <<file, journal, depLock, taskLock, clock, alive, call, stage, granted, ops, faults>>

\* A lock times out or the journal refuses the record.
CascadeFails(w) ==
    /\ pc[w] \in {"cascade", "unblock"} /\ cascade[w].rest # {} /\ faults < MaxFault
    /\ faults' = faults + 1
    /\ pc' = [pc EXCEPT ![w] = IF pc[w] = "cascade" /\ Reconciling(w) THEN "reconcile" ELSE "failed"]
    /\ pending' = [pending EXCEPT ![w] = @ \ {cascade[w].root}]
    /\ UNCHANGED <<store, depLock, taskLock, clock, alive, call, stage, cascade, granted, ops>>

\* reconcilePendingCascadeIntents: the cascade of a reopening that was interrupted,
\* unless its task has been completed since.
Reconcile(w) ==
    /\ pc[w] = "reconcile"
    /\ \/ \E i \in pending[w] :
            /\ file' = Rebuilt({i})
            /\ IF StatusOf(i) # "completed"
               THEN /\ cascade' = [cascade EXCEPT ![w] = [root |-> i, cur |-> i, rest |-> Dependents(i),
                                                          todo |-> {}]]
                    /\ pc' = [pc EXCEPT ![w] = "cascade"]
                    /\ UNCHANGED <<intents, pending>>
               ELSE /\ intents' = intents \ {i}
                    /\ pending' = [pending EXCEPT ![w] = @ \ {i}]
                    /\ UNCHANGED <<cascade, pc>>
       \/ /\ pending[w] = {}
          /\ pc' = [pc EXCEPT ![w] = "lock"]
          /\ UNCHANGED <<file, intents, pending, cascade>>
    /\ UNCHANGED <<journal, depLock, taskLock, clock, alive, call, stage, granted, ops, faults>>

-----------------------------------------------------------------------------
(* Failures.                                                               *)

\* The process of the call is killed: its locks count as free at once.
Kill(w) ==
    /\ pc[w] # "idle" /\ faults < MaxFault
    /\ faults' = faults + 1
    /\ depLock' = IF depLock = w THEN None ELSE depLock
    /\ taskLock' = [t \in Task |-> IF taskLock[t] = w THEN None ELSE taskLock[t]]
    /\ pc' = [pc EXCEPT ![w] = "idle"]
    /\ call' = [call EXCEPT ![w] = None]
    /\ stage' = [stage EXCEPT ![w] = None] /\ cascade' = [cascade EXCEPT ![w] = None]
    /\ pending' = [pending EXCEPT ![w] = {}]
    /\ UNCHANGED <<store, clock, alive, granted, ops>>

WorkerDies(w) ==
    /\ w \in Supervised
    /\ alive[w] /\ alive' = [alive EXCEPT ![w] = FALSE]
    /\ UNCHANGED <<store, depLock, taskLock, clock, pc, call, stage, cascade, pending, granted, ops, faults>>

\* Time matters to claims only.
Tick ==
    /\ \E t \in Task : journal[t].last.claim # None
    /\ clock < MaxTime /\ clock' = clock + 1
    /\ UNCHANGED <<store, depLock, taskLock, alive, pc, call, stage, cascade, pending, granted, ops, faults>>

Step(w) == TakeDepLock(w) \/ Reconcile(w) \/ Change(w) \/ Refuse(w) \/ CallFails(w) \/ RecordIntent(w)
           \/ AppendReopening(w) \/ Write(w) \/ WriteFails(w) \/ RevertJournal(w) \/ Rewrite(w)
           \/ Unblock(w) \/ Reblock(w) \/ ReblockNext(w) \/ CascadeFails(w) \/ Return(w)

Next == (\E w \in Worker : Calls(w) \/ Step(w) \/ Kill(w) \/ WorkerDies(w)) \/ Tick

Spec == Init /\ [][Next]_vars

\* A call that is not killed goes on.
FairSpec == Spec /\ \A w \in Worker : WF_vars(Step(w))

-----------------------------------------------------------------------------
ClaimRecord == [gen : Nat, token : Nat, since : 0..MaxTime, until : 0..(MaxTime + Lease), proc : BOOLEAN]
TaskRecord == [status : Status, version : Nat, gen : Nat, owner : Worker \cup {None},
               claim : ClaimRecord \cup {None}]
StageRecord == [task : Task, new : TaskRecord, prev : TaskRecord, next : {"ok", "unblock", "cascade"},
                fail : {"failed", "reconcile"}]

\* What is absent is none of the records.
ASSUME NoneAssumption == None \notin ClaimRecord \cup TaskRecord \cup StageRecord

\* isTeamTask: the records on disk are those it accepts.
WellFormed(r) ==
    /\ r \in TaskRecord
    /\ r.status = "in_progress" <=> r.claim # None
    /\ r.status = "in_progress" => r.owner # None /\ r.claim.gen <= r.gen

TypeOK ==
    /\ \A t \in Task : /\ file[t] = None \/ WellFormed(file[t])
                       /\ WellFormed(journal[t].last)
                       /\ StatusOf(t) = "blocked" => Deps[t] # {}
    /\ intents \subseteq Task
    /\ depLock \in Worker \cup {None}
    /\ taskLock \in [Task -> Worker \cup {None}]
    /\ \A w \in Worker : stage[w] # None => taskLock[stage[w].task] = w

\* A task is open to work, worked on or done only while everything it is blocked
\* by is completed, unless a reopening below it has still to be carried up.
RestsOnCompleted ==
    \A t \in Task : StatusOf(t) # "blocked" => Ready(t) \/ \E i \in intents : t \in Above(i)

\* The claim of a worker is taken over by another only when its lease is over
\* and its process is not known to live, or by force.
TakeoversJustified ==
    [][\A t \in Task :
         LET old == Current(t).claim
             new == Current(t)'.claim
         IN  old # None /\ new # None /\ new.token # old.token =>
                \/ old.until <= clock /\ (old.proc => ~alive[Current(t).owner])
                \/ \E w \in Worker : stage[w] # None /\ stage[w].task = t /\ call[w].force]_vars

\* The generations of the claims granted on a task rise, whatever calls failed in
\* between: a workspace generation is never handed out twice.
GenerationsRise ==
    [][\A w, v \in Worker : \A g \in granted'[w] \ granted[w] : \A h \in granted[v] :
          h.task = g.task => h.gen < g.gen]_vars

\* Whoever saw a version of a task and finds it again finds the same record.
VersionsRise ==
    [][\A t \in Task : Current(t)' # Current(t) => Current(t)'.version > Current(t).version]_vars

\* When reopening returns, all that rests on the task is blocked.
ReopeningReachesAll ==
    [][\A w \in Worker :
         pc[w] = "ok" /\ pc'[w] = "idle" /\ faults' = faults /\ call[w].op = "reopen" =>
            \A u \in Above(call[w].task) : StatusOf(u) = "blocked"]_vars

\* Every call that is not killed returns: the locks are always taken in the same
\* order.
CallsReturn == \A w \in Worker : pc[w] # "idle" ~> pc[w] = "idle"
=============================================================================
