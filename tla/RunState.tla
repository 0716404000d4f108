------------------------------ MODULE RunState ------------------------------
(***************************************************************************)
(* One run record and one of its leases, as RunStateStore and LeaseStore   *)
(* of src/src/state/store.ts keep them: JSON files replaced atomically by  *)
(* CLI processes that hold a directory lock per file.  The lock of a dead  *)
(* process is taken over (see DirectoryLock for how); the wall clock may   *)
(* jump either way; an atomic write may fail before it commits, or commit  *)
(* and still report an error (commit_durability_unknown).                  *)
(***************************************************************************)
EXTENDS Naturals

CONSTANTS
    Client,     \* CLI processes; a client's name is also its lease owner name
    Absent,     \* no such file, no lock holder
    MaxTime,    \* bound: the clock reads 0..MaxTime
    Ttl,        \* the lease time to live, in clock units
    MaxOps,     \* bound: calls begun by all clients together
    MaxRev      \* bound: revisions and generations a caller may name

ASSUME RunAssumption == /\ Absent \notin Client
                        /\ MaxTime \in Nat /\ Ttl \in Nat \ {0}
                        /\ MaxOps \in Nat /\ MaxRev \in Nat

VARIABLES
    run,        \* state.json
    lease,      \* <lease_name>.json
    runLock, leaseLock,   \* who holds the directory lock of each file
    clock,
    pc,         \* where a client is in its call
    req,        \* its arguments
    staged,     \* the record it has computed and is about to write
    ops,        \* calls begun
    alive

vars == <<run, lease, runLock, leaseLock, clock, pc, req, staged, ops, alive>>

Time == 0..MaxTime
Terminal == {"complete", "failed", "cancelled"}
Status == {"active"} \cup Terminal
Max2(a, b) == IF a >= b THEN a ELSE b

\* RunStateV1: last_mutation.mutated_at always equals updated_at and is left out;
\* verified_at stands for evidence_sha256 too, both are null unless verified.
Run == [revision : Nat \ {0}, status : Status, created_at : Time, updated_at : Time,
        verified : BOOLEAN, verified_at : Time \cup {Absent}]
Lease == [owner : Client, generation : Nat \ {0}, expires_at : Nat, mutated_at : Time]
Operation == {"create", "transition", "verify", "acquire", "release"}
Request == [op : Operation \cup {"none"}, expected : 0..MaxRev, status : Status]
NoRequest == [op |-> "none", expected |-> 0, status |-> "active"]
Pc == {"idle", "wantRun", "wantLease", "check", "commit", "unlock", "dead"}

RunOp(c) == req[c].op \in {"create", "transition", "verify"}
LeaseOp(c) == req[c].op \in {"acquire", "release"}

Init ==
    /\ run = Absent /\ lease = Absent
    /\ runLock = Absent /\ leaseLock = Absent
    /\ clock \in Time
    /\ pc = [c \in Client |-> "idle"]
    /\ req = [c \in Client |-> NoRequest]
    /\ staged = [c \in Client |-> Absent]
    /\ ops = 0
    /\ alive = [c \in Client |-> TRUE]

-----------------------------------------------------------------------------
Start(c, op, expected, status, first) ==
    /\ pc[c] = "idle" /\ ops < MaxOps
    /\ ops' = ops + 1
    /\ req' = [req EXCEPT ![c] = [op |-> op, expected |-> expected, status |-> status]]
    /\ pc' = [pc EXCEPT ![c] = first]
    /\ UNCHANGED <<run, lease, runLock, leaseLock, clock, staged, alive>>

Create(c) == Start(c, "create", 0, "active", "wantRun")

Transition(c) ==
    \E rev \in 1..MaxRev, s \in Status :
        Start(c, "transition", rev, s, "wantRun")

Verify(c) ==
    \E rev \in 1..MaxRev :
        Start(c, "verify", rev, "complete", "wantRun")

RunActive == run # Absent /\ run.status = "active"

\* LeaseStore.acquire looks at the run before it queues for the locks.
Acquire(c) ==
    /\ RunActive
    /\ Start(c, "acquire", 0, "active", "wantRun")

\* LeaseStore.release names the generation it was granted; it takes the lease
\* lock only.
Release(c) ==
    \E gen \in 1..MaxRev :
        Start(c, "release", gen, "active", "wantLease")

\* withDirectoryLock: a free lock, or one whose owner is dead.
Free(lock) == lock \notin {c \in Client : alive[c]}

LockRun(c) ==
    /\ pc[c] = "wantRun" /\ Free(runLock)
    /\ runLock' = c
    /\ pc' = [pc EXCEPT ![c] = IF req[c].op = "acquire" THEN "wantLease" ELSE "check"]
    /\ UNCHANGED <<run, lease, leaseLock, clock, req, staged, ops, alive>>

LockLease(c) ==
    /\ pc[c] = "wantLease" /\ Free(leaseLock)
    /\ leaseLock' = c
    /\ pc' = [pc EXCEPT ![c] = "check"]
    /\ UNCHANGED <<run, lease, runLock, clock, req, staged, ops, alive>>

\* E_LOCK_TIMEOUT: the call fails; an outer lock is released on the way out.
LockTimeout(c) ==
    /\ pc[c] \in {"wantRun", "wantLease"}
    /\ pc' = [pc EXCEPT ![c] = "unlock"]
    /\ UNCHANGED <<run, lease, runLock, leaseLock, clock, req, staged, ops, alive>>

-----------------------------------------------------------------------------
\* The record create() writes.
NewRun == [revision |-> 1, status |-> "active", created_at |-> clock, updated_at |-> clock,
           verified |-> FALSE, verified_at |-> Absent]

\* The clock taken as it is.
StampUnclamped == clock

\* A later record is never stamped before the one it replaces.
Stamp == Max2(clock, run.updated_at)

\* The revision the caller saw is not compared.
TransitionUnfenced(r) == run # Absent /\ run.status \notin Terminal /\ run.status # r.status

\* A settled run may be settled again.
TransitionReopens(r) == run # Absent /\ run.revision = r.expected /\ run.status # r.status

TransitionAllowed(r) == /\ run # Absent /\ run.revision = r.expected
                        /\ run.status \notin Terminal
                        /\ run.status # r.status
Transitioned(r) == [run EXCEPT !.revision = @ + 1, !.status = r.status, !.updated_at = Stamp,
                               !.verified = FALSE, !.verified_at = Absent]

\* Evidence is accepted before the run is complete.
VerifyEarly(r) == run # Absent /\ run.revision = r.expected

VerifyAllowed(r) == /\ run # Absent /\ run.revision = r.expected
                    /\ run.status = "complete"
Verified == [run EXCEPT !.revision = @ + 1, !.updated_at = Stamp,
                        !.verified = TRUE, !.verified_at = Stamp]

LeaseStamp == IF lease = Absent THEN clock ELSE Max2(clock, lease.mutated_at)
\* The run is only looked at before the locks are taken.
AcquireRunUnchecked(c) == lease # Absent /\ lease.owner # c => lease.expires_at <= LeaseStamp

AcquireAllowed(c) == /\ RunActive
                     /\ lease # Absent /\ lease.owner # c => lease.expires_at <= LeaseStamp
\* Generations count from zero.
GrantedFromZero(c) == [owner |-> c,
                       generation |-> IF lease = Absent THEN 0 ELSE lease.generation + 1,
                       expires_at |-> LeaseStamp + Ttl,
                       mutated_at |-> LeaseStamp]
Granted(c) == [owner |-> c,
               generation |-> IF lease = Absent THEN 1 ELSE lease.generation + 1,
               expires_at |-> LeaseStamp + Ttl,
               mutated_at |-> LeaseStamp]

ReleaseAllowed(c, r) == lease # Absent /\ lease.owner = c /\ lease.generation = r.expected

\* Under its locks the client reads the files, checks the request and computes
\* the record.  Staged holds the record, or Absent for the unlink of a release.
Prepare(c, guard, record) ==
    /\ pc[c] = "check"
    /\ guard
    /\ staged' = [staged EXCEPT ![c] = record]
    /\ pc' = [pc EXCEPT ![c] = "commit"]
    /\ UNCHANGED <<run, lease, runLock, leaseLock, clock, req, ops, alive>>

Check(c) ==
    \/ req[c].op = "create"     /\ Prepare(c, run = Absent, NewRun)
    \/ req[c].op = "transition" /\ Prepare(c, TransitionAllowed(req[c]), Transitioned(req[c]))
    \/ req[c].op = "verify"     /\ Prepare(c, VerifyAllowed(req[c]), Verified)
    \/ req[c].op = "acquire"    /\ Prepare(c, AcquireAllowed(c), Granted(c))
    \/ req[c].op = "release"    /\ Prepare(c, ReleaseAllowed(c, req[c]), Absent)

\* A check fails (E_REVISION_CONFLICT, E_TRANSITION_ILLEGAL, E_LEASE_HELD, ...),
\* the CLI authority is stale, or the write fails before it commits: the error
\* leaves the files alone.
Fail(c) ==
    /\ pc[c] \in {"check", "commit"}
    /\ pc' = [pc EXCEPT ![c] = "unlock"]
    /\ UNCHANGED <<run, lease, runLock, leaseLock, clock, req, staged, ops, alive>>

WriteStaged(c) == \/ RunOp(c) /\ run' = staged[c] /\ UNCHANGED lease
                  \/ LeaseOp(c) /\ lease' = staged[c] /\ UNCHANGED run

\* atomicWriteJson or unlink.  Whether the caller sees success or
\* commit_durability_unknown, the file has changed.
Commit(c) ==
    /\ pc[c] = "commit"
    /\ WriteStaged(c)
    /\ pc' = [pc EXCEPT ![c] = "unlock"]
    /\ UNCHANGED <<runLock, leaseLock, clock, req, staged, ops, alive>>

\* The inner lock is kept.
UnlockRunOnly(c) ==
    /\ pc[c] = "unlock"
    /\ runLock' = IF runLock = c THEN Absent ELSE runLock
    /\ pc' = [pc EXCEPT ![c] = "idle"]
    /\ req' = [req EXCEPT ![c] = NoRequest]
    /\ staged' = [staged EXCEPT ![c] = Absent]
    /\ UNCHANGED <<run, lease, leaseLock, clock, ops, alive>>

\* Each lock is released by its holder, the inner one first.
Unlock(c) ==
    /\ pc[c] = "unlock"
    /\ IF leaseLock = c
       THEN leaseLock' = Absent /\ UNCHANGED <<runLock, pc, req, staged>>
       ELSE /\ runLock' = IF runLock = c THEN Absent ELSE runLock
            /\ pc' = [pc EXCEPT ![c] = "idle"]
            /\ req' = [req EXCEPT ![c] = NoRequest]
            /\ staged' = [staged EXCEPT ![c] = Absent]
            /\ UNCHANGED leaseLock
    /\ UNCHANGED <<run, lease, clock, ops, alive>>

Crash(c) ==
    /\ alive[c] /\ pc[c] # "idle"
    /\ alive' = [alive EXCEPT ![c] = FALSE]
    /\ pc' = [pc EXCEPT ![c] = "dead"]
    /\ UNCHANGED <<run, lease, runLock, leaseLock, clock, req, staged, ops>>

\* The wall clock is set, forwards or backwards.
SetClock ==
    /\ clock' \in Time \ {clock}
    /\ UNCHANGED <<run, lease, runLock, leaseLock, pc, req, staged, ops, alive>>

Call(c) == Create(c) \/ Transition(c) \/ Verify(c) \/ Acquire(c) \/ Release(c)
Step(c) == LockRun(c) \/ LockLease(c) \/ LockTimeout(c) \/ Check(c) \/ Fail(c)
           \/ Commit(c) \/ Unlock(c)

Next == (\E c \in Client : Call(c) \/ Step(c) \/ Crash(c)) \/ SetClock

Spec == Init /\ [][Next]_vars

\* A client that is not killed goes on; nobody relies on a lock timing out.
Progress(c) == LockRun(c) \/ LockLease(c) \/ Check(c) \/ Fail(c) \/ Commit(c) \/ Unlock(c)
FairSpec == Spec /\ \A c \in Client : WF_vars(Progress(c))

-----------------------------------------------------------------------------
TypeOK ==
    /\ run \in Run \cup {Absent}
    /\ lease \in Lease \cup {Absent}
    /\ runLock \in Client \cup {Absent}
    /\ leaseLock \in Client \cup {Absent}
    /\ clock \in Time
    /\ pc \in [Client -> Pc]
    /\ req \in [Client -> Request]
    /\ staged \in [Client -> Run \cup Lease \cup {Absent}]
    /\ ops \in 0..MaxOps
    /\ alive \in [Client -> BOOLEAN]

\* validRunState accepts every record on disk: a run is verified only when
\* complete and with evidence, and its dates are in order, whatever the clock
\* did between the writes.  A record it rejects could never be changed again.
PersistedReadable ==
    run # Absent =>
        /\ run.created_at <= run.updated_at
        /\ run.verified => /\ run.status = "complete" /\ run.verified_at # Absent
                           /\ run.created_at <= run.verified_at
                           /\ run.verified_at <= run.updated_at
        /\ ~run.verified => run.verified_at = Absent

\* What a client under the run lock is about to write is the successor of what
\* is on disk: no transition or verification overwrites one it has not seen.
NoLostUpdate ==
    \A c \in Client :
        pc[c] = "commit" =>
            /\ req[c].op = "create" => run = Absent
            /\ req[c].op \in {"transition", "verify"} =>
                 /\ run # Absent
                 /\ run.revision = req[c].expected
                 /\ staged[c].revision = run.revision + 1

\* complete, failed and cancelled are final, a verified run stays verified, and
\* revisions only grow.
SettledStays ==
    [][run # Absent => /\ run' # Absent
                       /\ run.status \in Terminal => run'.status = run.status
                       /\ run.verified => run'.verified
                       /\ run'.revision >= run.revision]_vars

\* A lease is granted only while the run is active; it leaves its owner only once
\* expired by the later of the clock and its own stamp, and to the next generation.
LeaseSuccession ==
    [][lease' # lease /\ lease' # Absent =>
          /\ RunActive
          /\ lease # Absent =>
               /\ lease'.generation = lease.generation + 1
               /\ lease'.owner # lease.owner => lease.expires_at <= lease'.mutated_at
               /\ lease'.mutated_at >= lease.mutated_at]_vars

\* A call that is not killed returns even if no lock wait ever times out: the
\* two locks are always taken in one order, and a dead holder blocks nobody.
CallsReturn == \A c \in Client : pc[c] # "idle" ~> pc[c] \in {"idle", "dead"}

\* The files with their dates implement the contract.
ContractRun == IF run = Absent THEN Absent
               ELSE [status |-> run.status, revision |-> run.revision, verified |-> run.verified]
ContractLease == IF lease = Absent THEN Absent
                 ELSE [owner |-> lease.owner, generation |-> lease.generation]
Contract == INSTANCE RunContract WITH run <- ContractRun, lease <- ContractLease
ImplementsContract == Contract!Spec

\* Absent is none of the records and no point in time.
ASSUME AbsentAssumption == /\ Absent \notin Run /\ Absent \notin Lease /\ Absent \notin Time
                           /\ Absent \notin Contract!Run /\ Absent \notin Contract!Lease
=============================================================================
