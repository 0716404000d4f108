--------------------------- MODULE RunStateProofs ---------------------------
(***************************************************************************)
(* RunState for every number of clients, calls and clock values, proved    *)
(* with TLAPS: the types, the readability of what is on disk, the absence  *)
(* of lost updates, the finality of settled runs, the succession of        *)
(* leases, and that every behaviour implements RunContract.                *)
(*                                                                         *)
(* The invariant says what the locks protect: from the check to the commit *)
(* of a call the file it is about to write cannot change, so the staged    *)
(* record is still the successor of the one on disk when it lands.         *)
(***************************************************************************)
EXTENDS RunState, TLAPS

Busy(c) == pc[c] \in {"check", "commit"}

\* The locks a call holds at each point.
LocksHeld ==
    \A c \in Client :
        /\ alive[c] <=> pc[c] # "dead"
        /\ pc[c] = "wantRun" => RunOp(c) \/ req[c].op = "acquire"
        /\ pc[c] = "wantLease" => LeaseOp(c)
        /\ Busy(c) => RunOp(c) \/ LeaseOp(c)
        /\ Busy(c) /\ (RunOp(c) \/ req[c].op = "acquire") => runLock = c
        /\ pc[c] = "wantLease" /\ req[c].op = "acquire" => runLock = c
        /\ Busy(c) /\ LeaseOp(c) => leaseLock = c

\* What validRunState accepts.
Readable(r) ==
    /\ r.created_at <= r.updated_at
    /\ r.verified => /\ r.status = "complete" /\ r.verified_at # Absent
                     /\ r.created_at <= r.verified_at
                     /\ r.verified_at <= r.updated_at
    /\ ~r.verified => r.verified_at = Absent

NextLease(old, new) ==
    IF old = Absent THEN new.generation = 1
    ELSE /\ new.generation = old.generation + 1
         /\ new.owner # old.owner => old.expires_at <= new.mutated_at
         /\ new.mutated_at >= old.mutated_at

\* The staged record against the files it was computed from.
StagedCreate(c) == /\ run = Absent
                   /\ staged[c] \in Run /\ Readable(staged[c])
                   /\ staged[c].status = "active" /\ staged[c].revision = 1 /\ ~staged[c].verified
StagedTransition(c) == /\ run # Absent /\ run.status = "active" /\ run.revision = req[c].expected
                       /\ staged[c] \in Run /\ Readable(staged[c])
                       /\ staged[c].status \in Terminal /\ ~staged[c].verified
                       /\ staged[c].revision = run.revision + 1
StagedVerify(c) == /\ run # Absent /\ run.status = "complete" /\ run.revision = req[c].expected
                   /\ staged[c] \in Run /\ Readable(staged[c])
                   /\ staged[c].status = "complete" /\ staged[c].verified
                   /\ staged[c].revision = run.revision + 1
StagedAcquire(c) == /\ RunActive
                    /\ staged[c] \in Lease /\ NextLease(lease, staged[c])
StagedRelease(c) == lease # Absent /\ staged[c] = Absent

Fits(c) ==
    /\ req[c].op = "create" => StagedCreate(c)
    /\ req[c].op = "transition" => StagedTransition(c)
    /\ req[c].op = "verify" => StagedVerify(c)
    /\ req[c].op = "acquire" => StagedAcquire(c)
    /\ req[c].op = "release" => StagedRelease(c)
StagedFits == \A c \in Client : pc[c] = "commit" => Fits(c)

IInv == TypeOK /\ LocksHeld /\ StagedFits /\ PersistedReadable

-----------------------------------------------------------------------------
(***************************************************************************)
(* What the steps do                                                       *)
(***************************************************************************)
\* The later of two times is a time, and not before either of them.
LEMMA Later ==
    ASSUME NEW a \in Time, NEW b \in Time
    PROVE  Max2(a, b) \in Time /\ Max2(a, b) >= a /\ Max2(a, b) >= b
  BY RunAssumption DEF Time, Max2

\* Every call starts by queueing for the first lock of its operation.
LEMMA CallShape ==
    ASSUME NEW c \in Client, Call(c)
    PROVE  \E op \in Operation, n \in 0..MaxRev, s \in Status, first \in {"wantRun", "wantLease"} :
              /\ Start(c, op, n, s, first)
              /\ first = "wantRun" => op # "release"
              /\ first = "wantLease" => op = "release"
  <1> USE RunAssumption DEF Operation, Status, Terminal
  <1>1. CASE Create(c)  BY <1>1 DEF Create
  <1>2. CASE Transition(c)  BY <1>2 DEF Transition
  <1>3. CASE Verify(c)  BY <1>3 DEF Verify
  <1>4. CASE Acquire(c)  BY <1>4 DEF Acquire
  <1>5. CASE Release(c)  BY <1>5 DEF Release
  <1>6. QED  BY <1>1, <1>2, <1>3, <1>4, <1>5 DEF Call

\* A check that passes stages a record that fits the files it was computed from.
LEMMA CheckShape ==
    ASSUME IInv, NEW c \in Client, Check(c)
    PROVE  /\ pc[c] = "check" /\ pc' = [pc EXCEPT ![c] = "commit"]
           /\ staged' = [staged EXCEPT ![c] = staged'[c]]
           /\ staged'[c] \in Run \cup Lease \cup {Absent}
           /\ UNCHANGED <<run, lease, runLock, leaseLock, clock, req, ops, alive>>
           /\ Fits(c)'
  <1>t. TypeOK /\ PersistedReadable  BY DEF IInv
  <1>1. CASE req[c].op = "create" /\ Prepare(c, run = Absent, NewRun)
    <2>1. NewRun \in Run /\ Readable(NewRun)
      BY <1>t DEF TypeOK, NewRun, Run, Status, Readable, Time
    <2>2. staged'[c] = NewRun /\ run' = run /\ req' = req  BY <1>1, <1>t DEF Prepare, TypeOK
    <2>3. StagedCreate(c)'
      BY <1>1, <2>1, <2>2 DEF Prepare, StagedCreate, NewRun, Readable
    <2>4. Fits(c)'  BY <1>1, <2>2, <2>3 DEF Fits
    <2>5. QED  BY <1>1, <1>t, <2>1, <2>2, <2>4 DEF Prepare, TypeOK
  <1>2. CASE req[c].op = "transition" /\ Prepare(c, TransitionAllowed(req[c]), Transitioned(req[c]))
    <2>a. run \in Run /\ run # Absent /\ run.status = "active" /\ req[c].status \in Terminal
          /\ run.revision = req[c].expected
      BY <1>2, <1>t DEF Prepare, TransitionAllowed, TypeOK, Run, Request, Status
    <2>b. Stamp \in Time /\ Stamp >= run.updated_at  BY <1>t, <2>a, Later DEF TypeOK, Run, Stamp
    <2>c. run.created_at <= run.updated_at  BY <1>t, <2>a DEF PersistedReadable
    <2>d. run.created_at \in Nat /\ run.updated_at \in Nat /\ Stamp \in Nat
      BY <2>a, <2>b, RunAssumption DEF Run, Time
    <2>e. DEFINE new == Transitioned(req[c])
    <2>f. /\ new.revision = run.revision + 1 /\ new.status = req[c].status /\ ~new.verified
          /\ new.verified_at = Absent /\ new.updated_at = Stamp /\ new.created_at = run.created_at
      BY <2>a DEF Transitioned, Run
    <2>r. run.revision + 1 \in Nat \ {0}  BY <2>a DEF Run
    <2>g. new \in Run
      <3>1. req[c].status \in Status /\ FALSE \in BOOLEAN /\ Absent \in Time \cup {Absent}
        BY <2>a DEF Status
      <3>2. QED  BY <2>a, <2>b, <2>r, <3>1 DEF Transitioned, Run
    <2>h. Readable(new)  BY <2>b, <2>c, <2>d, <2>f DEF Readable
    <2>2. staged'[c] = new /\ run' = run /\ req' = req  BY <1>2, <1>t DEF Prepare, TypeOK
    <2> HIDE DEF new
    <2>3. StagedTransition(c)'
      BY <2>a, <2>f, <2>g, <2>h, <2>2 DEF StagedTransition, Readable
    <2>4. Fits(c)'  BY <1>2, <2>2, <2>3 DEF Fits
    <2>5. QED  BY <1>2, <1>t, <2>g, <2>2, <2>4 DEF Prepare, TypeOK, new
  <1>3. CASE req[c].op = "verify" /\ Prepare(c, VerifyAllowed(req[c]), Verified)
    <2>a. run \in Run /\ run # Absent /\ run.status = "complete" /\ run.revision = req[c].expected
      BY <1>3, <1>t DEF Prepare, VerifyAllowed, TypeOK
    <2>b. Stamp \in Time /\ Stamp >= run.updated_at  BY <1>t, <2>a, Later DEF TypeOK, Run, Stamp
    <2>c. run.created_at <= run.updated_at  BY <1>t, <2>a DEF PersistedReadable
    <2>d. run.created_at \in Nat /\ run.updated_at \in Nat /\ Stamp \in Nat
      BY <2>a, <2>b, RunAssumption DEF Run, Time
    <2>e. DEFINE new == Verified
    <2>f. /\ new.revision = run.revision + 1 /\ new.status = "complete" /\ new.verified
          /\ new.verified_at = Stamp /\ new.updated_at = Stamp /\ new.created_at = run.created_at
      BY <2>a DEF Verified, Run
    <2>r. run.revision + 1 \in Nat \ {0}  BY <2>a DEF Run
    <2>g. new \in Run
      <3>1. TRUE \in BOOLEAN /\ Stamp \in Time \cup {Absent}
        BY <2>b
      <3>2. QED  BY <2>a, <2>b, <2>r, <3>1 DEF Verified, Run
    <2>h. Readable(new)  BY <2>b, <2>c, <2>d, <2>f, AbsentAssumption DEF Readable
    <2>2. staged'[c] = new /\ run' = run /\ req' = req  BY <1>3, <1>t DEF Prepare, TypeOK
    <2> HIDE DEF new
    <2>3. StagedVerify(c)'
      BY <2>a, <2>f, <2>g, <2>h, <2>2 DEF StagedVerify, Readable
    <2>4. Fits(c)'  BY <1>3, <2>2, <2>3 DEF Fits
    <2>5. QED  BY <1>3, <1>t, <2>g, <2>2, <2>4 DEF Prepare, TypeOK, new
  <1>4. CASE req[c].op = "acquire" /\ Prepare(c, AcquireAllowed(c), Granted(c))
    <2>b. LeaseStamp \in Time /\ (lease # Absent => LeaseStamp >= lease.mutated_at)
      BY <1>t, Later DEF TypeOK, Lease, LeaseStamp
    <2>c. LeaseStamp + Ttl \in Nat  BY <2>b, RunAssumption DEF Time
    <2>e. DEFINE new == Granted(c)
    <2>g. new \in Lease  BY <1>t, <2>b, <2>c DEF TypeOK, Granted, Lease
    <2>h. RunActive /\ NextLease(lease, new)
      BY <1>4, <2>b DEF Prepare, AcquireAllowed, NextLease, Granted
    <2>2. staged'[c] = new /\ run' = run /\ lease' = lease /\ req' = req
      BY <1>4, <1>t DEF Prepare, TypeOK
    <2> HIDE DEF new
    <2>3. StagedAcquire(c)'  BY <2>g, <2>h, <2>2 DEF StagedAcquire, RunActive, NextLease
    <2>4. Fits(c)'  BY <1>4, <2>2, <2>3 DEF Fits
    <2>5. QED  BY <1>4, <1>t, <2>g, <2>2, <2>4 DEF Prepare, TypeOK, new
  <1>5. CASE req[c].op = "release" /\ Prepare(c, ReleaseAllowed(c, req[c]), Absent)
    <2>2. staged'[c] = Absent /\ lease' = lease /\ req' = req /\ lease # Absent
      BY <1>5, <1>t DEF Prepare, TypeOK, ReleaseAllowed
    <2>4. Fits(c)'  BY <1>5, <2>2 DEF Fits, StagedRelease
    <2>5. QED  BY <1>5, <1>t, <2>2, <2>4 DEF Prepare, TypeOK
  <1>6. QED  BY <1>1, <1>2, <1>3, <1>4, <1>5 DEF Check

\* A commit replaces one file, under that file's lock, by a record that fits it.
LEMMA CommitShape ==
    ASSUME IInv, NEW c \in Client, Commit(c)
    PROVE  /\ pc[c] = "commit" /\ pc' = [pc EXCEPT ![c] = "unlock"]
           /\ UNCHANGED <<runLock, leaseLock, clock, req, staged, ops, alive>>
           /\ \/ /\ RunOp(c) /\ runLock = c /\ run' = staged[c] /\ lease' = lease
                 /\ StagedCreate(c) \/ StagedTransition(c) \/ StagedVerify(c)
              \/ /\ LeaseOp(c) /\ leaseLock = c /\ lease' = staged[c] /\ run' = run
                 /\ req[c].op = "acquire" /\ runLock = c /\ StagedAcquire(c)
              \/ /\ LeaseOp(c) /\ leaseLock = c /\ lease' = staged[c] /\ run' = run
                 /\ req[c].op = "release" /\ StagedRelease(c)
  <1>1. pc[c] = "commit" /\ pc' = [pc EXCEPT ![c] = "unlock"] /\ WriteStaged(c)
        /\ UNCHANGED <<runLock, leaseLock, clock, req, staged, ops, alive>>
    BY DEF Commit
  <1>2. Fits(c) /\ Busy(c)  BY <1>1 DEF IInv, StagedFits, Busy
  <1>3. CASE RunOp(c) /\ run' = staged[c] /\ lease' = lease
    <2>1. runLock = c  BY <1>2, <1>3 DEF IInv, LocksHeld
    <2>2. StagedCreate(c) \/ StagedTransition(c) \/ StagedVerify(c)
      BY <1>2, <1>3 DEF Fits, RunOp
    <2>3. QED  BY <1>1, <1>3, <2>1, <2>2
  <1>4. CASE LeaseOp(c) /\ lease' = staged[c] /\ run' = run
    <2>1. leaseLock = c  BY <1>2, <1>4 DEF IInv, LocksHeld
    <2>2. CASE req[c].op = "acquire"
      <3>1. runLock = c /\ StagedAcquire(c)  BY <1>2, <2>2 DEF IInv, LocksHeld, Fits
      <3>2. QED  BY <1>1, <1>4, <2>1, <2>2, <3>1
    <2>3. CASE req[c].op = "release"
      <3>1. StagedRelease(c)  BY <1>2, <2>3 DEF Fits
      <3>2. QED  BY <1>1, <1>4, <2>1, <2>3, <3>1
    <2>4. QED  BY <1>4, <2>2, <2>3 DEF LeaseOp
  <1>5. QED  BY <1>1, <1>3, <1>4 DEF WriteStaged

-----------------------------------------------------------------------------
(***************************************************************************)
(* The invariant                                                           *)
(***************************************************************************)
LEMMA InitIInv == Init => IInv
  <1> SUFFICES ASSUME Init PROVE IInv  OBVIOUS
  <1>1. NoRequest \in Request  BY RunAssumption DEF NoRequest, Request, Status
  <1>2. TypeOK  BY <1>1, RunAssumption DEF Init, TypeOK, Pc
  <1>3. LocksHeld  BY DEF Init, LocksHeld, Busy
  <1>4. StagedFits  BY DEF Init, StagedFits
  <1>5. PersistedReadable  BY DEF Init, PersistedReadable
  <1>6. QED  BY <1>2, <1>3, <1>4, <1>5 DEF IInv

LEMMA TypeStep ==
    ASSUME IInv, [Next]_vars PROVE TypeOK'
  <1>t. TypeOK  BY DEF IInv
  <1>1. ASSUME NEW c \in Client, Call(c) PROVE TypeOK'
    <2>1. PICK op \in Operation, n \in 0..MaxRev, s \in Status, first \in {"wantRun", "wantLease"} :
             Start(c, op, n, s, first)
      BY <1>1, CallShape
    <2>2. ops + 1 \in 0..MaxOps  BY <1>t, <2>1, RunAssumption DEF TypeOK, Start
    <2>3. [op |-> op, expected |-> n, status |-> s] \in Request  BY DEF Request, Operation
    <2>4. QED  BY <1>t, <2>1, <2>2, <2>3 DEF TypeOK, Start, Pc
  <1>2. ASSUME NEW c \in Client, LockRun(c) PROVE TypeOK'
    BY <1>2, <1>t DEF TypeOK, LockRun, Pc
  <1>3. ASSUME NEW c \in Client, LockLease(c) PROVE TypeOK'
    BY <1>3, <1>t DEF TypeOK, LockLease, Pc
  <1>4. ASSUME NEW c \in Client, LockTimeout(c) PROVE TypeOK'
    BY <1>4, <1>t DEF TypeOK, LockTimeout, Pc
  <1>5. ASSUME NEW c \in Client, Check(c) PROVE TypeOK'
    <2>1. /\ pc' = [pc EXCEPT ![c] = "commit"]
          /\ staged' = [staged EXCEPT ![c] = staged'[c]]
          /\ staged'[c] \in Run \cup Lease \cup {Absent}
          /\ UNCHANGED <<run, lease, runLock, leaseLock, clock, req, ops, alive>>
      BY <1>5, CheckShape
    <2>2. staged' \in [Client -> Run \cup Lease \cup {Absent}]  BY <1>t, <2>1 DEF TypeOK
    <2>3. QED  BY <1>t, <2>1, <2>2 DEF TypeOK, Pc
  <1>6. ASSUME NEW c \in Client, Fail(c) PROVE TypeOK'
    BY <1>6, <1>t DEF TypeOK, Fail, Pc
  <1>7. ASSUME NEW c \in Client, Commit(c) PROVE TypeOK'
    <2>1. /\ pc' = [pc EXCEPT ![c] = "unlock"]
          /\ UNCHANGED <<runLock, leaseLock, clock, req, staged, ops, alive>>
      BY <1>7, CommitShape
    <2>2. run' \in Run \cup {Absent}
      BY <1>7, <1>t, CommitShape DEF TypeOK, StagedCreate, StagedTransition, StagedVerify
    <2>3. lease' \in Lease \cup {Absent}
      BY <1>7, <1>t, CommitShape DEF TypeOK, StagedAcquire, StagedRelease
    <2>4. QED  BY <1>t, <2>1, <2>2, <2>3 DEF TypeOK, Pc
  <1>8. ASSUME NEW c \in Client, Unlock(c) PROVE TypeOK'
    <2>1. NoRequest \in Request  BY RunAssumption DEF NoRequest, Request, Status
    <2>2. QED  BY <1>8, <1>t, <2>1 DEF TypeOK, Unlock, Pc
  <1>9. ASSUME NEW c \in Client, Crash(c) PROVE TypeOK'
    BY <1>9, <1>t DEF TypeOK, Crash, Pc
  <1>10. CASE SetClock  BY <1>10, <1>t DEF TypeOK, SetClock
  <1>11. CASE UNCHANGED vars  BY <1>11, <1>t DEF TypeOK, vars
  <1>12. QED  BY <1>1, <1>2, <1>3, <1>4, <1>5, <1>6, <1>7, <1>8, <1>9, <1>10, <1>11 DEF Next, Step

\* Nobody takes a lock from a client that is still in its call.
LEMMA LocksStep ==
    ASSUME IInv, [Next]_vars PROVE LocksHeld'
  <1>t. TypeOK /\ LocksHeld  BY DEF IInv
  <1> USE DEF RunOp, LeaseOp, Busy
  <1>1. ASSUME NEW c \in Client, Call(c) PROVE LocksHeld'
    <2>1. PICK op \in Operation, n \in 0..MaxRev, s \in Status, first \in {"wantRun", "wantLease"} :
              /\ Start(c, op, n, s, first)
              /\ first = "wantRun" => op # "release"
              /\ first = "wantLease" => op = "release"
      BY <1>1, CallShape
    <2>2. QED  BY <1>t, <2>1 DEF TypeOK, LocksHeld, Start, Operation
  <1>2. ASSUME NEW c \in Client, LockRun(c) PROVE LocksHeld'
    BY <1>2, <1>t DEF TypeOK, LocksHeld, LockRun, Free
  <1>3. ASSUME NEW c \in Client, LockLease(c) PROVE LocksHeld'
    BY <1>3, <1>t DEF TypeOK, LocksHeld, LockLease, Free
  <1>4. ASSUME NEW c \in Client, LockTimeout(c) PROVE LocksHeld'
    BY <1>4, <1>t DEF TypeOK, LocksHeld, LockTimeout
  <1>5. ASSUME NEW c \in Client, Check(c) PROVE LocksHeld'
    <2>1. /\ pc[c] = "check" /\ pc' = [pc EXCEPT ![c] = "commit"]
          /\ UNCHANGED <<run, lease, runLock, leaseLock, clock, req, ops, alive>>
      BY <1>5, CheckShape
    <2>2. QED  BY <1>t, <2>1 DEF TypeOK, LocksHeld
  <1>6. ASSUME NEW c \in Client, Fail(c) PROVE LocksHeld'
    BY <1>6, <1>t DEF TypeOK, LocksHeld, Fail
  <1>7. ASSUME NEW c \in Client, Commit(c) PROVE LocksHeld'
    BY <1>7, <1>t DEF TypeOK, LocksHeld, Commit
  <1>8. ASSUME NEW c \in Client, Unlock(c) PROVE LocksHeld'
    BY <1>8, <1>t DEF TypeOK, LocksHeld, Unlock
  <1>9. ASSUME NEW c \in Client, Crash(c) PROVE LocksHeld'
    BY <1>9, <1>t DEF TypeOK, LocksHeld, Crash
  <1>10. CASE SetClock  BY <1>10, <1>t DEF LocksHeld, SetClock
  <1>11. CASE UNCHANGED vars  BY <1>11, <1>t DEF LocksHeld, vars
  <1>12. QED  BY <1>1, <1>2, <1>3, <1>4, <1>5, <1>6, <1>7, <1>8, <1>9, <1>10, <1>11 DEF Next, Step

\* A staged record still fits when the files it was computed from are the same.
LEMMA FitsKept ==
    ASSUME NEW c \in Client, Fits(c), req'[c] = req[c], staged'[c] = staged[c],
           RunOp(c) \/ req[c].op = "acquire" => run' = run,
           LeaseOp(c) => lease' = lease
    PROVE  Fits(c)'
  <1>1. CASE RunOp(c)
    BY <1>1 DEF Fits, RunOp, StagedCreate, StagedTransition, StagedVerify, Readable
  <1>2. CASE req[c].op = "acquire"
    BY <1>2 DEF Fits, LeaseOp, StagedAcquire, RunActive, NextLease
  <1>3. CASE req[c].op = "release"
    BY <1>3 DEF Fits, LeaseOp, StagedRelease
  <1>4. CASE ~RunOp(c) /\ ~LeaseOp(c)
    BY <1>4 DEF Fits, RunOp, LeaseOp
  <1>5. QED  BY <1>1, <1>2, <1>3, <1>4 DEF LeaseOp

\* From its check to its commit a client is alone in changing what it has read.
LEMMA FitsStep ==
    ASSUME IInv, [Next]_vars PROVE StagedFits'
  <1>t. TypeOK /\ LocksHeld /\ StagedFits  BY DEF IInv
  <1> SUFFICES ASSUME NEW d \in Client, pc'[d] = "commit" PROVE Fits(d)'
    BY DEF StagedFits
  <1>k. ASSUME pc[d] = "commit", UNCHANGED <<run, lease>>, req'[d] = req[d], staged'[d] = staged[d]
        PROVE  Fits(d)'
    BY <1>k, <1>t, FitsKept DEF StagedFits
  <1>1. ASSUME NEW c \in Client, Call(c) PROVE Fits(d)'
    <2>1. PICK op \in Operation, n \in 0..MaxRev, s \in Status, first \in {"wantRun", "wantLease"} :
             Start(c, op, n, s, first)
      BY <1>1, CallShape
    <2>2. pc[d] = "commit" /\ d # c  BY <1>t, <2>1 DEF TypeOK, Start
    <2>3. QED  BY <1>t, <1>k, <2>1, <2>2 DEF TypeOK, Start
  <1>2. ASSUME NEW c \in Client, LockRun(c) \/ LockLease(c) \/ LockTimeout(c) \/ Fail(c) \/ Crash(c)
        PROVE  Fits(d)'
    <2>1. UNCHANGED <<run, lease, req, staged>>
      BY <1>2 DEF LockRun, LockLease, LockTimeout, Fail, Crash
    <2>2. pc[d] = "commit"
      BY <1>2, <1>t DEF TypeOK, LockRun, LockLease, LockTimeout, Fail, Crash
    <2>3. QED  BY <1>k, <2>1, <2>2
  <1>5. ASSUME NEW c \in Client, Check(c) PROVE Fits(d)'
    <2>1. CASE c = d  BY <1>5, <2>1, CheckShape
    <2>2. CASE c # d
      <3>1. /\ pc' = [pc EXCEPT ![c] = "commit"]
            /\ staged' = [staged EXCEPT ![c] = staged'[c]]
            /\ UNCHANGED <<run, lease, req>>
        BY <1>5, CheckShape
      <3>2. pc[d] = "commit" /\ staged'[d] = staged[d]  BY <1>t, <2>2, <3>1 DEF TypeOK
      <3>3. QED  BY <1>k, <3>1, <3>2
    <2>3. QED  BY <2>1, <2>2
  <1>7. ASSUME NEW c \in Client, Commit(c) PROVE Fits(d)'
    <2>1. /\ pc' = [pc EXCEPT ![c] = "unlock"]
          /\ UNCHANGED <<req, staged>>
          /\ \/ run' = run /\ leaseLock = c
             \/ lease' = lease /\ runLock = c
      BY <1>7, CommitShape
    <2>2. pc[d] = "commit" /\ d # c  BY <1>t, <2>1 DEF TypeOK
    <2>3. Fits(d) /\ Busy(d)  BY <1>t, <2>2 DEF StagedFits, Busy
    <2>4. (RunOp(d) \/ req[d].op = "acquire" => runLock = d) /\ (LeaseOp(d) => leaseLock = d)
      BY <1>t, <2>3 DEF LocksHeld
    <2>5. (RunOp(d) \/ req[d].op = "acquire" => run' = run) /\ (LeaseOp(d) => lease' = lease)
      BY <2>1, <2>2, <2>4
    <2>6. QED  BY <2>1, <2>3, <2>5, FitsKept
  <1>8. ASSUME NEW c \in Client, Unlock(c) PROVE Fits(d)'
    <2>1. pc[d] = "commit" /\ d # c  BY <1>8, <1>t DEF TypeOK, Unlock
    <2>2. UNCHANGED <<run, lease>> /\ req'[d] = req[d] /\ staged'[d] = staged[d]
      BY <1>8, <1>t, <2>1 DEF TypeOK, Unlock
    <2>3. QED  BY <1>k, <2>1, <2>2
  <1>10. CASE SetClock  BY <1>10, <1>k DEF SetClock
  <1>11. CASE UNCHANGED vars  BY <1>11, <1>k DEF vars
  <1>12. QED  BY <1>1, <1>2, <1>5, <1>7, <1>8, <1>10, <1>11 DEF Next, Step

\* The run file changes only in a commit.
LEMMA OnlyCommitWrites ==
    ASSUME [Next]_vars, ~\E c \in Client : Commit(c)
    PROVE  UNCHANGED <<run, lease>>
  <1>1. ASSUME NEW c \in Client, Call(c) PROVE UNCHANGED <<run, lease>>
    BY <1>1, CallShape DEF Start
  <1>2. ASSUME NEW c \in Client,
               LockRun(c) \/ LockLease(c) \/ LockTimeout(c) \/ Fail(c) \/ Crash(c) \/ Unlock(c)
        PROVE  UNCHANGED <<run, lease>>
    BY <1>2 DEF LockRun, LockLease, LockTimeout, Fail, Crash, Unlock
  <1>3. ASSUME NEW c \in Client, Check(c) PROVE UNCHANGED <<run, lease>>
    BY <1>3 DEF Check, Prepare
  <1>4. CASE SetClock  BY <1>4 DEF SetClock
  <1>5. CASE UNCHANGED vars  BY <1>5 DEF vars
  <1>6. QED  BY <1>1, <1>2, <1>3, <1>4, <1>5 DEF Next, Step

LEMMA ReadableStep ==
    ASSUME IInv, [Next]_vars PROVE PersistedReadable'
  <1>1. CASE \E c \in Client : Commit(c)
    <2>1. PICK c \in Client : Commit(c)  BY <1>1
    <2>2. run' = run \/ Readable(run')
      BY <2>1, CommitShape DEF StagedCreate, StagedTransition, StagedVerify
    <2>3. QED  BY <2>2 DEF IInv, PersistedReadable, Readable
  <1>2. CASE ~\E c \in Client : Commit(c)
    BY <1>2, OnlyCommitWrites DEF IInv, PersistedReadable
  <1>3. QED  BY <1>1, <1>2

\* The invariant holds in every reachable state.
THEOREM Invariance == Spec => []IInv
  <1>1. IInv /\ [Next]_vars => IInv'
    BY TypeStep, LocksStep, FitsStep, ReadableStep DEF IInv
  <1>2. QED  BY InitIInv, <1>1, PTL DEF Spec

-----------------------------------------------------------------------------
(***************************************************************************)
(* The theorems                                                            *)
(***************************************************************************)
\* The state keeps its types: what is on disk is always a whole record.
THEOREM TypeCorrect == Spec => []TypeOK
  <1>1. IInv => TypeOK  BY DEF IInv
  <1>2. QED  BY <1>1, Invariance, PTL

\* validRunState (store.ts) accepts every record that create, transition and
\* verify ever write, wherever the clock was set in between.
THEOREM AlwaysReadable == Spec => []PersistedReadable
  <1>1. IInv => PersistedReadable  BY DEF IInv
  <1>2. QED  BY <1>1, Invariance, PTL

\* No transition or verification overwrites a revision its caller did not name.
THEOREM NothingLost == Spec => []NoLostUpdate
  <1>1. IInv => NoLostUpdate
    BY DEF IInv, StagedFits, Fits, StagedCreate, StagedTransition, StagedVerify, NoLostUpdate
  <1>2. QED  BY <1>1, Invariance, PTL

\* A settled run stays settled, a verified one verified, and revisions grow.
THEOREM SettledForGood == Spec => SettledStays
  <1>1. ASSUME IInv, [Next]_vars
        PROVE  [run # Absent => /\ run' # Absent
                                /\ run.status \in Terminal => run'.status = run.status
                                /\ run.verified => run'.verified
                                /\ run'.revision >= run.revision]_vars
    <2> SUFFICES ASSUME run # Absent
                 PROVE  /\ run' # Absent
                        /\ run.status \in Terminal => run'.status = run.status
                        /\ run.verified => run'.verified
                        /\ run'.revision >= run.revision
      OBVIOUS
    <2>t. run \in Run /\ PersistedReadable  BY <1>1 DEF IInv, TypeOK
    <2>1. CASE run' = run  BY <2>1, <2>t DEF Run
    <2>2. CASE run' # run
      <3>1. PICK c \in Client : Commit(c)  BY <1>1, <2>2, OnlyCommitWrites
      <3>2. run' = staged[c] /\ (StagedTransition(c) \/ StagedVerify(c))
        BY <1>1, <2>2, <3>1, CommitShape DEF StagedCreate
      <3>3. run' \in Run /\ run'.revision = run.revision + 1
        BY <3>2 DEF StagedTransition, StagedVerify
      <3>4. run' # Absent  BY <3>3, AbsentAssumption
      <3>5. run.status \in Terminal => run'.status = run.status
        BY <3>2 DEF StagedTransition, StagedVerify, Terminal
      <3>6. run.verified => run'.verified
        BY <2>t, <3>2 DEF StagedTransition, StagedVerify, PersistedReadable
      <3>7. run'.revision >= run.revision  BY <2>t, <3>3 DEF Run
      <3>8. QED  BY <3>4, <3>5, <3>6, <3>7
    <2>3. QED  BY <2>1, <2>2
  <1>2. QED  BY <1>1, Invariance, PTL DEF Spec, SettledStays

\* A lease changes hands only when expired, by the next generation, and only
\* while the run is active.
THEOREM LeasesSucceed == Spec => LeaseSuccession
  <1>1. ASSUME IInv, [Next]_vars
        PROVE  [lease' # lease /\ lease' # Absent =>
                  /\ RunActive
                  /\ lease # Absent =>
                       /\ lease'.generation = lease.generation + 1
                       /\ lease'.owner # lease.owner => lease.expires_at <= lease'.mutated_at
                       /\ lease'.mutated_at >= lease.mutated_at]_vars
    <2>1. CASE lease' = lease  BY <2>1
    <2>2. CASE lease' # lease /\ lease' # Absent
      <3>1. PICK c \in Client : Commit(c)  BY <1>1, <2>2, OnlyCommitWrites
      <3>2. lease' = staged[c] /\ StagedAcquire(c)
        BY <1>1, <2>2, <3>1, CommitShape DEF StagedRelease
      <3>3. QED  BY <3>2 DEF StagedAcquire, NextLease
    <2>3. QED  BY <2>1, <2>2
  <1>2. QED  BY <1>1, Invariance, PTL DEF Spec, LeaseSuccession

-----------------------------------------------------------------------------
(***************************************************************************)
(* The files implement the contract                                        *)
(***************************************************************************)
\* The abstract records are Absent exactly when the files are.
LEMMA ContractTypes ==
    ASSUME TypeOK
    PROVE  /\ run # Absent => ContractRun \in Contract!Run /\ ContractRun # Absent
           /\ lease # Absent => ContractLease \in Contract!Lease /\ ContractLease # Absent
  <1>1. ASSUME run # Absent PROVE ContractRun \in Contract!Run
    <2>1. run \in Run  BY <1>1 DEF TypeOK
    <2>2. QED  BY <1>1, <2>1 DEF ContractRun, Contract!Run, Run, Status, Terminal, Contract!Terminal
  <1>2. ASSUME lease # Absent PROVE ContractLease \in Contract!Lease
    <2>1. lease \in Lease  BY <1>2 DEF TypeOK
    <2>2. QED  BY <1>2, <2>1 DEF ContractLease, Contract!Lease, Lease
  <1>3. QED  BY <1>1, <1>2, AbsentAssumption

\* What each kind of commit does to the abstract records.
LEMMA CommitMaps ==
    ASSUME IInv, IInv', NEW c \in Client, Commit(c)
    PROVE  Contract!Next
  <1>t. TypeOK /\ TypeOK' /\ PersistedReadable  BY DEF IInv
  <1>1. CASE RunOp(c) /\ run' = staged[c] /\ lease' = lease /\ StagedCreate(c)
    <2>1. run' \in Run /\ run' # Absent  BY <1>1, AbsentAssumption DEF StagedCreate
    <2>2. run'.status = "active" /\ run'.revision = 1 /\ run'.verified = FALSE
      BY <1>1, <2>1 DEF StagedCreate, Run
    <2>3. Contract!Create
      BY <1>1, <2>1, <2>2 DEF Contract!Create, ContractRun, ContractLease, StagedCreate
    <2>4. QED  BY <2>3 DEF Contract!Next
  <1>2. CASE RunOp(c) /\ run' = staged[c] /\ lease' = lease /\ StagedTransition(c)
    <2>1. run' \in Run /\ run' # Absent /\ run # Absent
      BY <1>2, AbsentAssumption DEF StagedTransition
    <2>2. run'.status \in Terminal /\ run'.revision = run.revision + 1 /\ run'.verified = FALSE
      BY <1>2, <2>1 DEF StagedTransition, Run
    <2>3. ContractRun # Absent /\ ContractRun.status = "active" /\ ContractRun.revision = run.revision
      BY <1>2, <1>t, <2>1, ContractTypes DEF ContractRun, StagedTransition
    <2>4. ContractRun' = [status |-> run'.status, revision |-> run.revision + 1, verified |-> FALSE]
      BY <2>1, <2>2 DEF ContractRun
    <2>5. run'.status \in Contract!Terminal  BY <2>2 DEF Terminal, Contract!Terminal
    <2>6. ContractLease' = ContractLease  BY <1>2 DEF ContractLease
    <2>7. Contract!Settle  BY <2>3, <2>4, <2>5, <2>6 DEF Contract!Settle
    <2>8. QED  BY <2>7 DEF Contract!Next
  <1>3. CASE RunOp(c) /\ run' = staged[c] /\ lease' = lease /\ StagedVerify(c)
    <2>1. run' \in Run /\ run' # Absent /\ run # Absent
      BY <1>3, AbsentAssumption DEF StagedVerify
    <2>2. run'.status = "complete" /\ run'.revision = run.revision + 1 /\ run'.verified = TRUE
      BY <1>3, <2>1 DEF StagedVerify, Run
    <2>3. ContractRun # Absent /\ ContractRun.status = "complete" /\ ContractRun.revision = run.revision
      BY <1>3, <1>t, <2>1, ContractTypes DEF ContractRun, StagedVerify
    <2>4. ContractRun' = [status |-> "complete", revision |-> run.revision + 1, verified |-> TRUE]
      BY <2>1, <2>2 DEF ContractRun
    <2>5. ContractLease' = ContractLease  BY <1>3 DEF ContractLease
    <2>6. Contract!Verify  BY <2>3, <2>4, <2>5 DEF Contract!Verify
    <2>7. QED  BY <2>6 DEF Contract!Next
  <1>4. CASE lease' = staged[c] /\ run' = run /\ StagedAcquire(c)
    <2>1. lease' \in Lease /\ lease' # Absent /\ run # Absent /\ run.status = "active"
      BY <1>4, AbsentAssumption DEF StagedAcquire, RunActive
    <2>2. ContractRun # Absent /\ ContractRun.status = "active" /\ ContractRun' = ContractRun
      BY <1>4, <1>t, <2>1, ContractTypes DEF ContractRun
    <2>3. ContractLease' = [owner |-> lease'.owner, generation |-> lease'.generation]
      BY <2>1 DEF ContractLease
    <2>4. CASE lease = Absent
      <3>1. ContractLease = Absent /\ lease'.generation = 1
        BY <1>4, <2>4 DEF ContractLease, StagedAcquire, NextLease
      <3>2. QED  BY <2>1, <2>2, <2>3, <3>1 DEF Contract!Next, Contract!Grant, Lease
    <2>5. CASE lease # Absent
      <3>1. ContractLease # Absent /\ ContractLease.generation = lease.generation
        BY <1>t, <2>5, ContractTypes DEF ContractLease
      <3>2. lease'.generation = lease.generation + 1
        BY <1>4, <2>5 DEF StagedAcquire, NextLease
      <3>3. QED  BY <2>1, <2>2, <2>3, <3>1, <3>2 DEF Contract!Next, Contract!Grant, Lease
    <2>6. QED  BY <2>4, <2>5
  <1>5. CASE lease' = staged[c] /\ run' = run /\ StagedRelease(c)
    <2>1. ContractLease # Absent /\ ContractLease' = Absent /\ ContractRun' = ContractRun
      BY <1>5, <1>t, ContractTypes DEF StagedRelease, ContractLease, ContractRun
    <2>2. QED  BY <2>1 DEF Contract!Next, Contract!Drop
  <1>6. QED  BY <1>1, <1>2, <1>3, <1>4, <1>5, CommitShape

\* Every behaviour of the clients, crashes and clock included, is a behaviour
\* of the contract seen through the two files.
THEOREM Implements == Spec => ImplementsContract
  <1>1. Init => Contract!Init
    BY DEF Init, Contract!Init, ContractRun, ContractLease
  <1>2. IInv /\ IInv' /\ [Next]_vars => [Contract!Next]_<<ContractRun, ContractLease>>
    <2> SUFFICES ASSUME IInv, IInv', [Next]_vars
                 PROVE  [Contract!Next]_<<ContractRun, ContractLease>>
      OBVIOUS
    <2>1. CASE \E c \in Client : Commit(c)  BY <2>1, CommitMaps
    <2>2. CASE ~\E c \in Client : Commit(c)
      BY <2>2, OnlyCommitWrites DEF ContractRun, ContractLease
    <2>3. QED  BY <2>1, <2>2
  <1>3. QED  BY <1>1, <1>2, Invariance, PTL DEF Spec, ImplementsContract, Contract!Spec
=============================================================================
