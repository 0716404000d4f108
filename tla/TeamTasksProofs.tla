-------------------------- MODULE TeamTasksProofs --------------------------
(***************************************************************************)
(* TeamTasks for every team, task graph, lease and number of calls and     *)
(* failures, proved with TLAPS: the records are well formed, versions and  *)
(* the generations of granted claims rise, and claims are taken over for a *)
(* reason only.  Where nobody waits for a task that waits itself, tasks    *)
(* rest on completed ones and a reopening reaches all that rests on its    *)
(* task.                                                                   *)
(*                                                                         *)
(* The invariant follows a commit from the check to the file.  While a     *)
(* record is staged its task is locked, the file still holds the record    *)
(* the check read (or already the new one), and the reason for a take-over *)
(* holds on, since clocks run forward and processes do not come back.  A   *)
(* claim is granted under the dependency lock, with nobody at work on the  *)
(* task from the write of its record to the return of the call.            *)
(*                                                                         *)
(* What a task rests on counts with the commits under way, which may leave *)
(* the new status behind or go back to the old one.  Only calls under the  *)
(* dependency lock unblock a task, when no commit is under way on what it  *)
(* is blocked by; a reopening leaves its intent before it touches its task *)
(* and drops it when no dependent is left that may run.                    *)
(***************************************************************************)
EXTENDS TeamTasks, FiniteSetTheorems, WellFoundedInduction, TLAPS

Pc == {"idle", "dep", "reconcile", "lock", "append", "write", "revert", "rewrite", "unblock", "cascade",
       "ok", "failed"}
Staging == {"append", "write", "revert", "rewrite"}
Claiming == {"claim", "reclaim"}
Using == {"renew", "complete", "fail", "return", "release"}
CallRecord == [op : Claiming \cup Using \cup {"reopen"}, task : Task, token : Nat, expected : Nat,
               force : BOOLEAN]
CascadeRecord == [root : Task, cur : Task, rest : SUBSET Task, todo : SUBSET Task]
Grant == [task : Task, token : Nat, gen : Nat]

TypeInv ==
    /\ file \in [Task -> TaskRecord \cup {None}]
    /\ journal \in [Task -> [n : Nat, last : TaskRecord, reopened : BOOLEAN]]
    /\ intents \in SUBSET Task
    /\ depLock \in Worker \cup {None} /\ taskLock \in [Task -> Worker \cup {None}]
    /\ clock \in 0..MaxTime /\ alive \in [Worker -> BOOLEAN]
    /\ pc \in [Worker -> Pc] /\ call \in [Worker -> CallRecord \cup {None}]
    /\ stage \in [Worker -> StageRecord \cup {None}]
    /\ cascade \in [Worker -> CascadeRecord \cup {None}]
    /\ pending \in [Worker -> SUBSET Task] /\ granted \in [Worker -> SUBSET Grant]

\* A record a task may have.
Sound(t, r) == WellFormed(r) /\ (r.status = "blocked" => Deps[t] # {})

Records ==
    /\ \A t \in Task : (file[t] # None => Sound(t, file[t])) /\ Sound(t, journal[t].last)
    /\ \A w \in Worker : stage[w] # None => /\ Sound(stage[w].task, stage[w].new)
                                            /\ Sound(stage[w].task, stage[w].prev)

\* Where a call is, by its operation.
StepOf(w) ==
    LET op == call[w].op IN
    /\ pc[w] # "idle" => call[w] \in CallRecord
    /\ pc[w] \in Staging <=> stage[w] # None
    /\ pc[w] \in {"dep", "reconcile", "cascade", "unblock", "append"} => UsesDepLock(op)
    /\ pc[w] = "unblock" => op = "complete"
    /\ pc[w] = "append" => op = "reopen"
    /\ pc[w] = "cascade" => op = "reopen" \/ Reconciling(w)
    /\ pc[w] \in {"cascade", "unblock"} => /\ cascade[w] \in CascadeRecord
                                           /\ \A u \in cascade[w].rest : Deps[u] # {}
    /\ pc[w] \notin {"idle", "dep", "failed"} /\ UsesDepLock(op) => depLock = w
    /\ pc[w] # "idle" /\ op \in Using =>
          \E g \in granted[w] : g.task = call[w].task /\ g.token = call[w].token

\* What a staged record is for.
StageOf(w) ==
    LET s == stage[w]
        op == call[w].op
    IN  s # None =>
          /\ s.next = "ok" => op \notin {"complete", "reopen"} /\ s.task = call[w].task
          /\ s.next = "unblock" => op = "complete"
          /\ s.next = "cascade" => UsesDepLock(op) /\ (op = "reopen" \/ Reconciling(w))
          /\ s.next = "cascade" /\ op # "reopen" => s.fail = "reconcile"
          /\ s.fail = "reconcile" => s.next = "cascade"
          /\ pc[w] = "append" => s.next = "cascade"
          /\ s.next # "ok" => /\ cascade[w] \in CascadeRecord
                              /\ \A u \in cascade[w].rest : Deps[u] # {}

Control == \A w \in Worker : StepOf(w) /\ StageOf(w)

Takeover(w, old, new) ==
    old.claim # None /\ new.claim # None /\ old.claim.token # new.claim.token =>
       \/ old.claim.until <= clock /\ (old.claim.proc => ~alive[old.owner])
       \/ call[w].force

SameToken(old, new) == old.claim # None /\ new.claim # None => old.claim.token = new.claim.token

IsClaim(w) == stage[w].next = "ok" /\ call[w].op \in Claiming

\* The file of a task on which a record is staged.
CommitOf(w) ==
    LET s == stage[w]
        t == s.task
    IN  s # None =>
          /\ taskLock[t] = w
          /\ file[t] # None
          /\ s.prev.gen <= s.new.gen
          /\ file[t] = s.new \/ (file[t].version < s.new.version /\ file[t].gen <= s.new.gen)
          /\ pc[w] # "append" => journal[t].last = s.new \/ (pc[w] = "rewrite" /\ journal[t].last = Reverted(w))
          /\ Takeover(w, file[t], s.new)
          /\ IsClaim(w) \/ (SameToken(file[t], s.prev) /\ SameToken(s.new, s.prev))

Commits == \A w \in Worker : CommitOf(w)

\* No claim with this token or generation has been granted.
New(t, r) ==
    /\ r.claim # None /\ r.claim.gen = r.gen /\ r.claim.token <= journal[t].n
    /\ \A v \in Worker : \A g \in granted[v] : g.task = t => g.gen < r.gen /\ g.token < r.claim.token

Grants ==
    /\ \A v \in Worker : \A g \in granted[v] : g.gen <= Current(g.task).gen /\ g.token <= journal[g.task].n
    /\ \A w \in Worker : stage[w] # None /\ IsClaim(w) => New(stage[w].task, stage[w].new)
    /\ \A w \in Worker : pc[w] = "ok" /\ call[w].op \in Claiming =>
          /\ file[call[w].task] # None /\ New(call[w].task, file[call[w].task])
          /\ \A v \in Worker : stage[v] # None => stage[v].task # call[w].task

IInv == TypeInv /\ Records /\ Control /\ Commits /\ Grants

-----------------------------------------------------------------------------
(***************************************************************************)
(* Records                                                                 *)
(***************************************************************************)
\* None is none of the records.
LEMMA NoneIsNone ==
    ASSUME TypeInv
    PROVE  /\ \A t \in Task : file[t] # None => file[t] \in TaskRecord
           /\ \A w \in Worker : stage[w] # None => stage[w] \in StageRecord
           /\ None \notin TaskRecord /\ None \notin StageRecord /\ None \notin ClaimRecord
           /\ None \notin Worker /\ None \notin Task
  BY NoneAssumption, TaskAssumption DEF TypeInv

\* What is read of a task is a sound record of it.
LEMMA CurrentSound ==
    ASSUME TypeInv, Records, NEW t \in Task
    PROVE  Current(t) \in TaskRecord /\ Sound(t, Current(t))
  BY NoneIsNone DEF TypeInv, Records, Current

\* The fields of a sound record.
LEMMA SoundFields ==
    ASSUME NEW t \in Task, NEW r, Sound(t, r)
    PROVE  /\ r \in TaskRecord
           /\ r.status \in Status /\ r.version \in Nat /\ r.gen \in Nat /\ r.owner \in Worker \cup {None}
           /\ r.claim \in ClaimRecord \cup {None}
           /\ r.claim # None => /\ r.claim.gen \in Nat /\ r.claim.token \in Nat
                                /\ r.claim.since \in 0..MaxTime
                                /\ r.claim.until \in 0..(MaxTime + Lease) /\ r.claim.proc \in BOOLEAN
  BY DEF Sound, WellFormed, TaskRecord, ClaimRecord

\* A claim made now is a claim, of the next generation and with a token of its own.
LEMMA NewClaimShape ==
    ASSUME TypeInv, NEW w \in Worker, NEW t \in Task, NEW r, Sound(t, r)
    PROVE  /\ NewClaim(w, r, t) \in ClaimRecord
           /\ NewClaim(w, r, t).gen = r.gen + 1
           /\ NewClaim(w, r, t).token = journal[t].n + 1
  <1>1. r.gen \in Nat /\ journal[t].n \in Nat /\ clock \in 0..MaxTime /\ clock + Lease \in 0..(MaxTime + Lease)
    BY SoundFields, TaskAssumption DEF TypeInv
  <1> QED  BY <1>1 DEF NewClaim, ClaimRecord

LEMMA UnclaimedShape ==
    ASSUME NEW t \in Task, NEW r, Sound(t, r)
    PROVE  /\ Sound(t, Unclaimed(t, r))
           /\ Unclaimed(t, r).gen = r.gen /\ Unclaimed(t, r).version >= r.version
           /\ Unclaimed(t, r).claim = None
  <1>1. CASE r.status = "in_progress"
    <2>1. r.version \in Nat /\ r.version + 1 \in Nat /\ Assigned[t] \in Worker \cup {None}
      BY SoundFields, TaskAssumption
    <2>2. /\ Unclaimed(t, r) \in TaskRecord
          /\ Unclaimed(t, r).status = "pending" /\ Unclaimed(t, r).claim = None
          /\ Unclaimed(t, r).gen = r.gen /\ Unclaimed(t, r).version = r.version + 1
      BY <1>1, <2>1, SoundFields DEF Unclaimed, TaskRecord, Status
    <2> QED  BY <2>1, <2>2 DEF Sound, WellFormed
  <1>2. CASE r.status # "in_progress"
    BY <1>2, SoundFields DEF Unclaimed, Sound, WellFormed
  <1> QED  BY <1>1, <1>2

LEMMA ReclaimedShape ==
    ASSUME TypeInv, NEW w \in Worker, NEW t \in Task, NEW r, Sound(t, r), r.status = "in_progress"
    PROVE  /\ Sound(t, Reclaimed(w, t, r))
           /\ Reclaimed(w, t, r).gen = r.gen + 1 /\ Reclaimed(w, t, r).version = r.version + 1
           /\ Reclaimed(w, t, r).claim = NewClaim(w, r, t)
  <1>1. /\ r \in TaskRecord /\ r.version \in Nat /\ r.gen \in Nat
        /\ NewClaim(w, r, t) \in ClaimRecord /\ NewClaim(w, r, t).gen = r.gen + 1
        /\ r.version + 1 \in Nat /\ r.gen + 1 \in Nat
    BY SoundFields, NewClaimShape
  <1>2. /\ Reclaimed(w, t, r) \in TaskRecord
        /\ Reclaimed(w, t, r).status = "in_progress" /\ Reclaimed(w, t, r).owner = w
        /\ Reclaimed(w, t, r).gen = r.gen + 1 /\ Reclaimed(w, t, r).version = r.version + 1
        /\ Reclaimed(w, t, r).claim = NewClaim(w, r, t)
    BY <1>1 DEF Reclaimed, TaskRecord
  <1>3. NewClaim(w, r, t) # None /\ w # None
    BY <1>1, NoneIsNone
  <1> QED  BY <1>1, <1>2, <1>3 DEF Sound, WellFormed

LEMMA RenewedShape ==
    ASSUME TypeInv, NEW t \in Task, NEW r, Sound(t, r), r.status = "in_progress"
    PROVE  /\ Sound(t, Renewed(r))
           /\ Renewed(r).gen = r.gen /\ Renewed(r).version = r.version + 1
           /\ Renewed(r).claim # None /\ Renewed(r).claim.token = r.claim.token
  <1>1. r \in TaskRecord /\ r.version + 1 \in Nat /\ r.claim \in ClaimRecord /\ r.claim # None
    BY SoundFields DEF Sound, WellFormed
  <1>2. RenewedUntil(r) \in 0..(MaxTime + Lease)
    <2>1. /\ clock \in Nat /\ clock <= MaxTime /\ r.claim.until \in Nat /\ r.claim.until <= MaxTime + Lease
          /\ Lease \in Nat /\ MaxTime \in Nat
      BY <1>1, TaskAssumption DEF TypeInv, ClaimRecord
    <2> QED  BY <2>1 DEF RenewedUntil, Later
  <1> DEFINE c == [r.claim EXCEPT !.until = RenewedUntil(r)]
  <1>3. c \in ClaimRecord /\ c.gen = r.claim.gen /\ c.token = r.claim.token
    BY <1>1, <1>2 DEF ClaimRecord
  <1>4. c # None
    BY <1>3, NoneIsNone
  <1> HIDE DEF c
  <1>5. Renewed(r) = [r EXCEPT !.version = r.version + 1, !.claim = c]
    BY <1>1 DEF Renewed, c, TaskRecord
  <1>6. /\ Renewed(r) \in TaskRecord /\ Renewed(r).status = r.status /\ Renewed(r).owner = r.owner
        /\ Renewed(r).gen = r.gen /\ Renewed(r).version = r.version + 1 /\ Renewed(r).claim = c
    BY <1>1, <1>3, <1>5 DEF TaskRecord
  <1> QED  BY <1>3, <1>4, <1>6 DEF Sound, WellFormed

LEMMA FinishedShape ==
    ASSUME NEW w \in Worker, NEW t \in Task, NEW r, Sound(t, r), call[w].op \in {"complete", "fail", "return"}
    PROVE  /\ Sound(t, Finished(w, r))
           /\ Finished(w, r).gen = r.gen /\ Finished(w, r).version = r.version + 1
           /\ Finished(w, r).claim = None
  <1>1. r \in TaskRecord /\ r.version + 1 \in Nat
    BY SoundFields
  <1>2. /\ Finished(w, r) \in TaskRecord /\ Finished(w, r).status \in {"completed", "failed", "pending"}
        /\ Finished(w, r).gen = r.gen /\ Finished(w, r).version = r.version + 1 /\ Finished(w, r).claim = None
    BY <1>1 DEF Finished, TaskRecord, Status
  <1> QED  BY <1>2 DEF Sound, WellFormed

LEMMA ReleasedShape ==
    ASSUME NEW t \in Task, NEW r, Sound(t, r)
    PROVE  /\ Sound(t, Released(r))
           /\ Released(r).gen = r.gen /\ Released(r).version = r.version + 1 /\ Released(r).claim = None
  <1>1. r \in TaskRecord /\ r.version + 1 \in Nat
    BY SoundFields
  <1>2. /\ Released(r) \in TaskRecord /\ Released(r).status = "pending"
        /\ Released(r).gen = r.gen /\ Released(r).version = r.version + 1 /\ Released(r).claim = None
    BY <1>1 DEF Released, TaskRecord, Status
  <1> QED  BY <1>2 DEF Sound, WellFormed

LEMMA ReopenedShape ==
    ASSUME NEW t \in Task, NEW r, Sound(t, r)
    PROVE  /\ Sound(t, Reopened(t, r))
           /\ Reopened(t, r).gen = r.gen /\ Reopened(t, r).version = r.version + 1
           /\ Reopened(t, r).claim = None
  <1>1. r \in TaskRecord /\ r.version + 1 \in Nat /\ Assigned[t] \in Worker \cup {None}
    BY SoundFields, TaskAssumption
  <1>2. /\ Reopened(t, r) \in TaskRecord
        /\ Reopened(t, r).status = IF Ready(t) THEN "pending" ELSE "blocked"
        /\ Reopened(t, r).gen = r.gen /\ Reopened(t, r).version = r.version + 1
        /\ Reopened(t, r).claim = None
    BY <1>1 DEF Reopened, TaskRecord, Status
  <1>3. ~Ready(t) => Deps[t] # {}
    BY DEF Ready
  <1> QED  BY <1>2, <1>3 DEF Sound, WellFormed

LEMMA ReblockedShape ==
    ASSUME NEW u \in Task, NEW r, Sound(u, r), Deps[u] # {}
    PROVE  /\ Sound(u, Reblocked(u, r))
           /\ Reblocked(u, r).gen = r.gen /\ Reblocked(u, r).version = r.version + 1
           /\ Reblocked(u, r).claim = None
  <1> DEFINE o == IF Assigned[u] # None THEN Assigned[u] ELSE IF r.status = "pending" THEN r.owner ELSE None
  <1>1. r \in TaskRecord /\ r.version + 1 \in Nat /\ o \in Worker \cup {None}
    BY SoundFields, TaskAssumption
  <1> HIDE DEF o
  <1>2. Reblocked(u, r) = [r EXCEPT !.status = "blocked", !.version = r.version + 1, !.claim = None, !.owner = o]
    BY <1>1 DEF Reblocked, o, TaskRecord
  <1>3. /\ Reblocked(u, r) \in TaskRecord /\ Reblocked(u, r).status = "blocked"
        /\ Reblocked(u, r).gen = r.gen /\ Reblocked(u, r).version = r.version + 1 /\ Reblocked(u, r).claim = None
    BY <1>1, <1>2 DEF TaskRecord, Status
  <1> QED  BY <1>3 DEF Sound, WellFormed

\* A task whose prerequisites are met is open again.
LEMMA UnblockedShape ==
    ASSUME NEW u \in Task, NEW r, Sound(u, r), r.status = "blocked"
    PROVE  LET new == [r EXCEPT !.status = "pending", !.version = @ + 1]
           IN  /\ Sound(u, new) /\ new.gen = r.gen /\ new.version = r.version + 1 /\ new.claim = None
  <1> DEFINE new == [r EXCEPT !.status = "pending", !.version = @ + 1]
  <1>1. r \in TaskRecord /\ r.version + 1 \in Nat /\ r.claim = None
    BY SoundFields DEF Sound, WellFormed
  <1>2. /\ new \in TaskRecord /\ new.status = "pending"
        /\ new.gen = r.gen /\ new.version = r.version + 1 /\ new.claim = None
    BY <1>1 DEF TaskRecord, Status
  <1> QED  BY <1>2 DEF Sound, WellFormed

\* The records an operation may leave, against the one it was decided on.
LEMMA OutcomeShape ==
    ASSUME TypeInv, Records, NEW w \in Worker, call[w] \in CallRecord,
           NEW ambiguous \in BOOLEAN, NEW r \in Outcomes(w, call[w].task, ambiguous)
    PROVE  LET t == call[w].task
               op == call[w].op
               old == Current(t)
           IN  /\ op # "reopen"
               /\ Sound(t, r) /\ Sound(t, Before(w, t)) /\ Before(w, t).gen <= r.gen
               /\ old.version < r.version /\ old.gen <= r.gen
               /\ Takeover(w, old, r)
               /\ op \in Claiming => /\ r.claim # None /\ r.claim.gen = r.gen /\ r.gen = old.gen + 1
                                     /\ r.claim.token = journal[t].n + 1
               /\ op \notin Claiming => Before(w, t) = old /\ SameToken(r, old)
               /\ op \in Using => Holds(w, old)
  <1> DEFINE t == call[w].task
             op == call[w].op
             old == Current(t)
  <1>0. t \in Task /\ op \in Claiming \cup Using \cup {"reopen"} /\ Sound(t, old)
    BY CurrentSound DEF CallRecord
  <1>f. /\ old.version \in Nat /\ old.gen \in Nat
        /\ old.status = "in_progress" <=> old.claim # None
        /\ old.claim # None => old.claim.token \in Nat
    BY <1>0, SoundFields DEF Sound, WellFormed
  <1>1. CASE op = "claim"
    <2>1. /\ ClaimAllowed(w, t, old, ambiguous) /\ r = Claimed(w, t, Unclaimed(t, old))
          /\ Before(w, t) = Unclaimed(t, old)
      BY <1>1 DEF Outcomes, Before
    <2>u. /\ Sound(t, Unclaimed(t, old)) /\ Unclaimed(t, old).gen = old.gen
          /\ Unclaimed(t, old).version >= old.version /\ Unclaimed(t, old).version \in Nat
      BY <1>0, UnclaimedShape, SoundFields
    <2>2. /\ r.status = "in_progress" /\ r.version = Unclaimed(t, old).version + 1 /\ r.owner = w
          /\ r.gen = old.gen + 1 /\ r.claim = NewClaim(w, Unclaimed(t, old), t)
          /\ r \in TaskRecord
      BY <2>1, <2>u, <1>0, <1>f, NewClaimShape DEF Claimed, TaskRecord, Status
    <2>3. /\ r.claim # None /\ r.claim.gen = r.gen /\ r.claim.token = journal[t].n + 1
      BY <2>2, <2>u, <1>0, NewClaimShape, NoneIsNone
    <2>4. Takeover(w, old, r)
      BY <2>1, <1>f DEF Takeover, ClaimAllowed, Abandoned, Expired, ProcessDead
    <2>5. old.version < r.version
      BY <2>2, <2>u, <1>f
    <2>6. Sound(t, r)
      BY <2>2, <2>3, <1>f, TaskAssumption DEF Sound, WellFormed
    <2> QED  BY <1>f, <1>1, <2>1, <2>u, <2>2, <2>3, <2>4, <2>5, <2>6 DEF Claiming, Using
  <1>2. CASE op = "reclaim"
    <2>1. /\ ReclaimAllowed(w, old, ambiguous) /\ r = Reclaimed(w, t, old) /\ Before(w, t) = old
      BY <1>2 DEF Outcomes, Before
    <2>2. /\ Sound(t, r) /\ r.gen = old.gen + 1 /\ r.version = old.version + 1 /\ r.claim = NewClaim(w, old, t)
      BY <2>1, <1>0, ReclaimedShape DEF ReclaimAllowed
    <2>3. r.claim # None /\ r.claim.gen = r.gen /\ r.claim.token = journal[t].n + 1
      BY <2>2, <1>0, NewClaimShape, NoneIsNone
    <2>4. Takeover(w, old, r)
      BY <2>1, <1>f DEF Takeover, ReclaimAllowed, Expired, ProcessDead
    <2> QED  BY <1>0, <1>f, <1>2, <2>1, <2>2, <2>3, <2>4 DEF Claiming, Using
  <1>3. CASE op = "renew"
    <2>1. RenewAllowed(w, old, ambiguous) /\ r = Renewed(old) /\ Before(w, t) = old
      BY <1>3 DEF Outcomes, Before
    <2>2. Holds(w, old)
      BY <2>1 DEF RenewAllowed
    <2>3. /\ Sound(t, r) /\ r.gen = old.gen /\ r.version = old.version + 1 /\ r.claim.token = old.claim.token
      BY <2>1, <2>2, <1>0, RenewedShape DEF Holds
    <2> QED  BY <1>0, <1>f, <1>3, <2>1, <2>2, <2>3 DEF Takeover, SameToken, Claiming, Using
  <1>4. CASE op \in {"complete", "fail", "return"}
    <2>1. FinishAllowed(w, t, old) /\ r = Finished(w, old) /\ Before(w, t) = old
      BY <1>4 DEF Outcomes, Before
    <2>2. Holds(w, old)
      BY <2>1 DEF FinishAllowed
    <2>3. Sound(t, r) /\ r.gen = old.gen /\ r.version = old.version + 1 /\ r.claim = None
      BY <2>1, <1>0, <1>4, FinishedShape
    <2> QED  BY <1>0, <1>f, <1>4, <2>1, <2>2, <2>3 DEF Takeover, SameToken, Claiming, Using
  <1>5. CASE op = "release"
    <2>1. ReleaseAllowed(w, old) /\ r = Released(old) /\ Before(w, t) = old
      BY <1>5 DEF Outcomes, Before
    <2>2. Sound(t, r) /\ r.gen = old.gen /\ r.version = old.version + 1 /\ r.claim = None
      BY <2>1, <1>0, ReleasedShape
    <2> QED  BY <1>0, <1>f, <1>5, <2>1, <2>2 DEF Takeover, SameToken, Claiming, Using, ReleaseAllowed
  <1>6. CASE op = "reopen"
    BY <1>6 DEF Outcomes
  <1> QED  BY <1>0, <1>1, <1>2, <1>3, <1>4, <1>5, <1>6 DEF Claiming, Using

-----------------------------------------------------------------------------
(***************************************************************************)
(* Steps                                                                   *)
(***************************************************************************)
\* Files that are missing come back as they were read; the others stay.
LEMMA RebuiltKeeps ==
    ASSUME TypeInv, Records, NEW ts, file' = Rebuilt(ts),
           \A u \in Task \ ts : journal'[u] = journal[u]
    PROVE  /\ file' \in [Task -> TaskRecord \cup {None}]
           /\ \A u \in Task : /\ file'[u] # None => Sound(u, file'[u])
                              /\ file[u] # None => file'[u] = file[u]
                              /\ u \in ts => file'[u] = Current(u)
                              /\ Current(u)' = Current(u)
  <1>1. file' \in [Task -> TaskRecord \cup {None}]
    BY CurrentSound DEF Rebuilt, TypeInv
  <1>2. ASSUME NEW u \in Task
        PROVE  /\ file'[u] # None => Sound(u, file'[u])
               /\ file[u] # None => file'[u] = file[u]
               /\ u \in ts => file'[u] = Current(u)
               /\ Current(u)' = Current(u)
    <2>1. CASE u \in ts
      BY <2>1, CurrentSound, NoneIsNone DEF Rebuilt, Current
    <2>2. CASE u \notin ts
      BY <2>2, CurrentSound DEF Rebuilt, Current, Records
    <2> QED  BY <2>1, <2>2
  <1> QED  BY <1>1, <1>2

\* What has been staged is undone by a sound record under a new version.
LEMMA RevertedShape ==
    ASSUME TypeInv, Records, Control, Commits, NEW w \in Worker, stage[w] # None
    PROVE  /\ Sound(stage[w].task, Reverted(w))
           /\ Reverted(w).version = stage[w].new.version + 1
           /\ Reverted(w).gen = stage[w].new.gen
           /\ Reverted(w).claim = IF IsClaim(w) THEN None ELSE stage[w].prev.claim
  <1> DEFINE s == stage[w]
             kept == IF Assigned[s.task] # None THEN Assigned[s.task]
                     ELSE IF s.prev.status = "pending" THEN s.prev.owner ELSE None
  <1>1. /\ s.task \in Task /\ Sound(s.task, s.new) /\ Sound(s.task, s.prev) /\ s.prev.gen <= s.new.gen
        /\ s.fail \in {"failed", "reconcile"} /\ (s.fail = "reconcile" => s.next = "cascade")
    BY NoneIsNone DEF StageRecord, Records, Commits, CommitOf, Control, StageOf
  <1>2. /\ s.prev \in TaskRecord /\ s.new.version \in Nat /\ s.new.gen \in Nat /\ s.prev.gen \in Nat
        /\ s.prev.status \in Status /\ kept \in Worker \cup {None}
        /\ s.prev.claim # None => s.prev.claim.gen \in Nat
    BY <1>1, SoundFields, TaskAssumption
  <1> HIDE DEF kept
  <1>3. CASE IsClaim(w)
    <2>1. Reverted(w) = [status |-> IF s.prev.status = "in_progress" THEN "pending" ELSE s.prev.status,
                         version |-> s.new.version + 1, gen |-> s.new.gen, owner |-> kept, claim |-> None]
      BY <1>1, <1>3 DEF Reverted, IsClaim, Claiming, kept
    <2>2. Reverted(w) \in TaskRecord
      BY <1>2, <2>1 DEF TaskRecord, Status
    <2> QED  BY <1>1, <1>3, <2>1, <2>2 DEF Sound, WellFormed
  <1>4. CASE ~IsClaim(w)
    <2>1. Reverted(w) = [s.prev EXCEPT !.version = s.new.version + 1, !.gen = s.new.gen]
      BY <1>1, <1>4 DEF Reverted, IsClaim, Claiming
    <2>2. /\ Reverted(w) \in TaskRecord /\ Reverted(w).status = s.prev.status
          /\ Reverted(w).owner = s.prev.owner /\ Reverted(w).claim = s.prev.claim
          /\ Reverted(w).version = s.new.version + 1 /\ Reverted(w).gen = s.new.gen
      <3> DEFINE r == s.prev
                 v == s.new.version + 1
                 g == s.new.gen
      <3>1. r \in TaskRecord /\ v \in Nat /\ g \in Nat /\ Reverted(w) = [r EXCEPT !.version = v, !.gen = g]
        BY <1>2, <2>1
      <3> HIDE DEF r, v, g
      <3>2. /\ Reverted(w) \in TaskRecord /\ Reverted(w).status = r.status /\ Reverted(w).owner = r.owner
            /\ Reverted(w).claim = r.claim /\ Reverted(w).version = v /\ Reverted(w).gen = g
        BY <3>1 DEF TaskRecord
      <3> QED  BY <3>2 DEF r, v, g
    <2> QED  BY <1>1, <1>2, <1>4, <2>2 DEF Sound, WellFormed
  <1> QED  BY <1>3, <1>4

\* The steps that stage a record s of a task t.
Enters(w, t, s) ==
    /\ t \in Task /\ s \in StageRecord /\ s.task = t
    /\ pc[w] # "idle" /\ stage[w] = None /\ taskLock[t] = None
    /\ stage' = [stage EXCEPT ![w] = s] /\ taskLock' = [taskLock EXCEPT ![t] = w]
    /\ Sound(t, s.new) /\ Sound(t, s.prev) /\ s.prev.gen <= s.new.gen
    /\ Current(t).version < s.new.version /\ Current(t).gen <= s.new.gen
    /\ Takeover(w, Current(t), s.new)
    /\ \/ /\ s.next = "ok" /\ call[w].op \in Claiming /\ depLock = w
          /\ s.new.claim # None /\ s.new.claim.gen = s.new.gen
          /\ s.new.gen = Current(t).gen + 1 /\ s.new.claim.token = journal[t].n + 1
       \/ /\ ~(s.next = "ok" /\ call[w].op \in Claiming)
          /\ SameToken(Current(t), s.prev) /\ SameToken(s.new, s.prev)
    /\ depLock = w \/ (call[w].op \in Using /\ t = call[w].task /\ Holds(w, Current(t)))
    /\ \E p \in {"append", "write"} :
         /\ pc' = [pc EXCEPT ![w] = p]
         /\ p = "append" => journal' = journal
         /\ p = "write" => \E b \in BOOLEAN :
                journal' = [journal EXCEPT ![t] = [n |-> journal[t].n + 1, last |-> s.new, reopened |-> b]]
    /\ \E ts : file' = Rebuilt(ts) /\ t \in ts
    /\ UNCHANGED <<depLock, clock, alive, call, pending, granted>>

LEMMA ChangeEnters ==
    ASSUME IInv, NEW w \in Worker, Change(w)
    PROVE  \E s : Enters(w, call[w].task, s)
  <1> DEFINE t == call[w].task
             next == IF call[w].op = "complete" THEN "unblock" ELSE "ok"
  <1>a. PICK ambiguous \in BOOLEAN : \E r \in Outcomes(w, t, ambiguous) :
             Commit(w, t, r, Before(w, t), FALSE, next, "failed")
    BY DEF Change
  <1>1. PICK r \in Outcomes(w, t, ambiguous) : Commit(w, t, r, Before(w, t), FALSE, next, "failed")
    BY <1>a
  <1>2. call[w] \in CallRecord /\ pc[w] = "lock" /\ stage[w] = None /\ TypeInv /\ Records
        /\ (UsesDepLock(call[w].op) => depLock = w)
    BY DEF Change, IInv, Control, StepOf, Staging
  <1>3. /\ call[w].op # "reopen"
        /\ Sound(t, r) /\ Sound(t, Before(w, t)) /\ Before(w, t).gen <= r.gen
        /\ Current(t).version < r.version /\ Current(t).gen <= r.gen
        /\ Takeover(w, Current(t), r)
        /\ call[w].op \in Claiming => /\ r.claim # None /\ r.claim.gen = r.gen /\ r.gen = Current(t).gen + 1
                                      /\ r.claim.token = journal[t].n + 1
        /\ call[w].op \notin Claiming => Before(w, t) = Current(t) /\ SameToken(r, Current(t))
        /\ call[w].op \in Using => Holds(w, Current(t))
    BY <1>2, OutcomeShape
  <1> DEFINE s == [task |-> t, new |-> r, prev |-> Before(w, t), next |-> next, fail |-> "failed"]
  <1>4. t \in Task /\ s \in StageRecord
    BY <1>2, <1>3, SoundFields DEF CallRecord, StageRecord
  <1>5. /\ stage' = [stage EXCEPT ![w] = s] /\ taskLock[t] = None /\ taskLock' = [taskLock EXCEPT ![t] = w]
        /\ pc' = [pc EXCEPT ![w] = "write"]
        /\ \E b \in BOOLEAN : journal' = [journal EXCEPT ![t] = [n |-> journal[t].n + 1, last |-> r, reopened |-> b]]
    <2>1. journal[t].reopened \in BOOLEAN
      BY <1>2, <1>4 DEF TypeInv
    <2> QED  BY <1>1, <1>4, <2>1 DEF Change, Commit, Append
  <1>6. \E ts : file' = Rebuilt(ts) /\ t \in ts
    BY DEF Change
  <1>7. call[w].op \in Using \/ UsesDepLock(call[w].op)
    BY <1>2 DEF CallRecord, Using, UsesDepLock, Claiming
  <1>8. call[w].op \in Claiming => UsesDepLock(call[w].op) /\ next = "ok"
    BY DEF UsesDepLock, Claiming
  <1>9. UNCHANGED <<depLock, clock, alive, call, pending, granted>>
    BY DEF Change
  <1>10. call[w].op \notin Claiming => SameToken(Current(t), Before(w, t)) /\ SameToken(r, Before(w, t))
    BY <1>3 DEF SameToken
  <1>11. Enters(w, t, s)
    BY <1>2, <1>3, <1>4, <1>5, <1>6, <1>7, <1>8, <1>9, <1>10 DEF Enters
  <1> QED  BY <1>11

LEMMA UnblockEnters ==
    ASSUME IInv, NEW w \in Worker, Unblock(w)
    PROVE  \/ \E t, s : Enters(w, t, s) /\ s.next = "unblock" /\ s.fail = "failed" /\ t \in cascade[w].rest
           \/ /\ UNCHANGED <<journal, stage, taskLock>> /\ \E ts : file' = Rebuilt(ts)
              /\ pc' = pc \/ pc' = [pc EXCEPT ![w] = "ok"]
  <1>2. /\ pc[w] = "unblock" /\ cascade[w] \in CascadeRecord /\ stage[w] = None /\ TypeInv /\ Records
        /\ depLock = w /\ call[w].op = "complete"
        /\ \A u \in cascade[w].rest : u \in Task /\ Deps[u] # {}
    BY DEF Unblock, IInv, Control, StepOf, Staging, CascadeRecord, UsesDepLock
  <1>3. ASSUME NEW u \in cascade[w].rest, taskLock[u] = None, file' = Rebuilt({u} \cup Deps[u]),
               StatusOf(u) = "blocked",
               Commit(w, u, [Current(u) EXCEPT !.status = "pending", !.version = @ + 1], Current(u),
                      FALSE, "unblock", "failed")
        PROVE  \E s : Enters(w, u, s) /\ s.next = "unblock" /\ s.fail = "failed"
    <2> DEFINE r == [Current(u) EXCEPT !.status = "pending", !.version = @ + 1]
               s == [task |-> u, new |-> r, prev |-> Current(u), next |-> "unblock", fail |-> "failed"]
    <2>1. u \in Task /\ Sound(u, Current(u)) /\ Current(u).version \in Nat /\ Current(u).gen \in Nat
      BY <1>2, CurrentSound, SoundFields
    <2>2. Sound(u, r) /\ r.gen = Current(u).gen /\ r.version = Current(u).version + 1 /\ r.claim = None
      BY <2>1, <1>3, UnblockedShape DEF StatusOf
    <2> HIDE DEF r
    <2>3. s \in StageRecord
      BY <2>1, <2>2, SoundFields DEF StageRecord
    <2>4. /\ stage' = [stage EXCEPT ![w] = s] /\ taskLock' = [taskLock EXCEPT ![u] = w]
          /\ pc' = [pc EXCEPT ![w] = "write"]
          /\ \E b \in BOOLEAN : journal' = [journal EXCEPT ![u] = [n |-> journal[u].n + 1, last |-> r, reopened |-> b]]
      <3>1. journal[u].reopened \in BOOLEAN
        BY <1>2, <2>1 DEF TypeInv
      <3> QED  BY <1>3, <2>1, <3>1 DEF Commit, Append, r
    <2>5. Takeover(w, Current(u), r) /\ SameToken(Current(u), s.prev) /\ SameToken(r, s.prev)
      BY <2>2 DEF Takeover, SameToken
    <2>6. UNCHANGED <<depLock, clock, alive, call, pending, granted>>
      BY DEF Unblock
    <2>7. \E ts : file' = Rebuilt(ts) /\ u \in ts
      BY <1>3
    <2>8. s.task = u /\ s.new = r /\ s.prev = Current(u) /\ s.next = "unblock"
      OBVIOUS
    <2> HIDE DEF s
    <2>w. \E p \in {"append", "write"} :
            /\ pc' = [pc EXCEPT ![w] = p]
            /\ p = "append" => journal' = journal
            /\ p = "write" => \E b \in BOOLEAN :
                   journal' = [journal EXCEPT ![u] = [n |-> journal[u].n + 1, last |-> s.new, reopened |-> b]]
      BY <2>4, <2>8
    <2>v. Current(u).version < r.version /\ Current(u).gen <= r.gen /\ s.prev.gen <= s.new.gen
      BY <2>1, <2>2, <2>8
    <2>9. Enters(w, u, s)
      BY <1>2, <1>3, <2>1, <2>2, <2>3, <2>4, <2>5, <2>6, <2>7, <2>8, <2>v, <2>w DEF Enters
    <2> QED  BY <2>9 DEF s
  <1>4. file' = file => \E ts : file' = Rebuilt(ts)
    <2>1. file' = file => file' = Rebuilt({})
      BY <1>2 DEF Rebuilt, TypeInv
    <2> QED  BY <2>1
  <1> QED  BY <1>2, <1>3, <1>4 DEF Unblock

LEMMA ReblockEnters ==
    ASSUME IInv, NEW w \in Worker, Reblock(w)
    PROVE  \/ \E t, s : /\ Enters(w, t, s) /\ s.next = "cascade" /\ t \in cascade[w].rest
                        /\ s.fail = IF Reconciling(w) THEN "reconcile" ELSE "failed"
           \/ /\ UNCHANGED <<journal, stage, taskLock, pc>> /\ \E ts : file' = Rebuilt(ts)
  <1>2. /\ pc[w] = "cascade" /\ cascade[w] \in CascadeRecord /\ stage[w] = None /\ TypeInv /\ Records
        /\ depLock = w
        /\ \A u \in cascade[w].rest : u \in Task /\ Deps[u] # {}
    BY DEF Reblock, IInv, Control, StepOf, Staging, CascadeRecord
  <1> DEFINE fail == IF Reconciling(w) THEN "reconcile" ELSE "failed"
  <1>3. ASSUME NEW u \in cascade[w].rest, taskLock[u] = None, file' = Rebuilt({u}),
               Commit(w, u, Reblocked(u, Current(u)), Current(u), StatusOf(u) \in Terminal, "cascade", fail)
        PROVE  \E s : Enters(w, u, s) /\ s.next = "cascade" /\ s.fail = fail
    <2> DEFINE r == Reblocked(u, Current(u))
               s == [task |-> u, new |-> r, prev |-> Current(u), next |-> "cascade", fail |-> fail]
    <2>1. u \in Task /\ Sound(u, Current(u)) /\ Current(u).version \in Nat /\ Current(u).gen \in Nat
      BY <1>2, CurrentSound, SoundFields
    <2>2. Sound(u, r) /\ r.gen = Current(u).gen /\ r.version = Current(u).version + 1 /\ r.claim = None
      BY <1>2, <2>1, ReblockedShape
    <2> HIDE DEF r
    <2>3. s \in StageRecord
      BY <2>1, <2>2, SoundFields DEF StageRecord
    <2>4. /\ stage' = [stage EXCEPT ![w] = s] /\ taskLock' = [taskLock EXCEPT ![u] = w]
          /\ pc' = [pc EXCEPT ![w] = "write"]
          /\ \E b \in BOOLEAN : journal' = [journal EXCEPT ![u] = [n |-> journal[u].n + 1, last |-> r, reopened |-> b]]
      <3>1. journal[u].reopened \in BOOLEAN
        BY <1>2, <2>1 DEF TypeInv
      <3> QED  BY <1>3, <2>1, <3>1 DEF Commit, Append, r
    <2>5. Takeover(w, Current(u), r) /\ SameToken(Current(u), s.prev) /\ SameToken(r, s.prev)
      BY <2>2 DEF Takeover, SameToken
    <2>6. UNCHANGED <<depLock, clock, alive, call, pending, granted>>
      BY DEF Reblock
    <2>7. \E ts : file' = Rebuilt(ts) /\ u \in ts
      BY <1>3
    <2>8. s.task = u /\ s.new = r /\ s.prev = Current(u) /\ s.next = "cascade" /\ s.fail = fail
      OBVIOUS
    <2> HIDE DEF s
    <2>w. \E p \in {"append", "write"} :
            /\ pc' = [pc EXCEPT ![w] = p]
            /\ p = "append" => journal' = journal
            /\ p = "write" => \E b \in BOOLEAN :
                   journal' = [journal EXCEPT ![u] = [n |-> journal[u].n + 1, last |-> s.new, reopened |-> b]]
      BY <2>4, <2>8
    <2>v. Current(u).version < r.version /\ Current(u).gen <= r.gen /\ s.prev.gen <= s.new.gen
      BY <2>1, <2>2, <2>8
    <2>9. Enters(w, u, s)
      BY <1>2, <1>3, <2>1, <2>2, <2>3, <2>4, <2>5, <2>6, <2>7, <2>8, <2>v, <2>w DEF Enters
    <2> QED  BY <2>8, <2>9
  <1> QED  BY <1>2, <1>3 DEF Reblock

LEMMA RecordIntentEnters ==
    ASSUME IInv, NEW w \in Worker, RecordIntent(w)
    PROVE  \/ \E s : /\ Enters(w, call[w].task, s) /\ s.next = "cascade" /\ s.fail = "failed"
                     /\ pc' = [pc EXCEPT ![w] = "append"]
           \/ /\ UNCHANGED <<journal, stage, taskLock>> /\ \E ts : file' = Rebuilt(ts)
              /\ pc' = [pc EXCEPT ![w] = "cascade"]
  <1> DEFINE t == call[w].task
  <1>2. /\ call[w] \in CallRecord /\ t \in Task /\ call[w].op = "reopen" /\ pc[w] = "lock" /\ stage[w] = None
        /\ TypeInv /\ Records /\ depLock = w
    BY DEF RecordIntent, IInv, Control, StepOf, Staging, UsesDepLock, CallRecord
  <1>3. ASSUME stage' = [stage EXCEPT ![w] = [task |-> t, new |-> Reopened(t, Current(t)), prev |-> Current(t),
                                              next |-> "cascade", fail |-> "failed"]],
               taskLock' = [taskLock EXCEPT ![t] = w], pc' = [pc EXCEPT ![w] = "append"]
        PROVE  \E s : Enters(w, t, s) /\ s.next = "cascade" /\ s.fail = "failed"
    <2> DEFINE r == Reopened(t, Current(t))
               s == [task |-> t, new |-> r, prev |-> Current(t), next |-> "cascade", fail |-> "failed"]
    <2>1. Sound(t, Current(t)) /\ Current(t).version \in Nat /\ Current(t).gen \in Nat
      BY <1>2, CurrentSound, SoundFields
    <2>2. Sound(t, r) /\ r.gen = Current(t).gen /\ r.version = Current(t).version + 1 /\ r.claim = None
      BY <1>2, <2>1, ReopenedShape
    <2> HIDE DEF r
    <2>3. s \in StageRecord
      BY <1>2, <2>1, <2>2, SoundFields DEF StageRecord
    <2>4. stage' = [stage EXCEPT ![w] = s]
      BY <1>3 DEF r
    <2>5. Takeover(w, Current(t), r) /\ SameToken(Current(t), s.prev) /\ SameToken(r, s.prev)
      BY <2>2 DEF Takeover, SameToken
    <2>6. UNCHANGED <<journal, depLock, clock, alive, call, pending, granted>> /\ taskLock[t] = None
      BY DEF RecordIntent
    <2>7. \E ts : file' = Rebuilt(ts) /\ t \in ts
      BY <1>2 DEF RecordIntent
    <2>8. s.task = t /\ s.new = r /\ s.prev = Current(t) /\ s.next = "cascade" /\ s.fail = "failed"
      OBVIOUS
    <2> HIDE DEF s
    <2>v. Current(t).version < r.version /\ Current(t).gen <= r.gen /\ s.prev.gen <= s.new.gen
      BY <2>1, <2>2, <2>8
    <2>w. \E p \in {"append", "write"} :
            /\ pc' = [pc EXCEPT ![w] = p]
            /\ p = "append" => journal' = journal
            /\ p = "write" => \E b \in BOOLEAN :
                   journal' = [journal EXCEPT ![t] = [n |-> journal[t].n + 1, last |-> s.new, reopened |-> b]]
      BY <1>3, <2>6
    <2>9. Enters(w, t, s)
      BY <1>2, <1>3, <2>1, <2>2, <2>3, <2>4, <2>5, <2>6, <2>7, <2>8, <2>v, <2>w DEF Enters
    <2> QED  BY <2>8, <2>9
  <1> QED  BY <1>2, <1>3 DEF RecordIntent

\* The variables of the other workers' calls are their own.
Local(w) ==
    /\ \A v \in Worker \ {w} : /\ pc'[v] = pc[v] /\ call'[v] = call[v] /\ stage'[v] = stage[v]
                               /\ cascade'[v] = cascade[v] /\ pending'[v] = pending[v]
                               /\ granted'[v] = granted[v]
    /\ depLock' = depLock \/ depLock = None \/ depLock = w

LEMMA StepsAreLocal ==
    ASSUME TypeInv, NEW w \in Worker, Calls(w) \/ Step(w) \/ Kill(w) \/ WorkerDies(w)
    PROVE  Local(w)
  <1> USE DEF Local, TypeInv, store, Commit, Follow, Unlock, Visited
  <1>1. CASE Calls(w)  BY <1>1 DEF Calls, Call
  <1>2. CASE TakeDepLock(w)  BY <1>2 DEF TakeDepLock
  <1>3. CASE Reconcile(w)  BY <1>3 DEF Reconcile
  <1>4. CASE Change(w)  BY <1>4 DEF Change
  <1>5. CASE Refuse(w)  BY <1>5 DEF Refuse
  <1>6. CASE CallFails(w)  BY <1>6 DEF CallFails
  <1>7. CASE RecordIntent(w)  BY <1>7 DEF RecordIntent
  <1>8. CASE AppendReopening(w)  BY <1>8 DEF AppendReopening
  <1>9. CASE Write(w)  BY <1>9 DEF Write
  <1>10. CASE WriteFails(w)  BY <1>10 DEF WriteFails
  <1>11. CASE RevertJournal(w)  BY <1>11 DEF RevertJournal
  <1>12. CASE Rewrite(w)  BY <1>12 DEF Rewrite
  <1>13. CASE Unblock(w)  BY <1>13 DEF Unblock
  <1>14. CASE Reblock(w)  BY <1>14 DEF Reblock
  <1>15. CASE ReblockNext(w)  BY <1>15 DEF ReblockNext
  <1>16. CASE CascadeFails(w)  BY <1>16 DEF CascadeFails
  <1>17. CASE Return(w)  BY <1>17 DEF Return
  <1>18. CASE Kill(w)  BY <1>18 DEF Kill
  <1>19. CASE WorkerDies(w)  BY <1>19 DEF WorkerDies
  <1> QED
    BY <1>1, <1>2, <1>3, <1>4, <1>5, <1>6, <1>7, <1>8, <1>9, <1>10, <1>11, <1>12, <1>13, <1>14, <1>15,
       <1>16, <1>17, <1>18, <1>19 DEF Step

\* Dependents have prerequisites.
LEMMA DependentsShape ==
    ASSUME NEW t \in Task
    PROVE  Dependents(t) \in SUBSET Task /\ \A u \in Dependents(t) : Deps[u] # {}
  BY DEF Dependents

\* Every call names a task, and the calls that use a claim a token that was granted.
LEMMA CallsShape ==
    ASSUME TypeInv, Records, NEW w \in Worker, Calls(w)
    PROVE  \E op \in Claiming \cup Using \cup {"reopen"}, t \in Task, token \in Nat, expected \in Nat,
              force \in BOOLEAN :
              /\ Call(w, op, t, token, expected, force)
              /\ op \in Using => \E g \in granted[w] : g.task = t /\ g.token = token
  <1>1. \A x \in Task : Current(x).version \in Nat
    BY CurrentSound, SoundFields
  <1>2. \A g \in granted[w] : g.token \in Nat
    BY DEF TypeInv, Grant
  <1>3. CASE \E t \in Task, op \in {"claim", "reclaim", "reopen"} : Call(w, op, t, 0, 0, FALSE)
    <2>1. PICK t \in Task, op \in {"claim", "reclaim", "reopen"} : Call(w, op, t, 0, 0, FALSE)
      BY <1>3
    <2>2. op \in Claiming \cup Using \cup {"reopen"} /\ op \notin Using /\ 0 \in Nat /\ FALSE \in BOOLEAN
      BY DEF Claiming, Using
    <2> QED  BY <2>1, <2>2
  <1>4. CASE \E t \in Task : Call(w, "reclaim", t, 0, Current(t).version, TRUE)
    <2>1. PICK t \in Task : Call(w, "reclaim", t, 0, Current(t).version, TRUE)
      BY <1>4
    <2>2. "reclaim" \in Claiming \cup Using \cup {"reopen"} /\ "reclaim" \notin Using /\ 0 \in Nat /\ TRUE \in BOOLEAN
      BY DEF Claiming, Using
    <2> QED  BY <2>1, <2>2, <1>1
  <1>5. CASE \E t \in Task, g \in granted[w], op \in Using : g.task = t /\ Call(w, op, t, g.token, 0, FALSE)
    <2>1. PICK t \in Task, g \in granted[w], op \in Using : g.task = t /\ Call(w, op, t, g.token, 0, FALSE)
      BY <1>5
    <2>2. g.token \in Nat /\ 0 \in Nat /\ FALSE \in BOOLEAN
      BY <1>2
    <2> QED  BY <2>1, <2>2
  <1> QED  BY <1>3, <1>4, <1>5 DEF Calls, Using

-----------------------------------------------------------------------------
(***************************************************************************)
(* Types                                                                   *)
(***************************************************************************)
LEMMA TypeStep ==
    ASSUME IInv, [Next]_vars
    PROVE  TypeInv'
  <1> USE DEF TypeInv, store
  <1>t. TypeInv /\ Records /\ Control
    BY DEF IInv
  <1>a. ASSUME NEW w \in Worker, NEW t, NEW s, Enters(w, t, s), cascade' \in [Worker -> CascadeRecord \cup {None}],
               intents' \in SUBSET Task
        PROVE  TypeInv'
    <2>1. /\ t \in Task /\ s.new \in TaskRecord /\ s \in StageRecord
          /\ file' \in [Task -> TaskRecord \cup {None}]
      <3>1. PICK ts : file' = Rebuilt(ts) /\ t \in ts
        BY <1>a DEF Enters
      <3>2. \A u \in Task \ ts : journal'[u] = journal[u]
        BY <1>a, <1>t, <3>1 DEF Enters
      <3> QED  BY <1>a, <1>t, <3>1, <3>2, RebuiltKeeps, SoundFields DEF Enters
    <2>2. PICK p \in {"append", "write"} :
            /\ pc' = [pc EXCEPT ![w] = p]
            /\ p = "append" => journal' = journal
            /\ p = "write" => \E b \in BOOLEAN :
                   journal' = [journal EXCEPT ![t] = [n |-> journal[t].n + 1, last |-> s.new, reopened |-> b]]
      BY <1>a DEF Enters
    <2>3. journal' \in [Task -> [n : Nat, last : TaskRecord, reopened : BOOLEAN]]
      BY <1>t, <2>1, <2>2
    <2>4. pc' \in [Worker -> Pc]
      BY <1>t, <2>2 DEF Pc
    <2> QED  BY <1>a, <1>t, <2>1, <2>3, <2>4 DEF Enters
  <1>b. ASSUME NEW ts, file' = Rebuilt(ts), UNCHANGED journal
        PROVE  file' \in [Task -> TaskRecord \cup {None}]
    BY <1>b, <1>t, RebuiltKeeps
  <1>c. ASSUME NEW t \in Task, NEW r \in TaskRecord, NEW b \in BOOLEAN, Append(t, r, b)
        PROVE  journal' \in [Task -> [n : Nat, last : TaskRecord, reopened : BOOLEAN]]
    <2>1. journal' = [journal EXCEPT ![t] = [n |-> journal[t].n + 1, last |-> r, reopened |-> journal[t].reopened \/ b]]
      BY <1>c, <1>t DEF Append
    <2>2. journal[t].n + 1 \in Nat /\ (journal[t].reopened \/ b) \in BOOLEAN
      BY <1>t
    <2> QED  BY <1>c, <1>t, <2>1, <2>2
  <1>1. ASSUME NEW w \in Worker, Calls(w)  PROVE TypeInv'
    <2>1. PICK op \in Claiming \cup Using \cup {"reopen"}, t \in Task, token \in Nat, expected \in Nat, force \in BOOLEAN :
               Call(w, op, t, token, expected, force)
      BY <1>1, <1>t, CallsShape
    <2> QED  BY <2>1, <1>t DEF Call, CallRecord, Pc
  <1>2. ASSUME NEW w \in Worker, TakeDepLock(w)  PROVE TypeInv'
    BY <1>2, <1>t DEF TakeDepLock, Pc
  <1>3. ASSUME NEW w \in Worker, Reconcile(w)  PROVE TypeInv'
    <2>1. file' \in [Task -> TaskRecord \cup {None}]
      BY <1>3, <1>t, <1>b DEF Reconcile
    <2>2. ASSUME NEW i \in pending[w]
          PROVE  i \in Task /\ [root |-> i, cur |-> i, rest |-> Dependents(i), todo |-> {}] \in CascadeRecord
      BY <1>t, DependentsShape DEF CascadeRecord
    <2>3. cascade' \in [Worker -> CascadeRecord \cup {None}]
      <3>1. \/ cascade' = cascade
            \/ \E i \in pending[w] : cascade' = [cascade EXCEPT ![w] = [root |-> i, cur |-> i, rest |-> Dependents(i),
                                                                        todo |-> {}]]
        BY <1>3 DEF Reconcile
      <3> QED  BY <1>t, <2>2, <3>1
    <2>4. pc' \in [Worker -> Pc] /\ pending' \in [Worker -> SUBSET Task] /\ intents' \in SUBSET Task
      <3>1. /\ pc' \in {pc, [pc EXCEPT ![w] = "cascade"], [pc EXCEPT ![w] = "lock"]}
            /\ pending' = pending \/ \E i : pending' = [pending EXCEPT ![w] = @ \ {i}]
            /\ intents' = intents \/ \E i : intents' = intents \ {i}
        BY <1>3 DEF Reconcile
      <3>2. pc' \in [Worker -> Pc]
        BY <1>t, <3>1 DEF Pc
      <3>3. pending' \in [Worker -> SUBSET Task]
        BY <1>t, <3>1
      <3>4. intents' \in SUBSET Task
        BY <1>t, <3>1
      <3> QED  BY <3>2, <3>3, <3>4
    <2> QED  BY <1>3, <1>t, <2>1, <2>3, <2>4 DEF Reconcile
  <1>4. ASSUME NEW w \in Worker, Change(w)  PROVE TypeInv'
    <2>1. PICK s : Enters(w, call[w].task, s)
      BY <1>4, ChangeEnters
    <2>2. call[w].task \in Task
      BY <2>1 DEF Enters
    <2>3. [root |-> call[w].task, cur |-> call[w].task, rest |-> Dependents(call[w].task), todo |-> {}] \in CascadeRecord
      BY <2>2, DependentsShape DEF CascadeRecord
    <2> QED  BY <1>4, <1>t, <1>a, <2>1, <2>3 DEF Change
  <1>5. ASSUME NEW w \in Worker, Refuse(w)  PROVE TypeInv'
    <2>1. file' \in [Task -> TaskRecord \cup {None}]
      BY <1>5, <1>t, <1>b DEF Refuse
    <2> QED  BY <1>5, <1>t, <2>1 DEF Refuse, Pc
  <1>6. ASSUME NEW w \in Worker, CallFails(w)  PROVE TypeInv'
    BY <1>6, <1>t DEF CallFails, Pc
  <1>7. ASSUME NEW w \in Worker, RecordIntent(w)  PROVE TypeInv'
    <2>1. call[w].task \in Task /\ pc[w] = "lock"
      BY <1>7, <1>t DEF RecordIntent, Control, StepOf, CallRecord
    <2>2. [root |-> call[w].task, cur |-> call[w].task, rest |-> Dependents(call[w].task), todo |-> {}] \in CascadeRecord
      BY <2>1, DependentsShape DEF CascadeRecord
    <2>3. cascade' \in [Worker -> CascadeRecord \cup {None}] /\ intents' \in SUBSET Task
      BY <1>7, <1>t, <2>1, <2>2 DEF RecordIntent
    <2>4. CASE \E s : Enters(w, call[w].task, s)
      BY <2>3, <2>4, <1>a
    <2>5. CASE /\ UNCHANGED <<journal, stage, taskLock>> /\ \E ts : file' = Rebuilt(ts)
               /\ pc' = [pc EXCEPT ![w] = "cascade"]
      <3>1. file' \in [Task -> TaskRecord \cup {None}]
        BY <2>5, <1>b
      <3> QED  BY <1>7, <1>t, <2>3, <2>5, <3>1 DEF RecordIntent, Pc
    <2> QED  BY <1>7, <2>4, <2>5, RecordIntentEnters
  <1>8. ASSUME NEW w \in Worker, AppendReopening(w)  PROVE TypeInv'
    <2>1. stage[w] \in StageRecord
      BY <1>8, <1>t, NoneIsNone DEF AppendReopening, Control, StepOf, Staging
    <2>2. journal' \in [Task -> [n : Nat, last : TaskRecord, reopened : BOOLEAN]]
      BY <1>8, <2>1, <1>c DEF AppendReopening, StageRecord
    <2> QED  BY <1>8, <1>t, <2>2 DEF AppendReopening, Pc
  <1>9. ASSUME NEW w \in Worker, Write(w)  PROVE TypeInv'
    <2>1. stage[w] \in StageRecord /\ StageOf(w)
      BY <1>9, <1>t, NoneIsNone DEF Write, Control, StepOf, Staging
    <2>2. Follow(w) \in [Worker -> CascadeRecord \cup {None}]
      <3>1. CASE stage[w].next = "cascade" /\ stage[w].task # cascade[w].root
        <4>1. cascade[w] \in CascadeRecord
          BY <1>9, <2>1, <3>1, NoneIsNone, <1>t DEF StageOf
        <4>2. [cascade[w] EXCEPT !.todo = @ \cup {stage[w].task}] \in CascadeRecord
          BY <2>1, <4>1 DEF CascadeRecord, StageRecord
        <4>3. Follow(w) = [cascade EXCEPT ![w] = [cascade[w] EXCEPT !.todo = @ \cup {stage[w].task}]]
          BY <3>1 DEF Follow
        <4> QED  BY <1>t, <4>2, <4>3
      <3> QED  BY <3>1, <1>t DEF Follow
    <2> QED  BY <1>9, <1>t, <2>1, <2>2 DEF Write, Unlock, StageRecord, Pc
  <1>10. ASSUME NEW w \in Worker, WriteFails(w)  PROVE TypeInv'
    <2>1. stage[w] \in StageRecord
      BY <1>10, <1>t, NoneIsNone DEF WriteFails, Control, StepOf, Staging
    <2>2. stage[w].task \in Task /\ stage[w].new \in TaskRecord
      BY <2>1 DEF StageRecord
    <2>3. file' \in [Task -> TaskRecord \cup {None}]
      BY <1>10, <1>t, <2>2 DEF WriteFails
    <2> QED  BY <1>10, <1>t, <2>3 DEF WriteFails, Pc
  <1>11. ASSUME NEW w \in Worker, RevertJournal(w)  PROVE TypeInv'
    <2>1. stage[w] # None /\ stage[w] \in StageRecord
      BY <1>11, <1>t, NoneIsNone DEF RevertJournal, Control, StepOf, Staging
    <2>2. stage[w].task \in Task /\ Reverted(w) \in TaskRecord
      BY <1>t, <2>1, RevertedShape, SoundFields DEF StageRecord, IInv
    <2>3. journal' \in [Task -> [n : Nat, last : TaskRecord, reopened : BOOLEAN]]
      BY <1>11, <1>t, <2>2, <1>c DEF RevertJournal
    <2> QED  BY <1>11, <1>t, <2>3 DEF RevertJournal, Pc
  <1>12. ASSUME NEW w \in Worker, Rewrite(w)  PROVE TypeInv'
    <2>1. stage[w] # None /\ stage[w] \in StageRecord
      BY <1>12, <1>t, NoneIsNone DEF Rewrite, Control, StepOf, Staging
    <2>2. stage[w].task \in Task /\ Reverted(w) \in TaskRecord /\ stage[w].fail \in Pc
      BY <1>t, <2>1, RevertedShape, SoundFields DEF StageRecord, IInv, Pc
    <2>3. file' \in [Task -> TaskRecord \cup {None}]
      BY <1>12, <1>t, <2>2 DEF Rewrite
    <2>4. pending' \in [Worker -> SUBSET Task]
      BY <1>12, <1>t DEF Rewrite
    <2> QED  BY <1>12, <1>t, <2>2, <2>3, <2>4 DEF Rewrite, Unlock
  <1>v. ASSUME NEW w \in Worker, NEW u, cascade[w] \in CascadeRecord
        PROVE  Visited(w, u) \in [Worker -> CascadeRecord \cup {None}]
    <2>1. [cascade[w] EXCEPT !.rest = @ \ {u}] \in CascadeRecord
      BY <1>v DEF CascadeRecord
    <2>2. Visited(w, u) = [cascade EXCEPT ![w] = [cascade[w] EXCEPT !.rest = @ \ {u}]]
      BY DEF Visited
    <2> QED  BY <1>t, <2>1, <2>2
  <1>13. ASSUME NEW w \in Worker, Unblock(w)  PROVE TypeInv'
    <2>1. cascade[w] \in CascadeRecord
      BY <1>13, <1>t DEF Unblock, Control, StepOf
    <2>2. cascade' \in [Worker -> CascadeRecord \cup {None}] /\ intents' = intents
      <3>1. cascade' = cascade \/ \E u : cascade' = Visited(w, u)
        BY <1>13 DEF Unblock
      <3>2. intents' = intents
        BY <1>13 DEF Unblock
      <3> QED  BY <1>t, <1>v, <2>1, <3>1, <3>2
    <2>3. CASE \E t, s : Enters(w, t, s)
      BY <2>3, <2>2, <1>t, <1>a
    <2>4. CASE /\ UNCHANGED <<journal, stage, taskLock>> /\ \E ts : file' = Rebuilt(ts)
               /\ pc' = pc \/ pc' = [pc EXCEPT ![w] = "ok"]
      <3>1. file' \in [Task -> TaskRecord \cup {None}]
        BY <2>4, <1>b
      <3> QED  BY <1>13, <1>t, <2>2, <2>4, <3>1 DEF Unblock, Pc
    <2> QED  BY <1>13, <2>3, <2>4, UnblockEnters
  <1>14. ASSUME NEW w \in Worker, Reblock(w)  PROVE TypeInv'
    <2>1. cascade[w] \in CascadeRecord
      BY <1>14, <1>t DEF Reblock, Control, StepOf
    <2>2. cascade' \in [Worker -> CascadeRecord \cup {None}] /\ intents' = intents
      BY <1>14, <1>t, <1>v, <2>1 DEF Reblock
    <2>3. CASE \E t, s : Enters(w, t, s)
      BY <2>3, <2>2, <1>t, <1>a
    <2>4. CASE UNCHANGED <<journal, stage, taskLock, pc>> /\ \E ts : file' = Rebuilt(ts)
      <3>1. file' \in [Task -> TaskRecord \cup {None}]
        BY <2>4, <1>b
      <3> QED  BY <1>14, <1>t, <2>2, <2>4, <3>1 DEF Reblock
    <2> QED  BY <1>14, <2>3, <2>4, ReblockEnters
  <1>15. ASSUME NEW w \in Worker, ReblockNext(w)  PROVE TypeInv'
    <2>1. cascade[w] \in CascadeRecord
      BY <1>15, <1>t DEF ReblockNext, Control, StepOf
    <2>2. ASSUME NEW u \in cascade[w].todo
          PROVE  [cascade EXCEPT ![w].todo = @ \ {u}, ![w].cur = u, ![w].rest = Dependents(u)]
                   \in [Worker -> CascadeRecord \cup {None}]
      <3>1. u \in Task /\ Dependents(u) \in SUBSET Task
        BY <2>1, DependentsShape DEF CascadeRecord
      <3>2. [cascade[w] EXCEPT !.todo = @ \ {u}, !.cur = u, !.rest = Dependents(u)] \in CascadeRecord
        BY <2>1, <3>1 DEF CascadeRecord
      <3>3. [cascade EXCEPT ![w].todo = @ \ {u}, ![w].cur = u, ![w].rest = Dependents(u)]
              = [cascade EXCEPT ![w] = [cascade[w] EXCEPT !.todo = @ \ {u}, !.cur = u, !.rest = Dependents(u)]]
        BY <1>t
      <3> QED  BY <1>t, <3>2, <3>3
    <2>3. cascade' \in [Worker -> CascadeRecord \cup {None}]
      <3>1. \/ cascade' = cascade
            \/ \E u \in cascade[w].todo :
                  cascade' = [cascade EXCEPT ![w].todo = @ \ {u}, ![w].cur = u, ![w].rest = Dependents(u)]
        BY <1>15 DEF ReblockNext
      <3>2. ASSUME NEW u \in cascade[w].todo,
                   cascade' = [cascade EXCEPT ![w].todo = @ \ {u}, ![w].cur = u, ![w].rest = Dependents(u)]
            PROVE  cascade' \in [Worker -> CascadeRecord \cup {None}]
        BY <2>2, <3>2
      <3> QED  BY <1>t, <3>1, <3>2
    <2>4. pc' \in [Worker -> Pc] /\ pending' \in [Worker -> SUBSET Task] /\ intents' \in SUBSET Task
      <3>1. \/ UNCHANGED <<intents, pc, pending>>
            \/ /\ intents' = intents \ {cascade[w].root}
               /\ pending' = [pending EXCEPT ![w] = @ \ {cascade[w].root}]
               /\ pc' = [pc EXCEPT ![w] = IF Reconciling(w) THEN "reconcile" ELSE "ok"]
        BY <1>15 DEF ReblockNext
      <3> QED  BY <1>t, <3>1 DEF Pc
    <2> QED  BY <1>15, <1>t, <2>3, <2>4 DEF ReblockNext
  <1>16. ASSUME NEW w \in Worker, CascadeFails(w)  PROVE TypeInv'
    BY <1>16, <1>t DEF CascadeFails, Pc
  <1>17. ASSUME NEW w \in Worker, Return(w)  PROVE TypeInv'
    <2>1. CASE pc[w] = "ok" /\ call[w].op \in {"claim", "reclaim"}
      <3>1. call[w].task \in Task /\ New(call[w].task, file[call[w].task]) /\ file[call[w].task] # None
        BY <1>t, <2>1 DEF IInv, Grants, Claiming, Control, StepOf, CallRecord
      <3>2. LET r == Current(call[w].task) IN r.claim # None /\ r.claim.token \in Nat /\ r.claim.gen \in Nat
        BY <1>t, <3>1, CurrentSound, SoundFields DEF New, Current
      <3>3. granted' \in [Worker -> SUBSET Grant]
        BY <1>17, <1>t, <2>1, <3>1, <3>2 DEF Return, Grant
      <3> QED  BY <1>17, <1>t, <3>3 DEF Return, Pc
    <2>2. CASE ~(pc[w] = "ok" /\ call[w].op \in {"claim", "reclaim"})
      BY <1>17, <1>t, <2>2 DEF Return, Pc
    <2> QED  BY <2>1, <2>2
  <1>18. ASSUME NEW w \in Worker, Kill(w)  PROVE TypeInv'
    BY <1>18, <1>t DEF Kill, Pc
  <1>19. ASSUME NEW w \in Worker, WorkerDies(w)  PROVE TypeInv'
    BY <1>19, <1>t DEF WorkerDies
  <1>20. CASE Tick
    BY <1>20, <1>t, TaskAssumption DEF Tick
  <1>21. CASE UNCHANGED vars
    BY <1>21, <1>t DEF vars
  <1> QED
    BY <1>1, <1>2, <1>3, <1>4, <1>5, <1>6, <1>7, <1>8, <1>9, <1>10, <1>11, <1>12, <1>13, <1>14, <1>15,
       <1>16, <1>17, <1>18, <1>19, <1>20, <1>21 DEF Next, Step

-----------------------------------------------------------------------------
(***************************************************************************)
(* Control                                                                 *)
(***************************************************************************)
LEMMA ControlOfOthers ==
    ASSUME Control, NEW w \in Worker, Local(w), NEW v \in Worker \ {w}
    PROVE  StepOf(v)' /\ StageOf(v)'
  <1>1. StepOf(v) /\ StageOf(v)
    BY DEF Control
  <1>2. /\ pc'[v] = pc[v] /\ call'[v] = call[v] /\ stage'[v] = stage[v] /\ cascade'[v] = cascade[v]
        /\ pending'[v] = pending[v] /\ granted'[v] = granted[v] /\ (depLock = v => depLock' = v \/ None = v)
    BY DEF Local
  <1>3. depLock = v => depLock' = v
    BY TaskAssumption DEF Local
  <1> QED  BY <1>1, <1>2, <1>3 DEF StepOf, StageOf, Reconciling

\* A cascade from t visits tasks that have prerequisites.
LEMMA CascadeShape ==
    ASSUME NEW t \in Task, NEW cur \in Task
    PROVE  LET c == [root |-> t, cur |-> cur, rest |-> Dependents(cur), todo |-> {}]
           IN  c \in CascadeRecord /\ \A u \in c.rest : Deps[u] # {}
  BY DependentsShape DEF CascadeRecord

LEMMA ControlStep ==
    ASSUME IInv, [Next]_vars
    PROVE  Control'
  <1> USE DEF Staging, Claiming, Using, UsesDepLock
  <1>t. TypeInv /\ TypeInv' /\ Control /\ Records
    BY TypeStep DEF IInv
  <1>o. ASSUME NEW w \in Worker, Calls(w) \/ Step(w) \/ Kill(w) \/ WorkerDies(w), StepOf(w)' /\ StageOf(w)'
        PROVE  Control'
    BY <1>o, <1>t, StepsAreLocal, ControlOfOthers DEF Control
  <1>p. ASSUME NEW w \in Worker
        PROVE  /\ StepOf(w) /\ StageOf(w)
               /\ stage[w] # None => stage[w] \in StageRecord
    BY <1>t, NoneIsNone DEF Control
  <1>v. ASSUME NEW w \in Worker, NEW u, cascade[w] \in CascadeRecord, \A x \in cascade[w].rest : Deps[x] # {},
               cascade' = Visited(w, u)
        PROVE  /\ cascade'[w] \in CascadeRecord /\ cascade'[w].root = cascade[w].root
               /\ \A x \in cascade'[w].rest : Deps[x] # {}
    <2>1. cascade'[w] = [cascade[w] EXCEPT !.rest = @ \ {u}]
      BY <1>v, <1>t DEF Visited, TypeInv
    <2> QED  BY <1>v, <2>1 DEF CascadeRecord
  <1>1. ASSUME NEW w \in Worker, Calls(w)  PROVE StepOf(w)' /\ StageOf(w)'
    <2>1. PICK op \in Claiming \cup Using \cup {"reopen"}, t \in Task, token \in Nat, expected \in Nat, force \in BOOLEAN :
               /\ Call(w, op, t, token, expected, force)
               /\ op \in Using => \E g \in granted[w] : g.task = t /\ g.token = token
      BY <1>1, <1>t, CallsShape
    <2>2. /\ pc'[w] \in {"dep", "lock"} /\ (pc'[w] = "dep" <=> UsesDepLock(op))
          /\ call'[w] = [op |-> op, task |-> t, token |-> token, expected |-> expected, force |-> force]
          /\ stage'[w] = stage[w] /\ granted' = granted /\ pc[w] = "idle"
      BY <2>1, <1>t DEF Call, TypeInv
    <2>3. call'[w] \in CallRecord
      BY <2>1, <2>2 DEF CallRecord
    <2>4. stage'[w] = None
      BY <2>2, <1>p DEF StepOf
    <2> QED  BY <2>1, <2>2, <2>3, <2>4 DEF StepOf, StageOf
  <1>2. ASSUME NEW w \in Worker, TakeDepLock(w)  PROVE StepOf(w)' /\ StageOf(w)'
    <2>1. stage[w] = None /\ call[w] \in CallRecord
      BY <1>2, <1>p DEF TakeDepLock, StepOf
    <2>2. pc[w] = "dep" /\ pc'[w] = "reconcile" /\ depLock' = w /\ UNCHANGED <<call, stage, cascade, granted>>
      BY <1>2, <1>t DEF TakeDepLock, TypeInv
    <2>3. UsesDepLock(call[w].op)
      BY <2>2, <1>p DEF StepOf
    <2> QED  BY <2>1, <2>2, <2>3, <1>p DEF StepOf, StageOf
  <1>3. ASSUME NEW w \in Worker, Reconcile(w)  PROVE StepOf(w)' /\ StageOf(w)'
    <2>1. /\ stage[w] = None /\ call[w] \in CallRecord /\ pc[w] = "reconcile" /\ depLock = w
          /\ UsesDepLock(call[w].op) /\ UNCHANGED <<call, stage, granted, depLock>>
      BY <1>3, <1>p DEF Reconcile, StepOf
    <2>2. \/ /\ pc'[w] = "cascade" /\ pending' = pending
             /\ \E i \in pending[w] : cascade'[w] = [root |-> i, cur |-> i, rest |-> Dependents(i), todo |-> {}]
          \/ pc'[w] \in {"reconcile", "lock"}
      <3>1. \/ \E i \in pending[w] :
                 /\ cascade' = [cascade EXCEPT ![w] = [root |-> i, cur |-> i, rest |-> Dependents(i), todo |-> {}]]
                 /\ pc' = [pc EXCEPT ![w] = "cascade"] /\ pending' = pending
            \/ pc' = pc
            \/ pc' = [pc EXCEPT ![w] = "lock"]
        BY <1>3 DEF Reconcile
      <3> QED  BY <3>1, <2>1, <1>t DEF TypeInv
    <2>3. CASE pc'[w] \in {"reconcile", "lock"}
      BY <2>1, <2>3, <1>p DEF StepOf, StageOf
    <2>4. CASE /\ pc'[w] = "cascade" /\ pending' = pending
               /\ \E i \in pending[w] : cascade'[w] = [root |-> i, cur |-> i, rest |-> Dependents(i), todo |-> {}]
      <3>1. PICK i \in pending[w] : cascade'[w] = [root |-> i, cur |-> i, rest |-> Dependents(i), todo |-> {}]
        BY <2>4
      <3>2. i \in Task
        BY <1>t DEF TypeInv
      <3>3. cascade'[w] \in CascadeRecord /\ (\A u \in cascade'[w].rest : Deps[u] # {}) /\ cascade'[w].root = i
        BY <3>1, <3>2, CascadeShape
      <3> QED  BY <2>1, <2>4, <3>3, <1>p DEF StepOf, StageOf, Reconciling
    <2> QED  BY <2>2, <2>3, <2>4
  <1>e. ASSUME NEW w \in Worker, NEW t, NEW s, Enters(w, t, s)
        PROVE  /\ stage'[w] = s /\ s # None /\ stage[w] = None /\ UNCHANGED <<call, granted, pending, depLock>>
               /\ s.task = t /\ s \in StageRecord
               /\ pc'[w] \in {"append", "write"}
    BY <1>e, <1>t, NoneIsNone DEF Enters, TypeInv
  <1>4. ASSUME NEW w \in Worker, Change(w)  PROVE StepOf(w)' /\ StageOf(w)'
    <2>1. PICK s : Enters(w, call[w].task, s)
      BY <1>4, ChangeEnters
    <2>2. /\ pc[w] = "lock" /\ pc'[w] = "write" /\ stage'[w].task = call[w].task
          /\ stage'[w].next = (IF call[w].op = "complete" THEN "unblock" ELSE "ok") /\ stage'[w].fail = "failed"
      BY <1>4, <1>t DEF Change, Commit, TypeInv
    <2>3. call[w] \in CallRecord /\ call[w].task \in Task
      BY <1>p, <2>2 DEF StepOf, CallRecord
    <2>4. call[w].op # "reopen"
      BY <1>4 DEF Change, Outcomes
    <2>5. call[w].op = "complete" => /\ cascade'[w] \in CascadeRecord
                                     /\ \A u \in cascade'[w].rest : Deps[u] # {}
      <3>1. call[w].op = "complete" =>
              cascade'[w] = [root |-> call[w].task, cur |-> call[w].task, rest |-> Dependents(call[w].task), todo |-> {}]
        BY <1>4, <1>t DEF Change, TypeInv
      <3> QED  BY <2>3, <3>1, CascadeShape
    <2> QED  BY <1>e, <1>p, <2>1, <2>2, <2>3, <2>4, <2>5 DEF StepOf, StageOf
  <1>5. ASSUME NEW w \in Worker, Refuse(w)  PROVE StepOf(w)' /\ StageOf(w)'
    <2>1. pc[w] = "lock" /\ pc'[w] = "failed" /\ UNCHANGED <<call, stage, granted>>
      BY <1>5, <1>t DEF Refuse, TypeInv
    <2> QED  BY <2>1, <1>p DEF StepOf, StageOf
  <1>6. ASSUME NEW w \in Worker, CallFails(w)  PROVE StepOf(w)' /\ StageOf(w)'
    <2>1. pc[w] # "idle" /\ pc'[w] = "failed" /\ stage'[w] = None /\ UNCHANGED <<call, granted>>
      BY <1>6, <1>t DEF CallFails, TypeInv
    <2> QED  BY <2>1, <1>p DEF StepOf, StageOf
  <1>7. ASSUME NEW w \in Worker, RecordIntent(w)  PROVE StepOf(w)' /\ StageOf(w)'
    <2>1. /\ pc[w] = "lock" /\ call[w] \in CallRecord /\ call[w].task \in Task /\ call[w].op = "reopen" /\ depLock = w
          /\ stage[w] = None /\ UNCHANGED <<call, granted, depLock, pending>>
      BY <1>7, <1>p DEF RecordIntent, StepOf, CallRecord
    <2>2. cascade'[w] \in CascadeRecord /\ \A u \in cascade'[w].rest : Deps[u] # {}
      <3>1. cascade'[w] = [root |-> call[w].task, cur |-> call[w].task, rest |-> Dependents(call[w].task), todo |-> {}]
        BY <1>7, <1>t DEF RecordIntent, TypeInv
      <3> QED  BY <2>1, <3>1, CascadeShape
    <2>3. CASE \E s : /\ Enters(w, call[w].task, s) /\ s.next = "cascade" /\ s.fail = "failed"
                      /\ pc' = [pc EXCEPT ![w] = "append"]
      BY <1>e, <1>p, <2>1, <2>2, <2>3 DEF StepOf, StageOf
    <2>4. CASE UNCHANGED stage /\ pc' = [pc EXCEPT ![w] = "cascade"]
      <3>1. pc'[w] = "cascade"
        BY <2>4, <1>t DEF TypeInv
      <3> QED  BY <2>1, <2>2, <2>4, <3>1, <1>p DEF StepOf, StageOf
    <2> QED  BY <1>7, <2>3, <2>4, RecordIntentEnters
  <1>8. ASSUME NEW w \in Worker, AppendReopening(w)  PROVE StepOf(w)' /\ StageOf(w)'
    <2>1. pc[w] = "append" /\ pc'[w] = "write" /\ UNCHANGED <<call, stage, cascade, pending, granted, depLock>>
      BY <1>8, <1>t DEF AppendReopening, TypeInv
    <2> QED  BY <2>1, <1>p DEF StepOf, StageOf, Reconciling
  <1>9. ASSUME NEW w \in Worker, Write(w)  PROVE StepOf(w)' /\ StageOf(w)'
    <2>1. /\ pc[w] = "write" /\ pc'[w] = stage[w].next /\ stage'[w] = None /\ cascade' = Follow(w)
          /\ stage[w] # None /\ stage[w] \in StageRecord
          /\ UNCHANGED <<call, pending, granted, depLock>>
      BY <1>9, <1>t, <1>p DEF Write, Unlock, TypeInv, StepOf
    <2>2. stage[w].next \in {"ok", "unblock", "cascade"}
      BY <2>1 DEF StageRecord
    <2>3. stage[w].next # "ok" => /\ cascade'[w] \in CascadeRecord /\ cascade'[w].root = cascade[w].root
                                  /\ \A u \in cascade'[w].rest : Deps[u] # {}
      <3>1. stage[w].next # "ok" => cascade[w] \in CascadeRecord /\ \A u \in cascade[w].rest : Deps[u] # {}
        BY <1>p, <2>1 DEF StageOf
      <3>2. cascade'[w] \in {cascade[w], [cascade[w] EXCEPT !.todo = @ \cup {stage[w].task}]}
        BY <2>1, <1>t DEF Follow, TypeInv
      <3>3. cascade[w] \in CascadeRecord =>
              LET c == [cascade[w] EXCEPT !.todo = @ \cup {stage[w].task}]
              IN  c \in CascadeRecord /\ c.root = cascade[w].root /\ c.rest = cascade[w].rest
        BY <2>1 DEF CascadeRecord, StageRecord
      <3> QED  BY <3>1, <3>2, <3>3
    <2> QED  BY <2>1, <2>2, <2>3, <1>p DEF StepOf, StageOf, Reconciling
  <1>10. ASSUME NEW w \in Worker, WriteFails(w)  PROVE StepOf(w)' /\ StageOf(w)'
    <2>1. pc[w] = "write" /\ pc'[w] = "revert" /\ UNCHANGED <<call, stage, cascade, pending, granted, depLock>>
      BY <1>10, <1>t DEF WriteFails, TypeInv
    <2> QED  BY <2>1, <1>p DEF StepOf, StageOf, Reconciling
  <1>11. ASSUME NEW w \in Worker, RevertJournal(w)  PROVE StepOf(w)' /\ StageOf(w)'
    <2>1. pc[w] = "revert" /\ pc'[w] = "rewrite" /\ UNCHANGED <<call, stage, cascade, pending, granted, depLock>>
      BY <1>11, <1>t DEF RevertJournal, TypeInv
    <2> QED  BY <2>1, <1>p DEF StepOf, StageOf, Reconciling
  <1>12. ASSUME NEW w \in Worker, Rewrite(w)  PROVE StepOf(w)' /\ StageOf(w)'
    <2>1. /\ pc[w] = "rewrite" /\ pc'[w] = stage[w].fail /\ stage'[w] = None
          /\ stage[w] # None /\ stage[w] \in StageRecord /\ UNCHANGED <<call, granted, depLock>>
      BY <1>12, <1>t, <1>p DEF Rewrite, Unlock, TypeInv, StepOf
    <2>2. stage[w].fail \in {"failed", "reconcile"}
      BY <2>1 DEF StageRecord
    <2> QED  BY <2>1, <2>2, <1>p DEF StepOf, StageOf
  <1>13. ASSUME NEW w \in Worker, Unblock(w)  PROVE StepOf(w)' /\ StageOf(w)'
    <2>1. /\ pc[w] = "unblock" /\ call[w] \in CallRecord /\ call[w].op = "complete" /\ depLock = w
          /\ stage[w] = None /\ UNCHANGED <<call, granted, depLock, pending>>
          /\ cascade[w] \in CascadeRecord /\ \A u \in cascade[w].rest : Deps[u] # {}
      BY <1>13, <1>p DEF Unblock, StepOf
    <2>2. cascade'[w] \in CascadeRecord /\ \A u \in cascade'[w].rest : Deps[u] # {}
      <3>1. cascade' = cascade \/ \E u : cascade' = Visited(w, u)
        BY <1>13 DEF Unblock
      <3> QED  BY <1>v, <2>1, <3>1
    <2>3. CASE \E t, s : Enters(w, t, s) /\ s.next = "unblock" /\ s.fail = "failed" /\ t \in cascade[w].rest
      <3>1. PICK t, s : Enters(w, t, s) /\ s.next = "unblock" /\ s.fail = "failed"
        BY <2>3
      <3>2. pc'[w] = "write" \/ pc'[w] = "append"
        BY <1>e, <3>1
      <3>3. pc'[w] # "append"
        BY <1>13, <2>1, <1>t DEF Unblock, Commit, TypeInv
      <3> QED  BY <1>e, <1>p, <2>1, <2>2, <3>1, <3>2, <3>3 DEF StepOf, StageOf
    <2>4. CASE UNCHANGED stage /\ (pc' = pc \/ pc' = [pc EXCEPT ![w] = "ok"])
      <3>1. pc'[w] \in {"unblock", "ok"}
        BY <2>1, <2>4, <1>t DEF TypeInv
      <3> QED  BY <2>1, <2>2, <2>4, <3>1, <1>p DEF StepOf, StageOf
    <2> QED  BY <1>13, <2>3, <2>4, UnblockEnters
  <1>14. ASSUME NEW w \in Worker, Reblock(w)  PROVE StepOf(w)' /\ StageOf(w)'
    <2>1. /\ pc[w] = "cascade" /\ call[w] \in CallRecord /\ UsesDepLock(call[w].op) /\ depLock = w
          /\ stage[w] = None /\ UNCHANGED <<call, granted, depLock, pending>>
          /\ cascade[w] \in CascadeRecord /\ (\A u \in cascade[w].rest : Deps[u] # {})
          /\ (call[w].op = "reopen" \/ Reconciling(w))
      BY <1>14, <1>p DEF Reblock, StepOf
    <2>2. /\ cascade'[w] \in CascadeRecord /\ cascade'[w].root = cascade[w].root
          /\ \A u \in cascade'[w].rest : Deps[u] # {}
      <3>1. \E u : cascade' = Visited(w, u)
        BY <1>14 DEF Reblock
      <3> QED  BY <1>v, <2>1, <3>1
    <2>r. Reconciling(w)' <=> Reconciling(w)
      BY <2>1, <2>2 DEF Reconciling
    <2>3. CASE \E t, s : /\ Enters(w, t, s) /\ s.next = "cascade" /\ t \in cascade[w].rest
                         /\ s.fail = IF Reconciling(w) THEN "reconcile" ELSE "failed"
      <3>1. PICK t, s : /\ Enters(w, t, s) /\ s.next = "cascade"
                        /\ s.fail = IF Reconciling(w) THEN "reconcile" ELSE "failed"
        BY <2>3
      <3>2. pc'[w] = "write" \/ pc'[w] = "append"
        BY <1>e, <3>1
      <3>3. pc'[w] # "append"
        BY <1>14, <2>1, <1>t DEF Reblock, Commit, TypeInv
      <3> QED  BY <1>e, <1>p, <2>1, <2>2, <2>r, <3>1, <3>2, <3>3 DEF StepOf, StageOf
    <2>4. CASE UNCHANGED <<stage, pc>>
      BY <2>1, <2>2, <2>r, <2>4, <1>p DEF StepOf, StageOf
    <2> QED  BY <1>14, <2>3, <2>4, ReblockEnters
  <1>15. ASSUME NEW w \in Worker, ReblockNext(w)  PROVE StepOf(w)' /\ StageOf(w)'
    <2>1. /\ pc[w] = "cascade" /\ call[w] \in CallRecord /\ UsesDepLock(call[w].op) /\ depLock = w
          /\ stage[w] = None /\ UNCHANGED <<call, granted, depLock, stage>>
          /\ cascade[w] \in CascadeRecord /\ (call[w].op = "reopen" \/ Reconciling(w))
      BY <1>15, <1>p DEF ReblockNext, StepOf
    <2>2. CASE \E u \in cascade[w].todo :
                 /\ cascade' = [cascade EXCEPT ![w].todo = @ \ {u}, ![w].cur = u, ![w].rest = Dependents(u)]
                 /\ UNCHANGED <<pc, pending>>
      <3>1. PICK u \in cascade[w].todo :
              cascade' = [cascade EXCEPT ![w].todo = @ \ {u}, ![w].cur = u, ![w].rest = Dependents(u)]
        BY <2>2
      <3>2. u \in Task
        BY <2>1 DEF CascadeRecord
      <3>3. cascade'[w] = [cascade[w] EXCEPT !.todo = @ \ {u}, !.cur = u, !.rest = Dependents(u)]
        BY <3>1, <1>t DEF TypeInv
      <3>4. /\ cascade'[w] \in CascadeRecord /\ cascade'[w].root = cascade[w].root
            /\ \A x \in cascade'[w].rest : Deps[x] # {}
        <4>1. Dependents(u) \in SUBSET Task /\ \A x \in Dependents(u) : Deps[x] # {}
          BY <3>2, DependentsShape
        <4> DEFINE rest == Dependents(u)
        <4> HIDE DEF rest
        <4>2. cascade'[w] = [root |-> cascade[w].root, cur |-> u, rest |-> rest,
                             todo |-> cascade[w].todo \ {u}]
          BY <2>1, <3>3 DEF CascadeRecord, rest
        <4> QED  BY <2>1, <3>2, <4>1, <4>2 DEF CascadeRecord, rest
      <3> QED  BY <2>1, <2>2, <3>4, <1>p DEF StepOf, StageOf, Reconciling
    <2>3. CASE pc' = [pc EXCEPT ![w] = IF Reconciling(w) THEN "reconcile" ELSE "ok"]
      <3>1. pc'[w] = IF Reconciling(w) THEN "reconcile" ELSE "ok"
        BY <2>3, <1>t DEF TypeInv
      <3> QED  BY <2>1, <3>1, <1>p DEF StepOf, StageOf
    <2> QED  BY <1>15, <2>2, <2>3 DEF ReblockNext
  <1>16. ASSUME NEW w \in Worker, CascadeFails(w)  PROVE StepOf(w)' /\ StageOf(w)'
    <2>1. /\ pc[w] \in {"cascade", "unblock"} /\ UNCHANGED <<call, granted, depLock, stage>>
          /\ pc'[w] \in {"reconcile", "failed"}
      BY <1>16, <1>t DEF CascadeFails, TypeInv
    <2> QED  BY <2>1, <1>p DEF StepOf, StageOf
  <1>17. ASSUME NEW w \in Worker, Return(w)  PROVE StepOf(w)' /\ StageOf(w)'
    <2>1. pc[w] \in {"ok", "failed"} /\ UNCHANGED stage /\ pc'[w] = "idle"
      BY <1>17, <1>t DEF Return, TypeInv
    <2> QED  BY <2>1, <1>p DEF StepOf, StageOf
  <1>18. ASSUME NEW w \in Worker, Kill(w)  PROVE StepOf(w)' /\ StageOf(w)'
    <2>1. stage'[w] = None /\ pc'[w] = "idle"
      BY <1>18, <1>t DEF Kill, TypeInv
    <2> QED  BY <2>1 DEF StepOf, StageOf
  <1>19. ASSUME NEW w \in Worker, WorkerDies(w)  PROVE StepOf(w)' /\ StageOf(w)'
    BY <1>19, <1>p DEF WorkerDies, StepOf, StageOf, Reconciling
  <1>20. CASE Tick \/ UNCHANGED vars
    BY <1>20, <1>t DEF Tick, vars, Control, StepOf, StageOf, Reconciling
  <1> QED
    BY <1>o, <1>1, <1>2, <1>3, <1>4, <1>5, <1>6, <1>7, <1>8, <1>9, <1>10, <1>11, <1>12, <1>13, <1>14, <1>15,
       <1>16, <1>17, <1>18, <1>19, <1>20 DEF Next, Step

-----------------------------------------------------------------------------
(***************************************************************************)
(* Records and commits                                                     *)
(***************************************************************************)
\* Steps that leave journal, staged records and what is read of the tasks alone.
Quiet ==
    /\ journal' = journal /\ \E ts : file' = Rebuilt(ts)
    /\ \A v \in Worker : stage'[v] # None => /\ stage'[v] = stage[v] /\ pc'[v] = pc[v] /\ call'[v] = call[v]
                                             /\ taskLock'[stage[v].task] = taskLock[stage[v].task]
    /\ clock' >= clock /\ \A v \in Worker : alive'[v] => alive[v]

LEMMA StepKinds ==
    ASSUME IInv, [Next]_vars
    PROVE  \/ Quiet
           \/ \E w \in Worker : \/ \E t, s : Enters(w, t, s)
                                \/ AppendReopening(w) \/ Write(w) \/ WriteFails(w) \/ RevertJournal(w) \/ Rewrite(w)
  <1>t. TypeInv /\ Control /\ Commits
    BY DEF IInv
  <1>0. file' = file => \E ts : file' = Rebuilt(ts)
    <2>1. file' = file => file' = Rebuilt({})
      BY <1>t DEF Rebuilt, TypeInv
    <2> QED  BY <2>1
  <1>l. clock \in Nat
    BY <1>t, TaskAssumption DEF TypeInv
  <1>q. ASSUME NEW w \in Worker, stage[w] = None \/ stage'[w] = None, UNCHANGED <<journal, clock>>,
               \E ts : file' = Rebuilt(ts), Local(w), \A v \in Worker : alive'[v] => alive[v],
               \A u \in Task : taskLock'[u] = taskLock[u] \/ taskLock[u] = w,
               stage' = stage \/ stage' = [stage EXCEPT ![w] = None]
        PROVE  Quiet
    <2>1. ASSUME NEW v \in Worker, stage'[v] # None
          PROVE  /\ stage'[v] = stage[v] /\ pc'[v] = pc[v] /\ call'[v] = call[v]
                 /\ taskLock'[stage[v].task] = taskLock[stage[v].task]
      <3>1. v # w /\ stage'[v] = stage[v]
        BY <1>q, <1>t, <2>1 DEF TypeInv
      <3>2. stage[v].task \in Task /\ taskLock[stage[v].task] = v
        BY <1>t, <2>1, <3>1, NoneIsNone DEF Commits, CommitOf, StageRecord
      <3> QED  BY <1>q, <3>1, <3>2 DEF Local
    <2> QED  BY <1>q, <1>l, <2>1 DEF Quiet
  <1>s. ASSUME NEW w \in Worker, pc[w] \notin Staging
        PROVE  stage[w] = None
    BY <1>s, <1>t DEF Control, StepOf
  <1>1. ASSUME NEW w \in Worker, Calls(w)  PROVE Quiet
    <2>1. /\ pc[w] = "idle" /\ UNCHANGED <<file, journal, clock, taskLock, stage, alive>>
      BY <1>1 DEF Calls, Call, store
    <2> QED  BY <1>1, <1>0, <1>q, <1>s, <1>t, <2>1, StepsAreLocal DEF Staging
  <1>2. ASSUME NEW w \in Worker, TakeDepLock(w)  PROVE Quiet
    <2>1. /\ pc[w] = "dep" /\ UNCHANGED <<file, journal, clock, taskLock, stage, alive>>
      BY <1>2 DEF TakeDepLock, store
    <2> QED  BY <1>2, <1>0, <1>q, <1>s, <1>t, <2>1, StepsAreLocal DEF Staging, Step
  <1>3. ASSUME NEW w \in Worker, Reconcile(w)  PROVE Quiet
    <2>1. /\ pc[w] = "reconcile" /\ UNCHANGED <<journal, clock, taskLock, stage, alive>>
          /\ (file' = file \/ \E ts : file' = Rebuilt(ts))
      BY <1>3 DEF Reconcile
    <2> QED  BY <1>3, <1>0, <1>q, <1>s, <1>t, <2>1, StepsAreLocal DEF Staging, Step
  <1>5. ASSUME NEW w \in Worker, Refuse(w)  PROVE Quiet
    <2>1. /\ pc[w] = "lock" /\ UNCHANGED <<journal, clock, taskLock, stage, alive>> /\ \E ts : file' = Rebuilt(ts)
      BY <1>5 DEF Refuse
    <2> QED  BY <1>5, <1>q, <1>s, <1>t, <2>1, StepsAreLocal DEF Staging, Step
  <1>6. ASSUME NEW w \in Worker, CallFails(w)  PROVE Quiet
    <2>1. /\ UNCHANGED <<file, journal, clock, alive>> /\ stage' = [stage EXCEPT ![w] = None]
          /\ \A u \in Task : taskLock'[u] = taskLock[u] \/ taskLock[u] = w
          /\ stage'[w] = None
      BY <1>6, <1>t DEF CallFails, store, TypeInv
    <2> QED  BY <1>6, <1>0, <1>q, <1>t, <2>1, StepsAreLocal DEF Step
  <1>7. ASSUME NEW w \in Worker, RecordIntent(w)  PROVE Quiet \/ \E t, s : Enters(w, t, s)
    <2>1. /\ pc[w] = "lock" /\ UNCHANGED <<journal, clock, alive>>
      BY <1>7 DEF RecordIntent
    <2>2. CASE UNCHANGED <<journal, stage, taskLock>> /\ \E ts : file' = Rebuilt(ts)
      BY <1>7, <1>q, <1>s, <1>t, <2>1, <2>2, StepsAreLocal DEF Staging, Step
    <2> QED  BY <1>7, <2>2, RecordIntentEnters
  <1>13. ASSUME NEW w \in Worker, Unblock(w)  PROVE Quiet \/ \E t, s : Enters(w, t, s)
    <2>1. /\ pc[w] = "unblock" /\ UNCHANGED <<clock, alive>>
      BY <1>13 DEF Unblock
    <2>2. CASE UNCHANGED <<journal, stage, taskLock>> /\ \E ts : file' = Rebuilt(ts)
      BY <1>13, <1>q, <1>s, <1>t, <2>1, <2>2, StepsAreLocal DEF Staging, Step
    <2> QED  BY <1>13, <2>2, UnblockEnters
  <1>14. ASSUME NEW w \in Worker, Reblock(w)  PROVE Quiet \/ \E t, s : Enters(w, t, s)
    <2>1. /\ pc[w] = "cascade" /\ UNCHANGED <<clock, alive>>
      BY <1>14 DEF Reblock
    <2>2. CASE UNCHANGED <<journal, stage, taskLock>> /\ \E ts : file' = Rebuilt(ts)
      BY <1>14, <1>q, <1>s, <1>t, <2>1, <2>2, StepsAreLocal DEF Staging, Step
    <2> QED  BY <1>14, <2>2, ReblockEnters
  <1>15. ASSUME NEW w \in Worker, ReblockNext(w)  PROVE Quiet
    <2>1. /\ pc[w] = "cascade" /\ UNCHANGED <<file, journal, clock, taskLock, stage, alive>>
      BY <1>15 DEF ReblockNext
    <2> QED  BY <1>15, <1>0, <1>q, <1>s, <1>t, <2>1, StepsAreLocal DEF Staging, Step
  <1>16. ASSUME NEW w \in Worker, CascadeFails(w)  PROVE Quiet
    <2>1. /\ pc[w] \in {"cascade", "unblock"} /\ UNCHANGED <<file, journal, clock, taskLock, stage, alive>>
      BY <1>16 DEF CascadeFails, store
    <2> QED  BY <1>16, <1>0, <1>q, <1>s, <1>t, <2>1, StepsAreLocal DEF Staging, Step
  <1>17. ASSUME NEW w \in Worker, Return(w)  PROVE Quiet
    <2>1. /\ pc[w] \in {"ok", "failed"} /\ UNCHANGED <<file, journal, clock, taskLock, stage, alive>>
      BY <1>17 DEF Return, store
    <2> QED  BY <1>17, <1>0, <1>q, <1>s, <1>t, <2>1, StepsAreLocal DEF Staging, Step
  <1>18. ASSUME NEW w \in Worker, Kill(w)  PROVE Quiet
    <2>1. /\ UNCHANGED <<file, journal, clock, alive>> /\ stage' = [stage EXCEPT ![w] = None]
          /\ \A u \in Task : taskLock'[u] = taskLock[u] \/ taskLock[u] = w
          /\ stage'[w] = None
      BY <1>18, <1>t DEF Kill, store, TypeInv
    <2> QED  BY <1>18, <1>0, <1>q, <1>t, <2>1, StepsAreLocal
  <1>19. ASSUME NEW w \in Worker, WorkerDies(w)  PROVE Quiet
    BY <1>19, <1>0, <1>l, <1>t DEF WorkerDies, Quiet, store, TypeInv
  <1>20. CASE Tick \/ UNCHANGED vars
    BY <1>20, <1>0, <1>l, <1>t DEF Tick, vars, Quiet, store
  <1> QED
    BY <1>1, <1>2, <1>3, <1>5, <1>6, <1>7, <1>13, <1>14, <1>15, <1>16, <1>17, <1>18, <1>19, <1>20, ChangeEnters
       DEF Next, Step

\* What a commit step does: the file and the journal of the task of the staged record.
LEMMA CommitSteps ==
    ASSUME IInv, NEW w \in Worker,
           AppendReopening(w) \/ Write(w) \/ WriteFails(w) \/ RevertJournal(w) \/ Rewrite(w)
    PROVE  \E t \in Task, s \in StageRecord :
               /\ s = stage[w] /\ t = s.task /\ s # None
               /\ Sound(t, s.new) /\ Sound(t, Reverted(w))
               /\ \A u \in Task \ {t} : file'[u] = file[u] /\ journal'[u] = journal[u] /\ taskLock'[u] = taskLock[u]
               /\ \A v \in Worker \ {w} : stage'[v] = stage[v] /\ pc'[v] = pc[v] /\ call'[v] = call[v]
               /\ UNCHANGED <<clock, alive, call, granted, depLock>>
               /\ file'[t] \in {file[t], s.new, Reverted(w), None}
               /\ journal'[t].last \in {journal[t].last, s.new, Reverted(w)} /\ journal'[t].n >= journal[t].n
               /\ Current(t)' \in {Current(t), s.new, Reverted(w)}
  <1>0. stage[w] # None /\ stage[w] \in StageRecord /\ stage[w].task \in Task /\ pc[w] \in Staging
    BY NoneIsNone DEF IInv, Control, StepOf, Staging, StageRecord,
         AppendReopening, Write, WriteFails, RevertJournal, Rewrite
  <1>s. PICK t \in Task, s \in StageRecord : s = stage[w] /\ t = s.task
    BY <1>0
  <1>1. s # None /\ TypeInv /\ CommitOf(w) /\ pc[w] \in Staging /\ s = stage[w] /\ t = s.task
    BY <1>0, <1>s DEF IInv, Commits
  <1>2. Sound(t, s.new) /\ Sound(t, Reverted(w))
    BY <1>1, RevertedShape DEF IInv, Records
  <1>3. Local(w)
    BY <1>1, StepsAreLocal DEF Step
  <1>4. s.new # None /\ Reverted(w) # None /\ file[t] # None /\ Current(t) = file[t]
        /\ (pc[w] # "append" => journal[t].last \in {s.new, Reverted(w)}) /\ journal[t].n \in Nat
    BY <1>1, <1>2, NoneIsNone DEF Sound, WellFormed, CommitOf, Current, TypeInv
  <1>5. CASE AppendReopening(w)
    BY <1>1, <1>2, <1>3, <1>4, <1>5 DEF AppendReopening, Append, Local, TypeInv, Current
  <1>6. CASE Write(w)
    <2>1. /\ file' = [file EXCEPT ![t] = s.new] /\ taskLock' = [taskLock EXCEPT ![t] = None]
          /\ UNCHANGED <<journal, clock, alive, call, granted, depLock>> /\ pc[w] = "write"
      BY <1>1, <1>6 DEF Write, Unlock
    <2>2. file'[t] = s.new /\ Current(t)' = s.new
      BY <1>1, <1>4, <2>1 DEF TypeInv, Current
    <2> QED  BY <1>1, <1>2, <1>3, <1>4, <2>1, <2>2 DEF Local, TypeInv
  <1>7. CASE WriteFails(w)
    BY <1>1, <1>2, <1>3, <1>4, <1>7 DEF WriteFails, Local, TypeInv, Current
  <1>8. CASE RevertJournal(w)
    BY <1>1, <1>2, <1>3, <1>4, <1>8 DEF RevertJournal, Append, Local, TypeInv, Current
  <1>9. CASE Rewrite(w)
    <2>1. /\ \E r \in {Reverted(w), None, file[t]} : file' = [file EXCEPT ![t] = r]
          /\ taskLock' = [taskLock EXCEPT ![t] = None]
          /\ UNCHANGED <<journal, clock, alive, call, granted, depLock>> /\ pc[w] = "rewrite"
      BY <1>1, <1>9 DEF Rewrite, Unlock
    <2>2. file'[t] \in {Reverted(w), None, file[t]} /\ \A u \in Task \ {t} : file'[u] = file[u]
      BY <1>1, <2>1 DEF TypeInv
    <2>3. Current(t)' \in {Current(t), s.new, Reverted(w)}
      BY <1>1, <1>4, <2>1, <2>2 DEF Current
    <2> QED  BY <1>1, <1>2, <1>3, <1>4, <2>1, <2>2, <2>3 DEF Local, TypeInv
  <1> QED  BY <1>1, <1>2, <1>5, <1>6, <1>7, <1>8, <1>9

LEMMA RecordsStep ==
    ASSUME IInv, [Next]_vars
    PROVE  Records'
  <1>t. TypeInv /\ Records
    BY DEF IInv
  <1>1. CASE Quiet
    <2>1. PICK ts : file' = Rebuilt(ts)
      BY <1>1 DEF Quiet
    <2>2. \A u \in Task : file'[u] # None => Sound(u, file'[u])
      BY <1>1, <1>t, <2>1, RebuiltKeeps DEF Quiet
    <2> QED  BY <1>1, <1>t, <2>2 DEF Records, Quiet
  <1>2. ASSUME NEW w \in Worker, NEW t, NEW s, Enters(w, t, s)
        PROVE  Records'
    <2>1. PICK ts : file' = Rebuilt(ts) /\ t \in ts
      BY <1>2 DEF Enters
    <2>2. \A u \in Task \ {t} : journal'[u] = journal[u]
      BY <1>2, <1>t DEF Enters, TypeInv
    <2>3. \A u \in Task : file'[u] # None => Sound(u, file'[u])
      BY <1>t, <2>1, <2>2, RebuiltKeeps
    <2>4. journal'[t].last \in {journal[t].last, s.new}
      BY <1>2, <1>t DEF Enters, TypeInv
    <2>5. \A v \in Worker : stage'[v] = IF v = w THEN s ELSE stage[v]
      BY <1>2, <1>t DEF Enters, TypeInv
    <2>6. t \in Task /\ s.task = t /\ Sound(t, s.new) /\ Sound(t, s.prev)
      BY <1>2 DEF Enters
    <2>7. \A u \in Task : Sound(u, journal'[u].last)
      BY <1>t, <2>2, <2>4, <2>6 DEF Records
    <2>8. \A v \in Worker : stage'[v] # None => /\ Sound(stage'[v].task, stage'[v].new)
                                               /\ Sound(stage'[v].task, stage'[v].prev)
      BY <1>t, <2>5, <2>6 DEF Records
    <2> QED  BY <2>3, <2>7, <2>8 DEF Records
  <1>3. ASSUME NEW w \in Worker,
               AppendReopening(w) \/ Write(w) \/ WriteFails(w) \/ RevertJournal(w) \/ Rewrite(w)
        PROVE  Records'
    <2>1. PICK t \in Task, s \in StageRecord :
               /\ s = stage[w] /\ t = s.task
               /\ Sound(t, s.new) /\ Sound(t, Reverted(w))
               /\ \A u \in Task \ {t} : file'[u] = file[u] /\ journal'[u] = journal[u]
               /\ \A v \in Worker \ {w} : stage'[v] = stage[v]
               /\ file'[t] \in {file[t], s.new, Reverted(w), None}
               /\ journal'[t].last \in {journal[t].last, s.new, Reverted(w)}
      BY <1>3, CommitSteps
    <2>2. stage'[w] = stage[w] \/ stage'[w] = None
      BY <1>3, <1>t DEF AppendReopening, Write, WriteFails, RevertJournal, Rewrite, Unlock, TypeInv
    <2>3. \A u \in Task : file'[u] # None => Sound(u, file'[u])
      BY <1>t, <2>1 DEF Records
    <2>4. \A u \in Task : Sound(u, journal'[u].last)
      BY <1>t, <2>1 DEF Records
    <2> QED  BY <1>t, <2>1, <2>2, <2>3, <2>4 DEF Records
  <1> QED  BY <1>1, <1>2, <1>3, StepKinds

\* What is staged stays as it is while nobody touches its task.
LEMMA CommitStays ==
    ASSUME TypeInv, Records, Commits, NEW v \in Worker, stage[v] # None,
           stage'[v] = stage[v], call'[v] = call[v], pc'[v] = pc[v],
           taskLock'[stage[v].task] = taskLock[stage[v].task],
           file'[stage[v].task] = file[stage[v].task],
           journal'[stage[v].task] = journal[stage[v].task],
           clock' \in Nat, clock' >= clock, \A u \in Worker : alive'[u] => alive[u]
    PROVE  CommitOf(v)'
  <1>1. PICK s, t, old, c, j, k : /\ s = stage[v] /\ t = s.task /\ old = file[t] /\ c = call[v] /\ j = journal[t]
                                  /\ k = taskLock[t]
    OBVIOUS
  <1>2. /\ s # None /\ k = v /\ old # None /\ s.prev.gen <= s.new.gen
        /\ old = s.new \/ (old.version < s.new.version /\ old.gen <= s.new.gen)
        /\ pc[v] # "append" => j.last = s.new \/ (pc[v] = "rewrite" /\ j.last = Reverted(v))
        /\ Takeover(v, old, s.new)
        /\ (s.next = "ok" /\ c.op \in Claiming) \/ (SameToken(old, s.prev) /\ SameToken(s.new, s.prev))
    BY <1>1 DEF Commits, CommitOf, IsClaim
  <1>3. /\ stage'[v] = s /\ file'[t] = old /\ call'[v] = c /\ journal'[t] = j /\ taskLock'[t] = k
        /\ pc'[v] = pc[v] /\ t = s.task
    BY <1>1
  <1>4. Sound(t, old) /\ t \in Task
    BY <1>1, <1>2, NoneIsNone DEF Records, StageRecord
  <1>5. old.claim # None => old.owner \in Worker /\ old.claim.until \in Nat
    BY <1>4, SoundFields DEF Sound, WellFormed
  <1>6. clock \in Nat /\ clock' >= clock
    BY TaskAssumption DEF TypeInv
  <1>7. old.claim # None /\ s.new.claim # None /\ old.claim.token # s.new.claim.token =>
           \/ old.claim.until <= clock' /\ (old.claim.proc => ~alive'[old.owner])
           \/ c.force
    BY <1>1, <1>2, <1>5, <1>6 DEF Takeover
  <1>8. Reverted(v)' = Reverted(v)
    <2> DEFINE claims == s.fail = "failed" /\ s.next = "ok" /\ c.op \in {"claim", "reclaim"}
               kept == IF Assigned[s.task] # None THEN Assigned[s.task]
                       ELSE IF s.prev.status = "pending" THEN s.prev.owner ELSE None
               X == IF claims
                    THEN [status |-> IF s.prev.status = "in_progress" THEN "pending" ELSE s.prev.status,
                          version |-> s.new.version + 1, gen |-> s.new.gen, owner |-> kept, claim |-> None]
                    ELSE [s.prev EXCEPT !.version = s.new.version + 1, !.gen = s.new.gen]
    <2>1. stage[v] = s /\ call[v] = c /\ stage'[v] = s /\ call'[v] = c
      BY <1>1, <1>3
    <2>2. Reverted(v) = X
      BY <2>1 DEF Reverted
    <2>3. Reverted(v)' = X
      BY <2>1 DEF Reverted
    <2> QED  BY <2>2, <2>3
  <1>9. IsClaim(v)' <=> s.next = "ok" /\ c.op \in Claiming
    BY <1>3 DEF IsClaim
  <1> QED  BY <1>2, <1>3, <1>7, <1>8, <1>9 DEF CommitOf, Takeover, SameToken

LEMMA CommitsStep ==
    ASSUME IInv, [Next]_vars
    PROVE  Commits'
  <1>t. TypeInv /\ Records /\ Control /\ Commits /\ TypeInv' /\ Control'
    BY TypeStep, ControlStep DEF IInv
  <1>c. clock \in Nat /\ clock' \in Nat
    BY <1>t, TaskAssumption DEF TypeInv
  <1>l. \A v \in Worker : stage[v] # None => /\ stage[v] \in StageRecord /\ stage[v].task \in Task
                                             /\ taskLock[stage[v].task] = v /\ file[stage[v].task] # None
    BY <1>t, NoneIsNone DEF Commits, CommitOf, StageRecord
  <1>1. CASE Quiet
    <2>1. PICK ts : file' = Rebuilt(ts)
      BY <1>1 DEF Quiet
    <2>2. \A u \in Task : file[u] # None => file'[u] = file[u]
      BY <1>1, <1>t, <2>1, RebuiltKeeps DEF Quiet
    <2>3. ASSUME NEW v \in Worker, stage'[v] # None
          PROVE  CommitOf(v)'
      <3>1. stage'[v] = stage[v] /\ pc'[v] = pc[v] /\ call'[v] = call[v]
            /\ taskLock'[stage[v].task] = taskLock[stage[v].task] /\ journal' = journal
            /\ clock' >= clock /\ \A u \in Worker : alive'[u] => alive[u]
        BY <1>1, <2>3 DEF Quiet
      <3> QED  BY <1>t, <1>c, <1>l, <2>2, <2>3, <3>1, CommitStays
    <2> QED  BY <2>3 DEF Commits, CommitOf
  <1>2. ASSUME NEW w \in Worker, NEW t, NEW s, Enters(w, t, s)
        PROVE  Commits'
    <2>1. PICK ts : file' = Rebuilt(ts) /\ t \in ts
      BY <1>2 DEF Enters
    <2>2. /\ t \in Task /\ s \in StageRecord /\ s.task = t /\ taskLock[t] = None /\ s.prev.gen <= s.new.gen
          /\ \A u \in Task \ {t} : journal'[u] = journal[u] /\ taskLock'[u] = taskLock[u]
          /\ taskLock'[t] = w
          /\ \A v \in Worker : stage'[v] = IF v = w THEN s ELSE stage[v]
          /\ \A v \in Worker \ {w} : pc'[v] = pc[v]
          /\ UNCHANGED <<clock, alive, call>>
          /\ pc'[w] # "append" => journal'[t].last = s.new
      BY <1>2, <1>t DEF Enters, TypeInv
    <2>3. /\ \A u \in Task : file[u] # None => file'[u] = file[u]
          /\ file'[t] = Current(t) /\ Current(t) # None
      BY <1>t, <2>1, <2>2, RebuiltKeeps, CurrentSound, NoneIsNone
    <2>4. ASSUME NEW v \in Worker \ {w}, stage'[v] # None
          PROVE  CommitOf(v)'
      <3>1. stage[v] # None /\ stage'[v] = stage[v] /\ stage[v].task # t
        BY <1>l, <2>2, <2>4, NoneIsNone, <1>t
      <3> QED  BY <1>t, <1>c, <1>l, <2>2, <2>3, <3>1, CommitStays
    <2>5. CommitOf(w)'
      <3>1. /\ Current(t).version < s.new.version /\ Current(t).gen <= s.new.gen
            /\ Takeover(w, Current(t), s.new)
            /\ (s.next = "ok" /\ call[w].op \in Claiming)
                  \/ (SameToken(Current(t), s.prev) /\ SameToken(s.new, s.prev))
        BY <1>2 DEF Enters
      <3>2. PICK cur : cur = Current(t)
        OBVIOUS
      <3>3. file'[t] = cur /\ cur # None /\ stage'[w] = s /\ s.task = t
        BY <2>2, <2>3, <3>2
      <3>4. /\ cur.version < s.new.version /\ cur.gen <= s.new.gen
            /\ Takeover(w, cur, s.new)
            /\ (s.next = "ok" /\ call[w].op \in Claiming) \/ (SameToken(cur, s.prev) /\ SameToken(s.new, s.prev))
        BY <3>1, <3>2
      <3> QED  BY <2>2, <3>3, <3>4 DEF CommitOf, Takeover, SameToken, IsClaim
    <2> QED  BY <2>4, <2>5 DEF Commits, CommitOf
  <1>3. ASSUME NEW w \in Worker,
               AppendReopening(w) \/ Write(w) \/ WriteFails(w) \/ RevertJournal(w) \/ Rewrite(w)
        PROVE  Commits'
    <2>1. PICK t \in Task, s \in StageRecord :
               /\ s = stage[w] /\ t = s.task /\ s # None
               /\ \A u \in Task \ {t} : file'[u] = file[u] /\ journal'[u] = journal[u] /\ taskLock'[u] = taskLock[u]
               /\ \A v \in Worker \ {w} : stage'[v] = stage[v] /\ pc'[v] = pc[v] /\ call'[v] = call[v]
               /\ UNCHANGED <<clock, alive, call>>
      BY <1>3, CommitSteps
    <2>2. ASSUME NEW v \in Worker \ {w}, stage'[v] # None
          PROVE  CommitOf(v)'
      <3>1. stage[v] # None /\ stage'[v] = stage[v] /\ stage[v].task \in Task \ {t}
        BY <1>l, <2>1, <2>2
      <3> QED  BY <1>t, <1>c, <1>l, <2>1, <3>1, CommitStays
    <2>c. PICK old, c : old = file[t] /\ c = call[w]
      OBVIOUS
    <2>p. /\ taskLock[t] = w /\ old # None /\ s.prev.gen <= s.new.gen
          /\ old = s.new \/ (old.version < s.new.version /\ old.gen <= s.new.gen)
          /\ pc[w] # "append" => journal[t].last = s.new \/ (pc[w] = "rewrite" /\ journal[t].last = Reverted(w))
          /\ Takeover(w, old, s.new)
          /\ (s.next = "ok" /\ c.op \in Claiming) \/ (SameToken(old, s.prev) /\ SameToken(s.new, s.prev))
      BY <1>t, <2>1, <2>c DEF Commits, CommitOf, IsClaim
    <2>n. s.new # None
      BY <1>t, <2>1, NoneIsNone DEF StageRecord
    <2>3. ASSUME AppendReopening(w)  PROVE CommitOf(w)'
      <3>1. /\ stage' = stage /\ taskLock' = taskLock /\ file' = file /\ call' = call /\ clock' = clock
            /\ alive' = alive /\ pc'[w] = "write" /\ journal'[t].last = s.new
        BY <1>t, <2>1, <2>3 DEF AppendReopening, Append, TypeInv
      <3> QED  BY <2>1, <2>c, <2>p, <3>1 DEF CommitOf, Takeover, SameToken, IsClaim
    <2>4. ASSUME Write(w) \/ Rewrite(w)  PROVE CommitOf(w)'
      <3>1. stage'[w] = None
        BY <1>t, <2>4 DEF Write, Rewrite, Unlock, TypeInv
      <3> QED  BY <3>1 DEF CommitOf
    <2>5. ASSUME WriteFails(w)  PROVE CommitOf(w)'
      <3>1. /\ stage' = stage /\ taskLock' = taskLock /\ journal' = journal /\ call' = call /\ clock' = clock
            /\ alive' = alive /\ pc[w] = "write" /\ pc'[w] = "revert" /\ file'[t] \in {old, s.new}
        BY <1>t, <2>1, <2>c, <2>5 DEF WriteFails, TypeInv
      <3>2. Takeover(w, s.new, s.new) /\ SameToken(s.new, s.new)
        BY DEF Takeover, SameToken
      <3>3. PICK f : f = file'[t] /\ f \in {old, s.new}
        BY <3>1
      <3>4. /\ f # None /\ Takeover(w, f, s.new)
            /\ f = s.new \/ (f.version < s.new.version /\ f.gen <= s.new.gen)
            /\ (s.next = "ok" /\ c.op \in Claiming) \/ (SameToken(f, s.prev) /\ SameToken(s.new, s.prev))
        BY <2>p, <2>n, <3>2, <3>3
      <3> QED  BY <2>1, <2>c, <2>p, <3>1, <3>3, <3>4 DEF CommitOf, Takeover, SameToken, IsClaim
    <2>6. ASSUME RevertJournal(w)  PROVE CommitOf(w)'
      <3>1. /\ stage' = stage /\ taskLock' = taskLock /\ file' = file /\ call' = call /\ clock' = clock
            /\ alive' = alive /\ pc[w] = "revert" /\ pc'[w] = "rewrite"
            /\ journal'[t].last \in {journal[t].last, Reverted(w)}
        BY <1>t, <2>1, <2>6 DEF RevertJournal, Append, TypeInv
      <3>2. Reverted(w)' = Reverted(w)
        BY <3>1 DEF Reverted
      <3>3. journal'[t].last \in {s.new, Reverted(w)}
        BY <2>p, <3>1
      <3> QED  BY <2>1, <2>c, <2>p, <3>1, <3>2, <3>3 DEF CommitOf, Takeover, SameToken, IsClaim
    <2>7. CommitOf(w)'
      BY <1>3, <2>3, <2>4, <2>5, <2>6
    <2> QED  BY <2>2, <2>7 DEF Commits, CommitOf
  <1> QED  BY <1>1, <1>2, <1>3, StepKinds

-----------------------------------------------------------------------------
(***************************************************************************)
(* Grants                                                                  *)
(***************************************************************************)
\* What is read of a task changes only by a commit of it, under a higher version,
\* and a claim is replaced for the reason the commit has.
LEMMA CurrentMoves ==
    ASSUME IInv, [Next]_vars, NEW t \in Task
    PROVE  \/ Current(t)' = Current(t)
           \/ \E w \in Worker :
                /\ stage[w] # None /\ stage[w].task = t
                /\ Sound(t, Current(t)')
                /\ Current(t)'.version > Current(t).version /\ Current(t)'.gen >= Current(t).gen
                /\ Takeover(w, Current(t), Current(t)')
  <1>t. TypeInv /\ Records /\ Control /\ Commits
    BY DEF IInv
  <1>1. CASE Quiet
    BY <1>1, <1>t, RebuiltKeeps DEF Quiet
  <1>2. ASSUME NEW w \in Worker, NEW u, NEW s, Enters(w, u, s)
        PROVE  Current(t)' = Current(t)
    <2>1. PICK ts : file' = Rebuilt(ts) /\ u \in ts
      BY <1>2 DEF Enters
    <2>2. \A x \in Task \ ts : journal'[x] = journal[x]
      BY <1>2, <1>t, <2>1 DEF Enters, TypeInv
    <2> QED  BY <1>t, <2>1, <2>2, RebuiltKeeps
  <1>3. ASSUME NEW w \in Worker,
               AppendReopening(w) \/ Write(w) \/ WriteFails(w) \/ RevertJournal(w) \/ Rewrite(w),
               Current(t)' # Current(t)
        PROVE  /\ stage[w] # None /\ stage[w].task = t
               /\ Sound(t, Current(t)')
               /\ Current(t)'.version > Current(t).version /\ Current(t)'.gen >= Current(t).gen
               /\ Takeover(w, Current(t), Current(t)')
    <2>1. PICK u \in Task, s \in StageRecord :
               /\ s = stage[w] /\ u = s.task /\ s # None
               /\ Sound(u, s.new) /\ Sound(u, Reverted(w))
               /\ \A x \in Task \ {u} : file'[x] = file[x] /\ journal'[x] = journal[x]
               /\ Current(u)' \in {Current(u), s.new, Reverted(w)}
      BY <1>3, CommitSteps
    <2>2. u = t
      BY <1>3, <2>1 DEF Current
    <2>3. PICK old, new : old = Current(t) /\ new = Current(t)'
      OBVIOUS
    <2>4. file[t] # None /\ old = file[t]
      BY <1>t, <2>1, <2>2, <2>3 DEF Commits, CommitOf, Current
    <2>5. /\ s.prev.gen <= s.new.gen
          /\ old = s.new \/ (old.version < s.new.version /\ old.gen <= s.new.gen)
          /\ Takeover(w, old, s.new)
          /\ IsClaim(w) \/ (SameToken(old, s.prev) /\ SameToken(s.new, s.prev))
      <3>1. CommitOf(w) /\ stage[w] = s /\ s.task = t /\ s # None /\ file[t] = old
        BY <1>t, <2>1, <2>2, <2>4 DEF Commits
      <3>2. /\ file[t] = s.new \/ (file[t].version < s.new.version /\ file[t].gen <= s.new.gen)
            /\ Takeover(w, file[t], s.new) /\ s.prev.gen <= s.new.gen
            /\ IsClaim(w) \/ (SameToken(file[t], s.prev) /\ SameToken(s.new, s.prev))
        BY <3>1 DEF CommitOf
      <3> QED  BY <3>1, <3>2
    <2>6. /\ Reverted(w).version = s.new.version + 1 /\ Reverted(w).gen = s.new.gen
          /\ Reverted(w).claim = IF IsClaim(w) THEN None ELSE s.prev.claim
      BY <1>t, <2>1, RevertedShape
    <2>7. /\ s.new.version \in Nat /\ s.new.gen \in Nat /\ old.version \in Nat /\ old.gen \in Nat
      BY <1>t, <2>1, <2>2, <2>3, SoundFields, CurrentSound
    <2>8. CASE new = s.new
      <3>1. old # s.new
        BY <1>3, <2>3, <2>8
      <3>2. Sound(t, new) /\ new.version > old.version /\ new.gen >= old.gen /\ Takeover(w, old, new)
        BY <2>1, <2>2, <2>5, <2>7, <2>8, <3>1
      <3> QED  BY <2>1, <2>2, <2>3, <3>2
    <2>9. CASE new = Reverted(w)
      <3>1. Takeover(w, old, new)
        BY <2>5, <2>6, <2>9 DEF Takeover, SameToken
      <3>2. Sound(t, new) /\ new.version > old.version /\ new.gen >= old.gen
        BY <2>1, <2>2, <2>5, <2>6, <2>7, <2>9
      <3> QED  BY <2>1, <2>2, <2>3, <3>1, <3>2
    <2> QED  BY <1>3, <2>1, <2>2, <2>3, <2>8, <2>9
  <1> QED  BY <1>1, <1>2, <1>3, StepKinds

\* Journals only grow.
LEMMA JournalGrows ==
    ASSUME IInv, [Next]_vars, NEW t \in Task
    PROVE  journal[t].n \in Nat /\ journal'[t].n \in Nat /\ journal'[t].n >= journal[t].n
  <1>t. TypeInv /\ TypeInv'
    BY TypeStep DEF IInv
  <1>n. journal[t].n \in Nat /\ journal'[t].n \in Nat
    BY <1>t DEF TypeInv
  <1>1. CASE Quiet
    BY <1>1, <1>n DEF Quiet
  <1>2. ASSUME NEW w \in Worker, NEW u, NEW s, Enters(w, u, s)
        PROVE  journal'[t].n >= journal[t].n
    <2>1. journal' = journal \/ \E b \in BOOLEAN :
              journal' = [journal EXCEPT ![u] = [n |-> journal[u].n + 1, last |-> s.new, reopened |-> b]]
      BY <1>2 DEF Enters
    <2> QED  BY <1>t, <1>n, <2>1 DEF TypeInv
  <1>3. ASSUME NEW w \in Worker,
               AppendReopening(w) \/ Write(w) \/ WriteFails(w) \/ RevertJournal(w) \/ Rewrite(w)
        PROVE  journal'[t].n >= journal[t].n
    <2>1. PICK u \in Task, s \in StageRecord :
               /\ u = s.task
               /\ \A x \in Task \ {u} : journal'[x] = journal[x]
               /\ journal'[u].n >= journal[u].n
      BY <1>3, CommitSteps
    <2> QED  BY <1>n, <2>1
  <1> QED  BY <1>n, <1>1, <1>2, <1>3, StepKinds

\* A call that claims has its result once the file is written.
LEMMA IntoOk ==
    ASSUME IInv, [Next]_vars, NEW w \in Worker, pc'[w] = "ok", call'[w].op \in Claiming
    PROVE  /\ call'[w] = call[w]
           /\ \/ pc[w] = "ok" /\ ~Return(w)
              \/ Write(w) /\ stage[w] # None /\ IsClaim(w) /\ stage[w].task = call[w].task
  <1>t. TypeInv /\ Control
    BY DEF IInv
  <1>p. pc \in [Worker -> Pc] /\ call \in [Worker -> CallRecord \cup {None}] /\ StepOf(w) /\ StageOf(w)
    BY <1>t DEF TypeInv, Control
  <1>o. ASSUME NEW v \in Worker \ {w}, Calls(v) \/ Step(v) \/ Kill(v) \/ WorkerDies(v)
        PROVE  call'[w] = call[w] /\ pc[w] = "ok"
    BY <1>t, <1>o, StepsAreLocal DEF Local
  <1>r. ~Return(w)
    BY <1>p DEF Return
  <1>1. CASE Calls(w)  BY <1>1, <1>p DEF Calls, Call
  <1>2. CASE TakeDepLock(w)  BY <1>2, <1>p DEF TakeDepLock
  <1>3. CASE Reconcile(w)  BY <1>3, <1>p DEF Reconcile
  <1>4. CASE Change(w)  BY <1>4, <1>p DEF Change, Commit
  <1>5. CASE Refuse(w)  BY <1>5, <1>p DEF Refuse
  <1>6. CASE CallFails(w)  BY <1>6, <1>p DEF CallFails
  <1>7. CASE RecordIntent(w)  BY <1>7, <1>p DEF RecordIntent
  <1>8. CASE AppendReopening(w)  BY <1>8, <1>p DEF AppendReopening
  <1>9. CASE Write(w)
    <2>1. pc[w] = "write" /\ call' = call /\ stage[w].next = "ok"
      BY <1>9, <1>p DEF Write
    <2>2. stage[w] # None
      BY <1>p, <2>1 DEF StepOf, Staging
    <2> QED  BY <1>9, <1>p, <2>1, <2>2 DEF StageOf, IsClaim
  <1>10. CASE WriteFails(w)  BY <1>10, <1>p DEF WriteFails
  <1>11. CASE RevertJournal(w)  BY <1>11, <1>p DEF RevertJournal
  <1>12. CASE Rewrite(w)
    <2>1. pc[w] = "rewrite" /\ pc'[w] = stage[w].fail
      BY <1>12, <1>p DEF Rewrite
    <2>2. stage[w] \in StageRecord
      BY <1>t, <1>p, <2>1, NoneIsNone DEF StepOf, Staging
    <2> QED  BY <2>1, <2>2 DEF StageRecord
  <1>13. CASE Unblock(w)
    <2>1. pc[w] = "unblock" /\ call' = call
      BY <1>13 DEF Unblock
    <2> QED  BY <1>p, <2>1 DEF StepOf, Claiming
  <1>14. CASE Reblock(w)  BY <1>14, <1>p DEF Reblock, Commit
  <1>15. CASE ReblockNext(w)
    <2>1. pc[w] = "cascade" /\ call' = call /\ (Reconciling(w) => pc'[w] # "ok")
      BY <1>15, <1>p DEF ReblockNext
    <2> QED  BY <1>p, <2>1 DEF StepOf, Claiming
  <1>16. CASE CascadeFails(w)  BY <1>16, <1>p DEF CascadeFails
  <1>17. CASE Return(w)  BY <1>17, <1>p DEF Return
  <1>18. CASE Kill(w)  BY <1>18, <1>p DEF Kill
  <1>19. CASE WorkerDies(w)  BY <1>19, <1>p, <1>r DEF WorkerDies
  <1>20. CASE Tick \/ UNCHANGED vars  BY <1>20, <1>r DEF Tick, vars
  <1> QED
    BY <1>o, <1>r, <1>1, <1>2, <1>3, <1>4, <1>5, <1>6, <1>7, <1>8, <1>9, <1>10, <1>11, <1>12, <1>13, <1>14, <1>15,
       <1>16, <1>17, <1>18, <1>19, <1>20 DEF Next, Step

\* A claim is granted by the return of the call that made it.
LEMMA GrantedMoves ==
    ASSUME IInv, [Next]_vars, NEW v \in Worker, NEW g \in granted'[v] \ granted[v]
    PROVE  /\ Return(v) /\ pc[v] = "ok" /\ call[v].op \in Claiming
           /\ g.task = call[v].task
           /\ g.token = Current(call[v].task).claim.token /\ g.gen = Current(call[v].task).claim.gen
           /\ file' = file /\ journal' = journal /\ stage' = stage
           /\ \A w \in Worker \ {v} : granted'[w] = granted[w]
  <1>t. TypeInv /\ granted \in [Worker -> SUBSET Grant]
    BY DEF IInv, TypeInv
  <1>1. ASSUME NEW w \in Worker, Return(w)
        PROVE  w = v
    BY <1>1, <1>t, StepsAreLocal DEF Local, Step
  <1>2. CASE Return(v)
    <2>1. /\ pc[v] = "ok" /\ call[v].op \in {"claim", "reclaim"} /\ file' = file /\ journal' = journal
          /\ stage' = stage
          /\ granted' = [granted EXCEPT ![v] = @ \cup {[task |-> call[v].task,
                                                        token |-> Current(call[v].task).claim.token,
                                                        gen |-> Current(call[v].task).claim.gen]}]
      BY <1>2, <1>t DEF Return, store
    <2> QED  BY <1>2, <1>t, <2>1 DEF Claiming
  <1>3. ASSUME NEW w \in Worker, Calls(w) \/ Kill(w) \/ WorkerDies(w)
        PROVE  FALSE
    BY <1>3 DEF Calls, Call, Kill, WorkerDies
  <1>4. ASSUME NEW w \in Worker, Step(w), ~Return(w)
        PROVE  FALSE
    BY <1>4 DEF Step, TakeDepLock, Reconcile, Change, Refuse, CallFails, RecordIntent, AppendReopening, Write,
           WriteFails, RevertJournal, Rewrite, Unblock, Reblock, ReblockNext, CascadeFails
  <1>5. ~(Tick \/ UNCHANGED vars)
    BY DEF Tick, vars
  <1> QED  BY <1>1, <1>2, <1>3, <1>4, <1>5 DEF Next

\* What is new stays new unless it is granted.
LEMMA NewStays ==
    ASSUME IInv, [Next]_vars, NEW t \in Task, NEW r, New(t, r), r.claim.token \in Nat,
           \A v \in Worker : \A g \in granted'[v] \ granted[v] : g.task # t
    PROVE  New(t, r)'
  BY JournalGrows DEF New

\* No claim that is about to be returned shares its task with a record being staged.
LEMMA OkAlone ==
    ASSUME IInv, NEW w \in Worker, pc[w] = "ok", call[w].op \in Claiming
    PROVE  /\ call[w].task \in Task /\ depLock = w
           /\ \A v \in Worker : \A t, s : Enters(v, t, s) => v = w \/ t # call[w].task
           /\ \A v \in Worker \ {w} : ~(pc[v] = "ok" /\ call[v].op \in Claiming)
  <1>t. TypeInv /\ Control /\ Grants
    BY DEF IInv
  <1>1. /\ call[w] \in CallRecord /\ depLock = w
    BY <1>t DEF Control, StepOf, Claiming, UsesDepLock
  <1>2. call[w].task \in Task
    BY <1>1 DEF CallRecord
  <1>3. ASSUME NEW v \in Worker, NEW t, NEW s, Enters(v, t, s), v # w
        PROVE  t # call[w].task
    <2>1. call[v].op \in Using /\ t = call[v].task /\ Holds(v, Current(t))
      BY <1>1, <1>3 DEF Enters
    <2>2. PICK p \in {"append", "write"} : pc' = [pc EXCEPT ![v] = p]
      BY <1>3 DEF Enters
    <2>3. pc[v] # "idle"
      BY <2>1, <1>3, <1>t DEF Enters
    <2>4. PICK g \in granted[v] : g.task = t /\ g.token = call[v].token
      BY <1>t, <2>1, <2>3 DEF Control, StepOf
    <2>5. SUFFICES ASSUME t = call[w].task PROVE FALSE
      OBVIOUS
    <2>6. file[t] # None /\ New(t, file[t])
      BY <1>1, <1>t, <2>5 DEF Grants
    <2>7. g.token < file[t].claim.token /\ Current(t) = file[t]
      BY <2>4, <2>6 DEF New, Current
    <2>8. g.token \in Nat
      BY <1>t, <2>4 DEF TypeInv, Grant
    <2> QED  BY <2>1, <2>4, <2>7, <2>8 DEF Holds
  <1>4. ASSUME NEW v \in Worker, pc[v] = "ok", call[v].op \in Claiming
        PROVE  v = w
    <2>1. depLock = v
      BY <1>t, <1>4 DEF Control, StepOf, Claiming, UsesDepLock
    <2> QED  BY <1>1, <2>1
  <1> QED  BY <1>1, <1>2, <1>3, <1>4

LEMMA GrantsStep ==
    ASSUME IInv, [Next]_vars
    PROVE  Grants'
  <1>t. TypeInv /\ Records /\ Control /\ Commits /\ Grants /\ TypeInv' /\ Control'
    BY TypeStep, ControlStep DEF IInv
  <1>l. \A v \in Worker : stage[v] # None => /\ stage[v] \in StageRecord /\ stage[v].task \in Task
                                             /\ taskLock[stage[v].task] = v /\ file[stage[v].task] # None
    BY <1>t, NoneIsNone DEF Commits, CommitOf, StageRecord
  <1>k. \A t \in Task : /\ Current(t).gen \in Nat /\ Current(t)'.gen \in Nat
                        /\ Current(t)'.gen >= Current(t).gen
    <2>1. ASSUME NEW t \in Task
          PROVE  Current(t).gen \in Nat /\ Current(t)'.gen \in Nat /\ Current(t)'.gen >= Current(t).gen
      <3>1. Current(t).gen \in Nat
        BY <1>t, CurrentSound, SoundFields
      <3>2. CASE Current(t)' = Current(t)
        BY <3>1, <3>2
      <3>3. CASE Current(t)' # Current(t)
        <4>1. Sound(t, Current(t)') /\ Current(t)'.gen >= Current(t).gen
          BY <3>3, CurrentMoves
        <4>2. PICK r : r = Current(t)'
          OBVIOUS
        <4>3. r.gen \in Nat
          BY <4>1, <4>2, SoundFields
        <4> QED  BY <3>1, <4>1, <4>2, <4>3
      <3> QED  BY <3>2, <3>3
    <2> QED  BY <2>1
  <1>g. \A v \in Worker : granted[v] \subseteq Grant /\ granted'[v] \subseteq Grant
    BY <1>t DEF TypeInv
  <1>ok. ASSUME NEW w \in Worker, pc[w] = "ok", call[w].op \in Claiming
         PROVE  /\ call[w].task \in Task /\ file[call[w].task] # None
                /\ New(call[w].task, file[call[w].task])
                /\ Sound(call[w].task, file[call[w].task])
                /\ \A v \in Worker : stage[v] # None => stage[v].task # call[w].task
    BY <1>ok, <1>t, OkAlone DEF Grants, Records
  \* what has been granted
  <1>1. ASSUME NEW v \in Worker, NEW g \in granted'[v]
        PROVE  g.gen <= Current(g.task)'.gen /\ g.token <= journal'[g.task].n
    <2>1. g.task \in Task /\ g.gen \in Nat /\ g.token \in Nat
      BY <1>g DEF Grant
    <2>2. journal[g.task].n \in Nat /\ journal'[g.task].n \in Nat /\ journal'[g.task].n >= journal[g.task].n
      BY <2>1, JournalGrows
    <2>3. g.gen <= Current(g.task).gen /\ g.token <= journal[g.task].n
      <3>1. CASE g \in granted[v]
        BY <1>t, <3>1 DEF Grants
      <3>2. CASE g \notin granted[v]
        <4>1. /\ pc[v] = "ok" /\ call[v].op \in Claiming /\ g.task = call[v].task
              /\ g.token = Current(g.task).claim.token /\ g.gen = Current(g.task).claim.gen
          BY <1>1, <3>2, GrantedMoves
        <4>2. Current(g.task) = file[g.task] /\ New(g.task, Current(g.task))
          BY <1>ok, <4>1 DEF Current
        <4> QED  BY <2>1, <4>1, <4>2, <1>k DEF New
      <3> QED  BY <3>1, <3>2
    <2> QED  BY <1>k, <2>1, <2>2, <2>3
  \* what is staged to be granted
  <1>2. ASSUME NEW w \in Worker, stage'[w] # None, IsClaim(w)'
        PROVE  New(stage[w].task, stage[w].new)'
    <2>1. CASE stage'[w] = stage[w] /\ call'[w] = call[w]
      <3>1. IsClaim(w) /\ stage[w] # None
        BY <1>2, <2>1 DEF IsClaim
      <3>2. New(stage[w].task, stage[w].new) /\ stage[w].task \in Task /\ Sound(stage[w].task, stage[w].new)
        BY <1>l, <1>t, <3>1 DEF Grants, Records
      <3>3. \A v \in Worker : \A g \in granted'[v] \ granted[v] : g.task # stage[w].task
        BY <1>ok, <3>1, GrantedMoves
      <3>4. PICK t, r : t = stage[w].task /\ r = stage[w].new
        OBVIOUS
      <3>5. t \in Task /\ New(t, r) /\ r.claim.token \in Nat
        BY <3>2, <3>4, SoundFields DEF New
      <3>6. New(t, r)'
        BY <3>3, <3>4, <3>5, NewStays
      <3> QED  BY <2>1, <3>4, <3>6 DEF New
    <2>2. ASSUME NEW t, NEW s, Enters(w, t, s)
          PROVE  New(stage[w].task, stage[w].new)'
      <3>1. /\ t \in Task /\ s.task = t /\ stage'[w] = s /\ call' = call /\ granted' = granted
            /\ Sound(t, s.new)
        BY <2>2, <1>t DEF Enters, TypeInv
      <3>2. s.next = "ok" /\ call[w].op \in Claiming
        BY <1>2, <3>1 DEF IsClaim
      <3>3. /\ s.new.claim # None /\ s.new.claim.gen = s.new.gen
            /\ s.new.gen = Current(t).gen + 1 /\ s.new.claim.token = journal[t].n + 1
        BY <2>2, <3>2 DEF Enters
      <3>4. PICK p \in {"append", "write"} :
              /\ pc' = [pc EXCEPT ![w] = p]
              /\ p = "write" => \E b \in BOOLEAN :
                     journal' = [journal EXCEPT ![t] = [n |-> journal[t].n + 1, last |-> s.new, reopened |-> b]]
        BY <2>2 DEF Enters
      <3>5. p = "write"
        <4>1. StageOf(w)'
          BY <1>t DEF Control
        <4>2. pc'[w] = p /\ stage'[w] # None
          BY <1>t, <3>4, <1>2 DEF TypeInv
        <4> QED  BY <3>1, <3>2, <4>1, <4>2 DEF StageOf
      <3>6. journal'[t].n = journal[t].n + 1 /\ journal[t].n \in Nat
        BY <1>t, <3>1, <3>4, <3>5 DEF TypeInv
      <3>7. \A v \in Worker : \A g \in granted[v] : g.task = t => g.gen < s.new.gen /\ g.token < s.new.claim.token
        <4>1. ASSUME NEW v \in Worker, NEW g \in granted[v], g.task = t
              PROVE  g.gen < s.new.gen /\ g.token < s.new.claim.token
          <5>1. g.gen \in Nat /\ g.token \in Nat /\ g.gen <= Current(t).gen /\ g.token <= journal[t].n
            BY <1>g, <1>t, <4>1 DEF Grants, Grant
          <5> QED  BY <1>k, <3>1, <3>3, <3>6, <5>1
        <4> QED  BY <4>1
      <3> QED  BY <3>1, <3>3, <3>6, <3>7 DEF New
    <2>3. CASE Quiet
      BY <1>2, <2>1, <2>3 DEF Quiet
    <2>4. ASSUME NEW v \in Worker, v # w, \E t, s : Enters(v, t, s)
          PROVE  stage'[w] = stage[w] /\ call'[w] = call[w]
      BY <2>4, <1>t DEF Enters, TypeInv
    <2>5. ASSUME NEW v \in Worker,
                 AppendReopening(v) \/ Write(v) \/ WriteFails(v) \/ RevertJournal(v) \/ Rewrite(v)
          PROVE  stage'[w] = stage[w] /\ call'[w] = call[w]
      BY <1>2, <2>5, <1>t DEF AppendReopening, Write, WriteFails, RevertJournal, Rewrite, Unlock, TypeInv
    <2> QED  BY <2>1, <2>2, <2>3, <2>4, <2>5, StepKinds
  \* what is about to be granted
  <1>3. ASSUME NEW w \in Worker, pc'[w] = "ok", call'[w].op \in Claiming
        PROVE  /\ file'[call'[w].task] # None /\ New(call[w].task, file[call[w].task])'
               /\ \A v \in Worker : stage'[v] # None => stage'[v].task # call'[w].task
    <2>1. call'[w] = call[w]
      BY <1>3, IntoOk
    <2>2. PICK t : t = call[w].task
      OBVIOUS
    <2>3. CASE pc[w] = "ok" /\ ~Return(w)
      <3>1. /\ t \in Task /\ file[t] # None /\ New(t, file[t]) /\ Sound(t, file[t])
            /\ \A v \in Worker : stage[v] # None => stage[v].task # t
        BY <1>3, <1>ok, <2>1, <2>2, <2>3
      <3>2. \A v \in Worker : granted'[v] \subseteq granted[v]
        BY <1>3, <2>1, <2>3, OkAlone, GrantedMoves
      <3>3. ASSUME Quiet
            PROVE  file'[t] = file[t] /\ \A x \in Worker : stage'[x] # None => stage'[x].task # t
        <4>1. file'[t] = file[t] /\ \A v \in Worker : stage'[v] # None => stage'[v] = stage[v]
          BY <1>t, <3>1, <3>3, RebuiltKeeps DEF Quiet
        <4> QED  BY <3>1, <4>1
      <3>4. ASSUME NEW v \in Worker, NEW u, NEW s, Enters(v, u, s)
            PROVE  file'[t] = file[t] /\ \A x \in Worker : stage'[x] # None => stage'[x].task # t
        <4>1. v # w
          BY <1>3, <1>t, <3>4 DEF Enters, TypeInv
        <4>2. u # t
          BY <1>3, <2>1, <2>2, <2>3, <3>4, <4>1, OkAlone
        <4>3. PICK ts : file' = Rebuilt(ts) /\ u \in ts
          BY <3>4 DEF Enters
        <4>4. file'[t] = file[t]
          BY <3>1, <4>3, <1>t DEF Rebuilt, Current
        <4>5. \A x \in Worker : stage'[x] = IF x = v THEN s ELSE stage[x]
          BY <1>t, <3>4 DEF Enters, TypeInv
        <4>6. s.task = u
          BY <3>4 DEF Enters
        <4> QED  BY <3>1, <4>2, <4>4, <4>5, <4>6
      <3>5. ASSUME NEW v \in Worker,
                   AppendReopening(v) \/ Write(v) \/ WriteFails(v) \/ RevertJournal(v) \/ Rewrite(v)
            PROVE  file'[t] = file[t] /\ \A x \in Worker : stage'[x] # None => stage'[x].task # t
        <4>1. PICK u \in Task, s \in StageRecord :
                /\ s = stage[v] /\ u = s.task /\ s # None
                /\ \A x \in Task \ {u} : file'[x] = file[x]
          BY <3>5, CommitSteps
        <4>2. u # t
          BY <3>1, <4>1
        <4>3. \A x \in Worker : stage'[x] # None => stage'[x] = stage[x]
          BY <3>5, <1>t DEF AppendReopening, Write, WriteFails, RevertJournal, Rewrite, Unlock, TypeInv
        <4> QED  BY <3>1, <4>1, <4>2, <4>3
      <3>6. file'[t] = file[t] /\ \A x \in Worker : stage'[x] # None => stage'[x].task # t
        BY <3>3, <3>4, <3>5, StepKinds
      <3>7. PICK r : r = file[t]
        OBVIOUS
      <3>8. New(t, r) /\ r.claim.token \in Nat
        BY <3>1, <3>7, SoundFields DEF New
      <3>9. New(t, r)'
        BY <3>1, <3>2, <3>8, NewStays
      <3> QED  BY <2>1, <2>2, <3>1, <3>6, <3>7, <3>9 DEF New
    <2>4. CASE Write(w) /\ stage[w] # None /\ IsClaim(w) /\ stage[w].task = t
      <3>1. PICK s : s = stage[w]
        OBVIOUS
      <3>2. /\ t \in Task /\ s.task = t /\ New(t, s.new)
            /\ s.new # None
        BY <1>t, <1>l, <2>4, <3>1, NoneIsNone DEF Grants, StageRecord
      <3>3. file' = [file EXCEPT ![t] = s.new] /\ journal' = journal /\ granted' = granted
            /\ stage' = [stage EXCEPT ![w] = None]
        BY <2>4, <3>1, <3>2 DEF Write, Unlock
      <3>4. file'[t] = s.new
        BY <1>t, <3>2, <3>3 DEF TypeInv
      <3>5. \A v \in Worker : stage'[v] # None => v # w /\ stage'[v] = stage[v]
        BY <1>t, <3>3 DEF TypeInv
      <3>6. \A v \in Worker : stage'[v] # None => stage'[v].task # t
        BY <1>l, <2>4, <3>5
      <3> QED  BY <2>1, <2>2, <3>2, <3>3, <3>4, <3>6 DEF New
    <2> QED  BY <1>3, <2>2, <2>3, <2>4, IntoOk
  <1>4. \A v \in Worker : \A g \in granted'[v] : g.gen <= Current(g.task)'.gen /\ g.token <= journal'[g.task].n
    BY <1>1
  <1>5. \A w \in Worker : stage'[w] # None /\ IsClaim(w)' => New(stage[w].task, stage[w].new)'
    BY <1>2
  <1> QED  BY <1>3, <1>4, <1>5 DEF Grants

-----------------------------------------------------------------------------
(***************************************************************************)
(* The theorems                                                            *)
(***************************************************************************)
\* The tasks as they are created.
LEMMA FreshShape ==
    ASSUME NEW t \in Task, NEW done \in SUBSET Task
    PROVE  Sound(t, Fresh(t, done)) /\ Fresh(t, done).version \in Nat /\ Fresh(t, done) # None
  <1>1. Fresh(t, done) \in TaskRecord
    <2>1. (CHOOSE w \in Worker : TRUE) \in Worker
      BY TaskAssumption
    <2>2. Assigned[t] \in Worker \cup {None}
      BY TaskAssumption
    <2> QED  BY <2>1, <2>2 DEF Fresh, TaskRecord, Status
  <1>2. /\ Fresh(t, done).claim = None /\ Fresh(t, done).status # "in_progress"
        /\ Fresh(t, done).status = "blocked" => Deps[t] # {}
    BY DEF Fresh
  <1> QED  BY <1>1, <1>2, NoneAssumption DEF Sound, WellFormed, TaskRecord

LEMMA Initially ==
    ASSUME Init
    PROVE  IInv
  <1>1. PICK done \in SUBSET Task :
          /\ file = [t \in Task |-> Fresh(t, done)]
          /\ journal = [t \in Task |-> [n |-> Fresh(t, done).version, last |-> Fresh(t, done), reopened |-> FALSE]]
    BY DEF Init
  <1>2. \A t \in Task : /\ Sound(t, Fresh(t, done)) /\ Fresh(t, done).version \in Nat /\ Fresh(t, done) # None
                        /\ Fresh(t, done) \in TaskRecord
    BY FreshShape, SoundFields
  <1> HIDE DEF Fresh
  <1>3. TypeInv
    <2>1. file \in [Task -> TaskRecord \cup {None}]
      BY <1>1, <1>2
    <2>2. journal \in [Task -> [n : Nat, last : TaskRecord, reopened : BOOLEAN]]
      BY <1>1, <1>2
    <2> QED  BY <2>1, <2>2, TaskAssumption DEF Init, TypeInv, Pc
  <1>4. Records
    BY <1>1, <1>2 DEF Init, Records
  <1>5. Control /\ Commits /\ Grants
    BY DEF Init, Control, StepOf, StageOf, Staging, Commits, CommitOf, Grants
  <1> QED  BY <1>3, <1>4, <1>5 DEF IInv

LEMMA Invariance ==
    Spec => []IInv
  <1>1. Init => IInv
    BY Initially
  <1>2. IInv /\ [Next]_vars => IInv'
    BY TypeStep, RecordsStep, ControlStep, CommitsStep, GrantsStep DEF IInv
  <1> QED  BY <1>1, <1>2, PTL DEF Spec

\* The task files, journals and locks are always of the form readTaskUnlocked,
\* isTeamTask and withTaskLock rely on.
THEOREM TypeCorrect ==
    Spec => []TypeOK
  <1>1. IInv => TypeOK
    <2> SUFFICES ASSUME IInv PROVE TypeOK
      OBVIOUS
    <2>1. TypeInv /\ Records /\ Commits
      BY DEF IInv
    <2>2. \A t \in Task : /\ file[t] = None \/ WellFormed(file[t])
                          /\ WellFormed(journal[t].last)
                          /\ StatusOf(t) = "blocked" => Deps[t] # {}
      BY <2>1, CurrentSound DEF Records, Sound, StatusOf
    <2> QED  BY <2>1, <2>2 DEF TypeOK, TypeInv, Commits, CommitOf
  <1> QED  BY <1>1, Invariance, PTL

\* Whoever saw a version of a task and finds it again finds the same record,
\* whatever calls were killed or failed in between.
THEOREM VersionsRiseAlways ==
    Spec => VersionsRise
  <1>1. IInv /\ [Next]_vars =>
          [\A t \in Task : Current(t)' # Current(t) => Current(t)'.version > Current(t).version]_vars
    BY CurrentMoves
  <1> QED  BY <1>1, Invariance, PTL DEF Spec, VersionsRise

\* A claim is taken over when its lease is over and its process is not known to
\* live, or by force.
THEOREM TakeoversAreJustified ==
    Spec => TakeoversJustified
  <1> DEFINE Justified(t) ==
         LET old == Current(t).claim
             new == Current(t)'.claim
         IN  old # None /\ new # None /\ new.token # old.token =>
                \/ old.until <= clock /\ (old.proc => ~alive[Current(t).owner])
                \/ \E w \in Worker : stage[w] # None /\ stage[w].task = t /\ call[w].force
  <1>1. IInv /\ [Next]_vars => \A t \in Task : Justified(t)
    <2> SUFFICES ASSUME IInv, [Next]_vars, NEW t \in Task PROVE Justified(t)
      OBVIOUS
    <2>1. CASE Current(t)' = Current(t)
      BY <2>1
    <2>2. CASE Current(t)' # Current(t)
      BY <2>2, CurrentMoves DEF Takeover
    <2> QED  BY <2>1, <2>2
  <1>2. IInv /\ [Next]_vars => [\A t \in Task : Justified(t)]_vars
    BY <1>1
  <1> QED  BY <1>2, Invariance, PTL DEF Spec, TakeoversJustified

\* A workspace generation is never handed out twice.
THEOREM GenerationsRiseAlways ==
    Spec => GenerationsRise
  <1> DEFINE Rise == \A w, v \in Worker : \A g \in granted'[w] \ granted[w] : \A h \in granted[v] :
                        h.task = g.task => h.gen < g.gen
  <1>1. IInv /\ [Next]_vars => Rise
    <2> SUFFICES ASSUME IInv, [Next]_vars, NEW w \in Worker, NEW v \in Worker,
                        NEW g \in granted'[w] \ granted[w], NEW h \in granted[v], h.task = g.task
                 PROVE  h.gen < g.gen
      OBVIOUS
    <2>1. /\ pc[w] = "ok" /\ call[w].op \in Claiming /\ g.task = call[w].task
          /\ g.gen = Current(g.task).claim.gen
      BY GrantedMoves
    <2>2. file[g.task] # None /\ New(g.task, file[g.task]) /\ Current(g.task) = file[g.task]
      BY <2>1 DEF IInv, Grants, Current
    <2> QED  BY <2>1, <2>2 DEF New
  <1>2. IInv /\ [Next]_vars => [Rise]_vars
    BY <1>1
  <1> QED  BY <1>2, Invariance, PTL DEF Spec, GenerationsRise

-----------------------------------------------------------------------------
(***************************************************************************)
(* Tasks and what they are blocked by                                      *)
(***************************************************************************)
\* Nobody waits for a task that waits itself.
Flat == \A t \in Task : \A d \in Deps[t] : Deps[d] = {}

\* The status a task has, or a commit under way may leave it with, can be other than s.
May(t, s) ==
    \/ StatusOf(t) # s
    \/ \E w \in Worker : /\ stage[w] # None /\ stage[w].task = t
                         /\ stage[w].new.status # s \/ stage[w].prev.status # s
MayRun(t) == May(t, "blocked")
MayLack(t) == May(t, "completed")

\* A task that may run or have run has prerequisites that are completed for good, or reopened
\* with an intent to say so.
Rests == \A u \in Task : \A d \in Deps[u] : MayRun(u) /\ MayLack(d) => d \in intents

\* Calls without the dependency lock neither complete a task nor block it.
PlainOf(w) ==
    stage[w] # None /\ ~UsesDepLock(call[w].op) =>
        {StatusOf(stage[w].task), stage[w].new.status, stage[w].prev.status}
            \subseteq {"pending", "in_progress", "failed"}

Cascading(w) == pc[w] = "cascade" \/ (stage[w] # None /\ stage[w].next = "cascade")

\* What rests on the root of a cascade is blocked, or still to be visited.
CascadeOf(w) ==
    LET k == cascade[w]
        s == stage[w]
    IN  Cascading(w) =>
          /\ k.rest \subseteq Dependents(k.root) /\ k.todo \subseteq Dependents(k.root)
          /\ s # None => s.task = k.root \/ (s.task \in Dependents(k.root) /\ s.new.status = "blocked")
          /\ \A u \in Dependents(k.root) : u \in k.rest \/ ~MayRun(u) \/ (s # None /\ s.task = u)
          /\ call[w].op = "reopen" /\ ~Reconciling(w) => k.root = call[w].task

ReachedOf(w) ==
    pc[w] = "ok" /\ call[w].op = "reopen" => \A u \in Dependents(call[w].task) : ~MayRun(u)

RestInv == Rests /\ \A w \in Worker : PlainOf(w) /\ CascadeOf(w) /\ ReachedOf(w)

\* In such a graph what is blocked by t blocks nothing itself.
LEMMA FlatGraph ==
    ASSUME Flat, NEW t \in Task, NEW u \in Dependents(t)
    PROVE  u \in Task /\ u # t /\ t \in Deps[u] /\ Deps[t] = {} /\ Dependents(u) = {}
  <1>1. u \in Task /\ t \in Deps[u] /\ Deps[t] = {}
    BY DEF Dependents, Flat
  <1>2. Dependents(u) = {}
    BY <1>1 DEF Dependents, Flat
  <1> QED  BY <1>1, <1>2

\* What a reverted commit leaves is completed, or blocked, if the record before it was.
LEMMA RevertedStatus ==
    ASSUME TypeInv, Records, Control, Commits, NEW w \in Worker, stage[w] # None
    PROVE  \/ Reverted(w).status = stage[w].prev.status
           \/ stage[w].prev.status = "in_progress" /\ Reverted(w).status = "pending"
  <1>1. /\ stage[w].prev \in TaskRecord /\ stage[w].new.version \in Nat /\ stage[w].new.gen \in Nat
    BY NoneIsNone, SoundFields DEF Records, StageRecord
  <1> QED  BY <1>1 DEF Reverted, TaskRecord

\* What the commit steps of a call may make of a task, they may before.
LEMMA CommitMay ==
    ASSUME IInv, NEW w \in Worker, NEW t \in Task, NEW s \in {"blocked", "completed"},
           AppendReopening(w) \/ Write(w) \/ WriteFails(w) \/ RevertJournal(w) \/ Rewrite(w),
           May(t, s)'
    PROVE  May(t, s)
  <1>t. TypeInv /\ Records /\ Control /\ Commits
    BY DEF IInv
  <1>1. PICK u \in Task, r \in StageRecord :
           /\ r = stage[w] /\ u = r.task /\ r # None
           /\ \A x \in Task \ {u} : file'[x] = file[x] /\ journal'[x] = journal[x]
           /\ \A v \in Worker \ {w} : stage'[v] = stage[v]
           /\ Current(u)' \in {Current(u), r.new, Reverted(w)}
    BY CommitSteps
  <1>2. stage'[w] = None \/ stage'[w] = stage[w]
    BY <1>t DEF AppendReopening, Write, WriteFails, RevertJournal, Rewrite, Unlock, TypeInv
  <1>3. \A v \in Worker : stage'[v] # None => stage'[v] = stage[v]
    BY <1>1, <1>2
  <1>4. ASSUME StatusOf(t)' # s  PROVE May(t, s)
    <2>1. CASE t # u
      <3>1. StatusOf(t)' = StatusOf(t)
        BY <1>1, <2>1 DEF StatusOf, Current
      <3> QED  BY <1>4, <3>1 DEF May
    <2>2. CASE t = u
      <3>1. StatusOf(t)' \in {StatusOf(t), r.new.status, Reverted(w).status}
        BY <1>1, <2>2 DEF StatusOf
      <3>2. Reverted(w).status # s => r.prev.status # s
        BY <1>t, <1>1, RevertedStatus
      <3> QED  BY <1>1, <1>4, <2>2, <3>1, <3>2 DEF May
    <2> QED  BY <2>1, <2>2
  <1> QED  BY <1>3, <1>4 DEF May

\* So of every step that stages nothing.
LEMMA QuietMay ==
    ASSUME IInv, Quiet, NEW t \in Task, NEW s, May(t, s)'
    PROVE  May(t, s)
  <1>1. StatusOf(t)' = StatusOf(t)
    BY RebuiltKeeps DEF IInv, Quiet, StatusOf
  <1>2. \A v \in Worker : stage'[v] # None => stage'[v] = stage[v]
    BY DEF Quiet
  <1> QED  BY <1>1, <1>2 DEF May

\* Staging a record changes no task as it is read.
LEMMA EntersKeeps ==
    ASSUME IInv, NEW w \in Worker, NEW u, NEW r, Enters(w, u, r)
    PROVE  /\ u \in Task /\ \A t \in Task : Current(t)' = Current(t) /\ StatusOf(t)' = StatusOf(t)
           /\ stage'[w] = r /\ r # None /\ r.task = u /\ \A v \in Worker \ {w} : stage'[v] = stage[v]
           /\ stage[w] = None
  <1>1. PICK ts : file' = Rebuilt(ts) /\ u \in ts
    BY DEF Enters
  <1>2. TypeInv /\ Records /\ \A x \in Task \ ts : journal'[x] = journal[x]
    BY <1>1 DEF Enters, IInv, TypeInv
  <1>3. \A t \in Task : Current(t)' = Current(t)
    BY <1>1, <1>2, RebuiltKeeps
  <1>4. \A t \in Task : StatusOf(t)' = StatusOf(t)
    BY <1>3 DEF StatusOf
  <1>5. None \notin StageRecord
    BY <1>2, NoneIsNone
  <1> QED  BY <1>2, <1>3, <1>4, <1>5 DEF Enters, TypeInv

\* A step that stages a record adds what this record may make of its task.
LEMMA EntersMay ==
    ASSUME IInv, NEW w \in Worker, NEW u, NEW r, Enters(w, u, r), NEW t \in Task, NEW s, May(t, s)'
    PROVE  May(t, s) \/ (t = u /\ (stage'[w].new.status # s \/ stage'[w].prev.status # s))
  BY EntersKeeps DEF May

\* Nobody else is at a task that is completed, or blocked, while w holds the dependency lock.
LEMMA Alone ==
    ASSUME IInv, RestInv, NEW w \in Worker, depLock = w, stage[w] = None,
           NEW t \in Task, NEW s \in {"blocked", "completed"}, StatusOf(t) = s
    PROVE  ~May(t, s)
  <1> SUFFICES ASSUME NEW v \in Worker, stage[v] # None, stage[v].task = t
               PROVE  FALSE
    BY DEF May
  <1>1. pc[v] \in Staging /\ v # w
    BY DEF IInv, Control, StepOf
  <1>2. ~UsesDepLock(call[v].op)
    BY <1>1 DEF IInv, Control, StepOf, Staging
  <1> QED  BY <1>2 DEF RestInv, PlainOf

\* A change without the dependency lock is made of a task in progress, and leaves it unblocked and
\* incomplete; a task that may run after a change might before, or is ready under that lock.
LEMMA ChangeMay ==
    ASSUME IInv, NEW w \in Worker, Change(w)
    PROVE  \E r : LET t == call[w].task IN
             /\ Enters(w, t, r) /\ r.next # "cascade"
             /\ MayRun(t) \/ (depLock = w /\ Ready(t))
             /\ MayLack(t)
             /\ ~UsesDepLock(call[w].op) =>
                  /\ StatusOf(t) = "in_progress"
                  /\ {r.new.status, r.prev.status} \subseteq {"pending", "in_progress", "failed"}
  <1> DEFINE t == call[w].task
             op == call[w].op
             old == Current(t)
  <1>1. PICK r : Enters(w, t, r)
    BY ChangeEnters
  <1>2. /\ call[w] \in CallRecord /\ t \in Task /\ stage[w] = None /\ TypeInv /\ Records
        /\ UsesDepLock(op) => depLock = w
    BY DEF Change, IInv, Control, StepOf, Staging, CallRecord
  <1>3. PICK ambiguous \in BOOLEAN : \E new \in Outcomes(w, t, ambiguous) :
           stage' = [stage EXCEPT ![w] =
               [task |-> t, new |-> new, prev |-> Before(w, t),
                next |-> IF op = "complete" THEN "unblock" ELSE "ok", fail |-> "failed"]]
    BY DEF Change, Commit
  <1>n. PICK new \in Outcomes(w, t, ambiguous) :
           stage' = [stage EXCEPT ![w] =
               [task |-> t, new |-> new, prev |-> Before(w, t),
                next |-> IF op = "complete" THEN "unblock" ELSE "ok", fail |-> "failed"]]
    BY <1>3
  <1>4. r = [task |-> t, new |-> new, prev |-> Before(w, t),
             next |-> IF op = "complete" THEN "unblock" ELSE "ok", fail |-> "failed"]
    <2>1. stage'[w] = r
      BY <1>1, EntersKeeps
    <2> QED  BY <1>2, <1>n, <2>1 DEF TypeInv
  <1>5. old \in TaskRecord /\ Sound(t, old) /\ old.status = StatusOf(t)
    BY <1>2, CurrentSound DEF StatusOf
  <1>6. CASE op = "claim"
    <2>1. Ready(t) /\ old.status \notin Terminal
      BY <1>n, <1>6 DEF Outcomes, ClaimAllowed
    <2>2. UsesDepLock(op) /\ MayLack(t) /\ r.next # "cascade"
      BY <1>4, <1>5, <1>6, <2>1 DEF MayLack, May, Terminal, UsesDepLock
    <2> QED  BY <1>1, <1>2, <2>1, <2>2
  <1>7. CASE op # "claim"
    <2>1. old.status = "in_progress" /\ Before(w, t) = old
      <3>1. op \in {"reclaim", "renew", "complete", "fail", "return", "release", "reopen"}
        BY <1>2, <1>7 DEF CallRecord, Claiming, Using
      <3>2. old.status = "in_progress"
        BY <1>n, <3>1 DEF Outcomes, ReclaimAllowed, RenewAllowed, ReleaseAllowed, FinishAllowed, Holds
      <3> QED  BY <1>7, <3>2 DEF Before
    <2>2. MayRun(t) /\ MayLack(t) /\ r.next # "cascade"
      BY <1>4, <1>5, <2>1 DEF MayRun, MayLack, May
    <2>3. ASSUME ~UsesDepLock(op)
          PROVE  {r.new.status, r.prev.status} \subseteq {"pending", "in_progress", "failed"}
      <3>1. op \in {"renew", "fail", "return", "release"}
        <4>1. op \in {"renew", "fail", "return", "release"} \/ UsesDepLock(op)
          BY <1>2 DEF CallRecord, Claiming, Using, UsesDepLock
        <4> QED  BY <2>3, <4>1
      <3>2. CASE op = "renew"
        BY <1>n, <1>4, <1>5, <2>1, <3>2 DEF Outcomes, Renewed, TaskRecord
      <3>3. CASE op = "release"
        BY <1>n, <1>4, <1>5, <2>1, <3>3 DEF Outcomes, Released, TaskRecord
      <3>4. CASE op \in {"fail", "return"}
        <4>1. new = Finished(w, old)
          BY <1>n, <3>4 DEF Outcomes
        <4>2. Finished(w, old).status \in {"failed", "pending"}
          BY <1>5, <3>4 DEF Finished, TaskRecord
        <4> QED  BY <1>4, <1>5, <2>1, <4>1, <4>2
      <3> QED  BY <3>1, <3>2, <3>3, <3>4
    <2> QED  BY <1>1, <1>5, <2>1, <2>2, <2>3
  <1> QED  BY <1>6, <1>7

\* A step between two commits, as far as the tasks are concerned.
LEMMA StagesNothing ==
    ASSUME IInv, NEW w \in Worker, Step(w), stage[w] = None,
           UNCHANGED <<journal, stage, taskLock, clock, alive>>, \E ts : file' = Rebuilt(ts)
    PROVE  Quiet
  <1>1. TypeInv
    BY DEF IInv
  <1>2. \A v \in Worker : stage'[v] # None => pc'[v] = pc[v] /\ call'[v] = call[v]
    BY <1>1, StepsAreLocal DEF Local
  <1>3. clock \in Nat
    BY <1>1, TaskAssumption DEF TypeInv
  <1> QED  BY <1>2, <1>3 DEF Quiet

\* Unblocking is of a task that is ready, under the dependency lock.
LEMMA UnblockMay ==
    ASSUME IInv, NEW w \in Worker, Unblock(w)
    PROVE  \/ Quiet
           \/ \E u, r : /\ Enters(w, u, r) /\ r.next = "unblock" /\ UsesDepLock(call[w].op)
                        /\ StatusOf(u) = "blocked" /\ Ready(u) /\ depLock = w
  <1>1. /\ depLock = w /\ UsesDepLock(call[w].op) /\ TypeInv /\ pc[w] = "unblock" /\ stage[w] = None
    BY DEF Unblock, IInv, Control, StepOf, UsesDepLock, Staging
  <1>2. \/ \E u \in cascade[w].rest :
              StatusOf(u) = "blocked" /\ Ready(u) /\ \E new, prev : stage' =
                 [stage EXCEPT ![w] = [task |-> u, new |-> new, prev |-> prev,
                                       next |-> "unblock", fail |-> "failed"]]
        \/ UNCHANGED stage
    <2> DEFINE r(u) == [Current(u) EXCEPT !.status = "pending", !.version = @ + 1]
    <2> HIDE DEF r
    <2>1. \/ \E u \in cascade[w].rest : /\ StatusOf(u) = "blocked" /\ Ready(u)
                                        /\ Commit(w, u, r(u), Current(u), FALSE, "unblock", "failed")
          \/ UNCHANGED stage
      BY Zenon DEF Unblock, r
    <2>2. ASSUME NEW u, Commit(w, u, r(u), Current(u), FALSE, "unblock", "failed")
          PROVE  \E new, prev : stage' =
                   [stage EXCEPT ![w] = [task |-> u, new |-> new, prev |-> prev,
                                         next |-> "unblock", fail |-> "failed"]]
      <3>1. stage' = [stage EXCEPT ![w] = [task |-> u, new |-> r(u), prev |-> Current(u),
                                           next |-> "unblock", fail |-> "failed"]]
        BY <2>2 DEF Commit
      <3> QED  BY <3>1
    <2> QED  BY <2>1, <2>2
  <1>3. CASE \E u, r : Enters(w, u, r) /\ r.next = "unblock"
    <2>1. PICK u, r : Enters(w, u, r) /\ r.next = "unblock"
      BY <1>3
    <2>2. stage'[w] = r /\ r.task = u /\ r # None
      BY <2>1, EntersKeeps
    <2>3. stage' # stage
      BY <1>1, <2>2
    <2>4. PICK x : /\ StatusOf(x) = "blocked" /\ Ready(x)
                   /\ \E new, prev : stage' =
                        [stage EXCEPT ![w] = [task |-> x, new |-> new, prev |-> prev,
                                              next |-> "unblock", fail |-> "failed"]]
      BY <1>2, <2>3
    <2>5. stage'[w].task = x
      BY <1>1, <2>4 DEF TypeInv
    <2> QED  BY <1>1, <2>1, <2>2, <2>4, <2>5
  <1>4. CASE /\ UNCHANGED <<journal, stage, taskLock>> /\ \E ts : file' = Rebuilt(ts)
    <2>1. UNCHANGED <<clock, alive>>
      BY DEF Unblock
    <2> QED  BY <1>1, <1>4, <2>1, StagesNothing DEF Step
  <1> QED  BY <1>3, <1>4, UnblockEnters

\* A cascade visits a dependent: it is blocked, or a record that blocks it is staged.
LEMMA ReblockMay ==
    ASSUME IInv, RestInv, NEW w \in Worker, Reblock(w)
    PROVE  /\ depLock = w /\ stage[w] = None /\ pc[w] = "cascade"
           /\ \E u \in cascade[w].rest :
                /\ cascade' = Visited(w, u)
                /\ \/ \E r : Enters(w, u, r) /\ MayRun(u) /\ r.new.status = "blocked" /\ r.next = "cascade"
                   \/ Quiet /\ ~MayRun(u) /\ stage' = stage /\ pc' = pc
  <1>1. /\ depLock = w /\ stage[w] = None /\ pc[w] = "cascade" /\ TypeInv /\ Records
        /\ cascade[w] \in CascadeRecord
    BY DEF Reblock, IInv, Control, StepOf, Staging
  <1>2. PICK u \in cascade[w].rest :
          /\ cascade' = Visited(w, u)
          /\ \/ /\ StatusOf(u) # "blocked"
                /\ \E b, fail : Commit(w, u, Reblocked(u, Current(u)), Current(u), b, "cascade", fail)
             \/ /\ StatusOf(u) = "blocked" /\ UNCHANGED <<journal, stage, taskLock, pc>>
                /\ file' = Rebuilt({u})
    BY DEF Reblock, MustReblock
  <1>3. u \in Task
    BY <1>1, <1>2 DEF CascadeRecord
  <1>4. CASE StatusOf(u) # "blocked"
    <2> DEFINE new == Reblocked(u, Current(u))
    <2>1. new.status = "blocked"
      BY <1>1, <1>3, CurrentSound DEF Reblocked, TaskRecord
    <2> HIDE DEF new
    <2>2. PICK fail : /\ stage' = [stage EXCEPT ![w] = [task |-> u, new |-> new, prev |-> Current(u),
                                                        next |-> "cascade", fail |-> fail]]
                      /\ pc' = [pc EXCEPT ![w] = "write"]
      BY <1>2, <1>4 DEF Commit, new
    <2>3. stage'[w].task = u /\ stage'[w].new = new /\ pc'[w] # pc[w]
      BY <1>1, <2>2 DEF TypeInv
    <2>4. PICK x, r : Enters(w, x, r) /\ r.next = "cascade"
      BY <1>1, <2>3, ReblockEnters
    <2>5. x = u /\ r.new = new
      BY <2>3, <2>4, EntersKeeps
    <2>6. MayRun(u)
      BY <1>4 DEF MayRun, May
    <2> QED  BY <1>1, <1>2, <2>1, <2>4, <2>5, <2>6
  <1>5. CASE StatusOf(u) = "blocked"
    <2>1. ~MayRun(u)
      BY <1>1, <1>3, <1>5, Alone DEF MayRun
    <2>2. UNCHANGED <<clock, alive>>
      BY DEF Reblock
    <2>3. UNCHANGED <<journal, stage, taskLock, pc>> /\ file' = Rebuilt({u})
      BY <1>2, <1>5
    <2>4. Quiet
      BY <1>1, <2>2, <2>3, StagesNothing DEF Step
    <2> QED  BY <1>1, <1>2, <2>1, <2>3, <2>4
  <1> QED  BY <1>4, <1>5

\* A reopening leaves its intent first.
LEMMA RecordIntentMay ==
    ASSUME IInv, NEW w \in Worker, RecordIntent(w)
    PROVE  LET t == call[w].task IN
             /\ t \in Task /\ intents' = intents \cup {t} /\ depLock = w /\ stage[w] = None /\ pc[w] = "lock"
             /\ call' = call /\ call[w].op = "reopen"
             /\ cascade' = [cascade EXCEPT ![w] = [root |-> t, cur |-> t, rest |-> Dependents(t), todo |-> {}]]
             /\ \/ \E r : Enters(w, t, r) /\ MayRun(t) /\ r.next = "cascade"
                \/ Quiet /\ stage' = stage
  <1> DEFINE t == call[w].task
  <1>1. /\ t \in Task /\ call[w].op = "reopen" /\ depLock = w /\ stage[w] = None /\ pc[w] = "lock" /\ TypeInv
    BY DEF RecordIntent, IInv, Control, StepOf, Staging, UsesDepLock, CallRecord
  <1>2. /\ intents' = intents \cup {t} /\ UNCHANGED <<call, clock, alive>>
        /\ cascade' = [cascade EXCEPT ![w] = [root |-> t, cur |-> t, rest |-> Dependents(t), todo |-> {}]]
    BY DEF RecordIntent
  <1>3. StatusOf(t) \in Terminal \/ stage' = stage
    BY DEF RecordIntent, StatusOf
  <1>4. CASE \E r : Enters(w, t, r) /\ r.next = "cascade"
    <2>1. stage' # stage
      BY <1>1, <1>4, EntersKeeps
    <2>2. MayRun(t)
      BY <1>3, <2>1 DEF MayRun, May, Terminal
    <2> QED  BY <1>1, <1>2, <1>4, <2>2
  <1>5. CASE UNCHANGED <<journal, stage, taskLock>> /\ \E ts : file' = Rebuilt(ts)
    <2>1. Quiet
      BY <1>1, <1>2, <1>5, StagesNothing DEF Step
    <2> QED  BY <1>1, <1>2, <1>5, <2>1
  <1> QED  BY <1>4, <1>5, RecordIntentEnters

\* These are the steps that stage a record.
LEMMA Stagers ==
    ASSUME IInv, [Next]_vars, NEW w \in Worker, NEW u, NEW r, Enters(w, u, r)
    PROVE  Change(w) \/ RecordIntent(w) \/ Unblock(w) \/ Reblock(w)
  <1>1. stage'[w] # None /\ stage[w] = None /\ TypeInv /\ (pc[w] \in Staging <=> stage[w] # None)
    BY EntersKeeps DEF IInv, Control, StepOf
  <1>2. ASSUME NEW v \in Worker, Calls(v) \/ Step(v) \/ Kill(v) \/ WorkerDies(v)
        PROVE  v = w
    BY <1>1, <1>2, StepsAreLocal DEF Local
  <1>3. ~(Calls(w) \/ Kill(w) \/ WorkerDies(w) \/ Tick \/ UNCHANGED vars)
    BY <1>1 DEF Calls, Call, Kill, WorkerDies, Tick, vars, TypeInv
  <1>4. ~(TakeDepLock(w) \/ Reconcile(w) \/ Refuse(w) \/ CallFails(w) \/ ReblockNext(w) \/ CascadeFails(w)
          \/ Return(w))
    BY <1>1 DEF TakeDepLock, Reconcile, Refuse, CallFails, ReblockNext, CascadeFails, Return, TypeInv
  <1>5. ~(AppendReopening(w) \/ Write(w) \/ WriteFails(w) \/ RevertJournal(w) \/ Rewrite(w))
    BY <1>1 DEF AppendReopening, Write, WriteFails, RevertJournal, Rewrite, Staging
  <1>6. Step(w)
    BY <1>2, <1>3 DEF Next
  <1> QED  BY <1>4, <1>5, <1>6 DEF Step

\* A task that might not run comes to run under the dependency lock, when it is ready.
LEMMA RunGrows ==
    ASSUME IInv, RestInv, [Next]_vars, NEW t \in Task, MayRun(t)', ~MayRun(t)
    PROVE  \E w \in Worker : /\ depLock = w /\ stage[w] = None /\ pc[w] \in {"lock", "unblock"}
                             /\ stage'[w] # None /\ stage'[w].next # "cascade" /\ Ready(t)
  <1>1. ~Quiet
    BY QuietMay DEF MayRun
  <1>w. PICK w \in Worker : \E u, r : Enters(w, u, r)
    BY <1>1, StepKinds, CommitMay DEF MayRun
  <1>2. PICK u, r : Enters(w, u, r)
    BY <1>w
  <1>3. stage'[w] = r /\ stage[w] = None /\ u = t /\ r # None /\ r.task = u
    BY <1>2, EntersMay, EntersKeeps DEF MayRun
  <1>4. CASE Change(w)
    <2>1. PICK q : LET x == call[w].task IN
             Enters(w, x, q) /\ q.next # "cascade" /\ (MayRun(x) \/ (depLock = w /\ Ready(x)))
      BY <1>4, ChangeMay
    <2>2. q = r /\ call[w].task = t
      BY <1>3, <2>1, EntersKeeps
    <2> QED  BY <1>3, <1>4, <2>1, <2>2 DEF Change
  <1>5. CASE Unblock(w)
    <2>1. PICK x, q : Enters(w, x, q) /\ q.next = "unblock" /\ Ready(x) /\ depLock = w
      BY <1>1, <1>5, UnblockMay
    <2>2. q = r /\ x = t
      BY <1>3, <2>1, EntersKeeps
    <2> QED  BY <1>3, <1>5, <2>1, <2>2 DEF Unblock
  <1>6. ~RecordIntent(w)
    <2>1. ASSUME RecordIntent(w)  PROVE \E x, q : Enters(w, x, q) /\ MayRun(x)
      BY <1>1, <2>1, RecordIntentMay
    <2> QED  BY <1>3, <2>1, EntersKeeps
  <1>7. ~Reblock(w)
    <2>1. ASSUME Reblock(w)  PROVE \E x, q : Enters(w, x, q) /\ MayRun(x)
      BY <1>1, <2>1, ReblockMay
    <2> QED  BY <1>3, <2>1, EntersKeeps
  <1> QED  BY <1>2, <1>4, <1>5, <1>6, <1>7, Stagers

\* A completed task comes to lack its completion with an intent, or in a cascade.
LEMMA LackGrows ==
    ASSUME IInv, RestInv, [Next]_vars, NEW t \in Task, MayLack(t)', ~MayLack(t)
    PROVE  \/ t \in intents'
           \/ \E w \in Worker : depLock = w /\ pc[w] = "cascade" /\ t \in cascade[w].rest
  <1>1. ~Quiet
    BY QuietMay DEF MayLack
  <1>w. PICK w \in Worker : \E u, r : Enters(w, u, r)
    BY <1>1, StepKinds, CommitMay DEF MayLack
  <1>2. PICK u, r : Enters(w, u, r)
    BY <1>w
  <1>3. u = t
    BY <1>2, EntersMay DEF MayLack
  <1>4. ~Change(w)
    <2>1. ASSUME Change(w)  PROVE \E q : Enters(w, call[w].task, q) /\ MayLack(call[w].task)
      BY <2>1, ChangeMay
    <2> QED  BY <1>2, <1>3, <2>1, EntersKeeps
  <1>5. ~Unblock(w)
    <2>1. ASSUME Unblock(w)  PROVE \E x, q : Enters(w, x, q) /\ StatusOf(x) = "blocked"
      BY <1>1, <2>1, UnblockMay
    <2> QED  BY <1>2, <1>3, <2>1, EntersKeeps DEF MayLack, May
  <1>6. CASE RecordIntent(w)
    <2>1. PICK q : Enters(w, call[w].task, q)
      BY <1>1, <1>6, RecordIntentMay
    <2>2. call[w].task = t
      BY <1>2, <1>3, <2>1, EntersKeeps
    <2> QED  BY <1>6, <2>2 DEF RecordIntent
  <1>7. CASE Reblock(w)
    <2>r. PICK x \in cascade[w].rest : \E q : Enters(w, x, q)
      BY <1>1, <1>7, ReblockMay
    <2>1. PICK q : Enters(w, x, q)
      BY <2>r
    <2>2. x = t
      BY <1>2, <1>3, <2>1, EntersKeeps
    <2> QED  BY <1>7, <2>1, <2>2, ReblockMay
  <1> QED  BY <1>2, <1>4, <1>5, <1>6, <1>7, Stagers

\* An intent goes when its cascade is through, or its task is completed again.
LEMMA IntentsShrink ==
    ASSUME IInv, RestInv, [Next]_vars, NEW t \in intents, t \notin intents'
    PROVE  ~MayLack(t) \/ \A u \in Dependents(t) : ~MayRun(u)
  <1>1. PICK w \in Worker : Reconcile(w) \/ ReblockNext(w)
    <2>1. ~(Tick \/ UNCHANGED vars)
      BY DEF Tick, vars, store
    <2>2. PICK w \in Worker : Calls(w) \/ Step(w) \/ Kill(w) \/ WorkerDies(w)
      BY <2>1 DEF Next
    <2>3. ~(Calls(w) \/ Kill(w) \/ WorkerDies(w) \/ TakeDepLock(w) \/ Refuse(w) \/ CallFails(w)
            \/ CascadeFails(w) \/ Return(w) \/ RecordIntent(w))
      BY DEF Calls, Call, Kill, WorkerDies, TakeDepLock, Refuse, CallFails, CascadeFails, Return, store,
             RecordIntent
    <2>4. ~(AppendReopening(w) \/ Write(w) \/ WriteFails(w) \/ RevertJournal(w) \/ Rewrite(w))
      BY DEF AppendReopening, Write, WriteFails, RevertJournal, Rewrite
    <2>5. ~(Change(w) \/ Unblock(w) \/ Reblock(w))
      BY Zenon DEF Change, Unblock, Reblock
    <2> QED  BY <2>2, <2>3, <2>4, <2>5 DEF Step
  <1>2. /\ depLock = w /\ stage[w] = None /\ TypeInv
    BY <1>1 DEF Reconcile, ReblockNext, IInv, Control, StepOf, Staging
  <1>3. CASE Reconcile(w)
    <2>1. StatusOf(t) = "completed" /\ t \in Task
      BY <1>2, <1>3 DEF Reconcile, TypeInv
    <2> QED  BY <1>2, <2>1, Alone DEF MayLack
  <1>4. CASE ReblockNext(w)
    <2>1. t = cascade[w].root /\ cascade[w].rest = {} /\ Cascading(w)
      BY <1>4 DEF ReblockNext, Cascading
    <2> QED  BY <1>2, <2>1 DEF RestInv, CascadeOf
  <1> QED  BY <1>1, <1>3, <1>4

\* In a flat graph nothing rests on what a cascade blocks.
LEMMA RestsStep ==
    ASSUME Flat, IInv, RestInv, [Next]_vars
    PROVE  Rests'
  <1> SUFFICES ASSUME NEW u \in Task, NEW d \in Deps[u], MayRun(u)', MayLack(d)'
               PROVE  d \in intents'
    BY DEF Rests
  <1>1. d \in Task /\ u \in Dependents(d)
    BY TaskAssumption DEF Dependents
  <1>2. ~MayRun(u) => ~MayLack(d) /\ \E w \in Worker : depLock = w /\ pc[w] # "cascade"
    <2> SUFFICES ASSUME ~MayRun(u)
                 PROVE  ~MayLack(d) /\ \E w \in Worker : depLock = w /\ pc[w] # "cascade"
      OBVIOUS
    <2>1. PICK w \in Worker : depLock = w /\ stage[w] = None /\ pc[w] \in {"lock", "unblock"} /\ Ready(u)
      BY RunGrows
    <2> QED  BY <1>1, <2>1, Alone DEF Ready, MayLack
  <1>3. ~MayLack(d) => \/ d \in intents'
                       \/ \E w \in Worker : depLock = w /\ pc[w] = "cascade" /\ d \in cascade[w].rest
    BY <1>1, LackGrows
  <1>4. CASE ~MayRun(u)
    BY <1>2, <1>3, <1>4
  <1>5. CASE MayRun(u) /\ ~MayLack(d)
    <2>1. ASSUME NEW w \in Worker, pc[w] = "cascade", d \in cascade[w].rest
          PROVE  FALSE
      <3>1. d \in Dependents(cascade[w].root) /\ cascade[w].root \in Task
        BY <2>1 DEF RestInv, CascadeOf, Cascading, IInv, Control, StepOf, CascadeRecord
      <3> QED  BY <1>1, <3>1, FlatGraph
    <2> QED  BY <1>3, <1>5, <2>1
  <1>6. CASE MayRun(u) /\ MayLack(d)
    <2>1. d \in intents
      BY <1>6 DEF RestInv, Rests
    <2> QED  BY <1>1, <1>6, <2>1, IntentsShrink
  <1> QED  BY <1>4, <1>5, <1>6

\* No task comes to run during a cascade, or before a reopening returns.
LEMMA Calm ==
    ASSUME IInv, RestInv, [Next]_vars, NEW v \in Worker, NEW u \in Task, MayRun(u)',
           Cascading(v) \/ (pc[v] = "ok" /\ call[v].op = "reopen")
    PROVE  MayRun(u)
  <1> SUFFICES ASSUME ~MayRun(u) PROVE FALSE
    OBVIOUS
  <1>1. PICK w \in Worker : depLock = w /\ stage[w] = None /\ pc[w] \in {"lock", "unblock"}
    BY RunGrows
  <1>2. depLock = v
    BY DEF Cascading, IInv, Control, StepOf, StageOf, UsesDepLock, Staging
  <1> QED  BY <1>1, <1>2 DEF Cascading

\* Steps that leave a cascade alone, and the first step of one.
LEMMA CascadeStays ==
    ASSUME IInv, RestInv, [Next]_vars, NEW v \in Worker, Cascading(v),
           stage'[v] = stage[v], cascade'[v] = cascade[v], call'[v] = call[v], pending'[v] = pending[v]
    PROVE  CascadeOf(v)'
  <1>1. CascadeOf(v)
    BY DEF RestInv
  <1>2. \A u \in Dependents(cascade[v].root) : MayRun(u)' => MayRun(u)
    BY Calm DEF Dependents
  <1> QED  BY <1>1, <1>2 DEF CascadeOf, Reconciling

LEMMA CascadeStarts ==
    ASSUME NEW w, NEW t, stage'[w] = None \/ stage'[w].task = t,
           cascade'[w] = [root |-> t, cur |-> t, rest |-> Dependents(t), todo |-> {}],
           Reconciling(w)' \/ t = call'[w].task
    PROVE  CascadeOf(w)'
  BY DEF CascadeOf

\* A commit of a cascade: the record is in the file, and what rests on the root has one task less.
LEMMA CascadeWrites ==
    ASSUME Flat, IInv, RestInv, [Next]_vars, NEW w \in Worker, Write(w), Cascading(w)'
    PROVE  CascadeOf(w)'
  <1> DEFINE s == stage[w]
             k == cascade[w]
  <1>1. /\ s # None /\ s \in StageRecord /\ TypeInv /\ Records /\ taskLock[s.task] = w
        /\ \A v \in Worker : stage[v] # None => taskLock[stage[v].task] = v
    BY DEF Write, IInv, Control, StepOf, Staging, Commits, CommitOf, TypeInv
  <1>2. /\ stage' = [stage EXCEPT ![w] = None] /\ pc'[w] = s.next /\ cascade' = Follow(w)
        /\ file' = [file EXCEPT ![s.task] = s.new] /\ UNCHANGED <<call, pending>>
    BY <1>1 DEF Write, Unlock, TypeInv
  <1>3. s.next = "cascade" /\ stage'[w] = None
    BY <1>1, <1>2 DEF Cascading, TypeInv
  <1>4. CascadeOf(w) /\ Cascading(w) /\ k \in CascadeRecord
    BY <1>1, <1>3 DEF RestInv, Cascading, IInv, Control, StageOf
  <1>5. /\ cascade'[w].root = k.root /\ cascade'[w].rest = k.rest
        /\ cascade'[w].todo = IF s.task # k.root THEN k.todo \cup {s.task} ELSE k.todo
    BY <1>1, <1>2, <1>3, <1>4 DEF Follow, TypeInv, CascadeRecord
  <1>6. ASSUME NEW u \in Dependents(k.root), MayRun(u)'
        PROVE  u \in k.rest
    <2>1. u \in Task /\ k.root \in Task /\ u # k.root
      BY <1>4, FlatGraph DEF CascadeRecord
    <2>2. MayRun(u)
      BY <1>4, <1>6, <2>1, Calm
    <2>3. s.task # u
      <3> SUFFICES ASSUME s.task = u PROVE FALSE
        OBVIOUS
      <3>1. s.new.status = "blocked" /\ s.new # None
        BY <1>1, <1>4, <2>1, NoneIsNone DEF CascadeOf, StageRecord
      <3>2. StatusOf(u)' = "blocked"
        BY <1>1, <1>2, <2>1, <3>1 DEF StatusOf, Current, TypeInv
      <3>3. ASSUME NEW v \in Worker, stage'[v] # None, stage'[v].task = u
            PROVE  FALSE
        BY <1>1, <1>2, <3>3 DEF TypeInv
      <3> QED  BY <1>6, <3>2, <3>3 DEF MayRun, May
    <2> QED  BY <1>1, <1>4, <2>2, <2>3 DEF CascadeOf
  <1> QED  BY <1>1, <1>2, <1>3, <1>4, <1>5, <1>6 DEF CascadeOf, Reconciling

\* A dependent has been visited.
LEMMA CascadeVisits ==
    ASSUME Flat, IInv, RestInv, [Next]_vars, NEW w \in Worker, Reblock(w)
    PROVE  CascadeOf(w)'
  <1> DEFINE k == cascade[w]
  <1>1. /\ stage[w] = None /\ pc[w] = "cascade" /\ TypeInv /\ k \in CascadeRecord /\ Cascading(w)
        /\ CascadeOf(w) /\ UNCHANGED <<call, pending>>
    BY Zenon, ReblockMay DEF Reblock, IInv, Control, StepOf, Cascading, RestInv
  <1>2. PICK u \in k.rest :
          /\ cascade' = Visited(w, u)
          /\ \/ \E r : Enters(w, u, r) /\ r.new.status = "blocked" /\ r.next = "cascade"
             \/ ~MayRun(u) /\ stage' = stage /\ pc' = pc
    BY ReblockMay
  <1>3. /\ cascade'[w].root = k.root /\ cascade'[w].rest = k.rest \ {u} /\ cascade'[w].todo = k.todo
    BY <1>1, <1>2 DEF Visited, TypeInv, CascadeRecord
  <1>4. u \in Dependents(k.root) /\ u \in Task
    BY <1>1 DEF CascadeOf, CascadeRecord
  <1>5. \A x \in Dependents(k.root) : MayRun(x)' => MayRun(x)
    BY <1>1, Calm DEF Dependents
  <1>6. CASE \E r : Enters(w, u, r) /\ r.new.status = "blocked" /\ r.next = "cascade"
    <2>1. stage'[w] # None /\ stage'[w].task = u /\ stage'[w].new.status = "blocked"
      BY <1>6, EntersKeeps
    <2> QED  BY <1>1, <1>3, <1>4, <1>5, <2>1 DEF CascadeOf, Reconciling
  <1>7. CASE ~MayRun(u) /\ stage' = stage /\ pc' = pc
    BY <1>1, <1>3, <1>4, <1>5, <1>7 DEF CascadeOf, Reconciling
  <1> QED  BY <1>2, <1>6, <1>7

\* The parts of the invariant, step by step.
LEMMA CascadeStep ==
    ASSUME Flat, IInv, RestInv, [Next]_vars, NEW v \in Worker, Cascading(v)'
    PROVE  CascadeOf(v)'
  <1>t. TypeInv /\ (pc[v] \in Staging <=> stage[v] # None)
    BY DEF IInv, Control, StepOf
  <1>s. ASSUME pc'[v] = pc[v], stage'[v] = stage[v], cascade'[v] = cascade[v], call'[v] = call[v],
               pending'[v] = pending[v]
        PROVE  CascadeOf(v)'
    BY <1>s, CascadeStays DEF Cascading
  <1>1. CASE Tick \/ UNCHANGED vars
    BY <1>1, <1>s DEF Tick, vars
  <1>2. ASSUME NEW w \in Worker, w # v, Calls(w) \/ Step(w) \/ Kill(w) \/ WorkerDies(w)
        PROVE  CascadeOf(v)'
    BY <1>2, <1>s, <1>t, StepsAreLocal DEF Local
  <1>3. ASSUME WorkerDies(v)  PROVE CascadeOf(v)'
    BY <1>3, <1>s DEF WorkerDies
  <1>4. ASSUME AppendReopening(v) \/ WriteFails(v) \/ RevertJournal(v)  PROVE CascadeOf(v)'
    <2>1. /\ stage'[v] = stage[v] /\ cascade'[v] = cascade[v] /\ call'[v] = call[v] /\ pending'[v] = pending[v]
          /\ pc'[v] \in Staging /\ pc[v] \in Staging
      BY <1>4, <1>t DEF AppendReopening, WriteFails, RevertJournal, Staging, TypeInv
    <2>2. Cascading(v)
      BY <2>1, <1>t DEF Cascading, Staging
    <2> QED  BY <2>1, <2>2, CascadeStays
  <1>5. ~(Calls(v) \/ Kill(v) \/ TakeDepLock(v) \/ Refuse(v) \/ CallFails(v) \/ CascadeFails(v) \/ Return(v))
    BY <1>t DEF Calls, Call, Kill, TakeDepLock, Refuse, CallFails, CascadeFails, Return, Cascading, TypeInv, Staging
  <1>6. ~Rewrite(v)
    <2>1. ASSUME Rewrite(v)  PROVE stage[v] \in StageRecord /\ pc'[v] = stage[v].fail /\ stage'[v] = None
      BY <1>t, <2>1 DEF Rewrite, Unlock, Staging, TypeInv
    <2> QED  BY <2>1 DEF Cascading, StageRecord
  <1>7. ~Change(v)
    <2>1. ASSUME Change(v)  PROVE stage'[v].next # "cascade" /\ pc'[v] = "write"
      <3>1. \E q : Enters(v, call[v].task, q) /\ q.next # "cascade"
        BY <2>1, ChangeMay
      <3>2. pc' = [pc EXCEPT ![v] = "write"]
        BY <2>1 DEF Change, Commit
      <3> QED  BY <1>t, <3>1, <3>2, EntersKeeps DEF TypeInv
    <2> QED  BY <2>1 DEF Cascading
  <1>8. ~Unblock(v)
    <2>1. ASSUME Unblock(v)
          PROVE  (stage'[v] = None \/ stage'[v].next # "cascade") /\ pc'[v] # "cascade"
      <3>1. pc[v] = "unblock" /\ stage[v] = None
        BY <1>t, <2>1 DEF Unblock, Staging
      <3>2. CASE \E x, q : Enters(v, x, q) /\ q.next = "unblock"
        <4>1. PICK x, q : Enters(v, x, q) /\ q.next = "unblock"
          BY <3>2
        <4>2. pc'[v] \in {"append", "write"} /\ stage'[v] = q
          BY <1>t, <4>1, EntersKeeps DEF Enters, TypeInv
        <4> QED  BY <4>1, <4>2
      <3>3. CASE UNCHANGED stage /\ (pc' = pc \/ pc' = [pc EXCEPT ![v] = "ok"])
        BY <1>t, <3>1, <3>3 DEF TypeInv
      <3> QED  BY <2>1, <3>2, <3>3, UnblockEnters
    <2> QED  BY <2>1 DEF Cascading
  <1>9. ASSUME RecordIntent(v)  PROVE CascadeOf(v)'
    <2> DEFINE t == call[v].task
    <2>1. /\ stage[v] = None /\ call' = call
          /\ cascade' = [cascade EXCEPT ![v] = [root |-> t, cur |-> t, rest |-> Dependents(t), todo |-> {}]]
          /\ (stage' = stage \/ \E r : Enters(v, t, r))
      BY <1>9, RecordIntentMay
    <2>2. stage'[v] = None \/ stage'[v].task = t
      BY <2>1, EntersKeeps
    <2> QED  BY <1>t, <2>1, <2>2, CascadeStarts DEF TypeInv
  <1>10. ASSUME Reconcile(v)  PROVE CascadeOf(v)'
    <2>1. stage'[v] = None /\ pc'[v] = "cascade"
      BY <1>10, <1>t DEF Reconcile, Staging, Cascading
    <2>2. PICK i \in pending[v] :
            /\ cascade' = [cascade EXCEPT ![v] = [root |-> i, cur |-> i, rest |-> Dependents(i), todo |-> {}]]
            /\ UNCHANGED pending
      BY <1>10, <1>t, <2>1 DEF Reconcile, TypeInv
    <2> QED  BY <1>t, <2>1, <2>2, CascadeStarts DEF TypeInv, Reconciling
  <1>11. ASSUME ReblockNext(v)  PROVE CascadeOf(v)'
    <2>1. /\ stage[v] = None /\ stage'[v] = None /\ call' = call /\ pc[v] = "cascade" /\ cascade[v].rest = {}
          /\ pc'[v] = "cascade" /\ CascadeOf(v) /\ Cascading(v) /\ cascade[v] \in CascadeRecord
      BY <1>11, <1>t DEF ReblockNext, Staging, Cascading, RestInv, IInv, Control, StepOf
    <2>2. PICK u \in cascade[v].todo :
            /\ cascade' = [cascade EXCEPT ![v].todo = @ \ {u}, ![v].cur = u, ![v].rest = Dependents(u)]
            /\ UNCHANGED pending
      BY <1>11, <1>t, <2>1 DEF ReblockNext, TypeInv
    <2>3. Dependents(u) = {}
      BY <2>1, FlatGraph DEF CascadeOf, CascadeRecord
    <2>4. /\ cascade'[v].root = cascade[v].root /\ cascade'[v].rest = {}
          /\ cascade'[v].todo \subseteq cascade[v].todo
      BY <1>t, <2>1, <2>2, <2>3 DEF TypeInv, CascadeRecord
    <2>5. \A x \in Dependents(cascade[v].root) : MayRun(x)' => MayRun(x)
      BY <2>1, Calm DEF Dependents
    <2> QED  BY <2>1, <2>2, <2>4, <2>5 DEF CascadeOf, Reconciling
  <1>12. CASE Next
    BY <1>1, <1>2, <1>3, <1>4, <1>5, <1>6, <1>7, <1>8, <1>9, <1>10, <1>11, <1>12, CascadeWrites, CascadeVisits
       DEF Next, Step
  <1> QED  BY <1>1, <1>12

LEMMA PlainStep ==
    ASSUME IInv, RestInv, [Next]_vars, NEW v \in Worker
    PROVE  PlainOf(v)'
  <1> DEFINE Plain == {"pending", "in_progress", "failed"}
  <1> SUFFICES ASSUME stage'[v] # None, ~UsesDepLock(call'[v].op), NEW t, t = stage'[v].task
               PROVE  StatusOf(t)' \in Plain /\ stage'[v].new.status \in Plain /\ stage'[v].prev.status \in Plain
    <2>1. ASSUME NEW t, t = stage'[v].task  PROVE StatusOf(t)' = StatusOf(stage[v].task)'
      BY <2>1 DEF StatusOf, Current
    <2> QED  BY <2>1 DEF PlainOf
  <1>t. /\ TypeInv /\ Records /\ Control /\ Commits /\ (pc[v] \in Staging <=> stage[v] # None)
        /\ \A w \in Worker : stage[w] # None => taskLock[stage[w].task] = w
    BY DEF IInv, Control, StepOf, Commits, CommitOf
  <1>s. ASSUME stage'[v] = stage[v], call'[v] = call[v], StatusOf(t)' = StatusOf(t)
        PROVE  StatusOf(t)' \in Plain /\ stage'[v].new.status \in Plain /\ stage'[v].prev.status \in Plain
    <2>1. PlainOf(v)
      BY DEF RestInv
    <2> QED  BY <1>s, <2>1 DEF PlainOf
  <1>0. stage'[v] = stage[v] => t \in Task
    BY <1>t DEF TypeInv, StageRecord
  <1>1. CASE Quiet
    <2>1. stage'[v] = stage[v] /\ call'[v] = call[v] /\ t \in Task
      BY <1>0, <1>1 DEF Quiet
    <2>2. Current(t)' = Current(t)
      BY <1>1, <1>t, <2>1, RebuiltKeeps DEF Quiet
    <2> QED  BY <1>s, <2>1, <2>2 DEF StatusOf
  <1>2. ASSUME NEW w \in Worker, NEW u, NEW r, Enters(w, u, r), w # v
        PROVE  stage'[v] = stage[v] /\ call'[v] = call[v] /\ StatusOf(t)' = StatusOf(t)
    <2>1. stage'[v] = stage[v]
      BY <1>2, EntersKeeps
    <2>2. call' = call
      BY <1>2 DEF Enters
    <2> QED  BY <1>0, <1>2, <2>1, <2>2, EntersKeeps
  <1>3. ASSUME NEW r, Enters(v, t, r)
        PROVE  StatusOf(t)' \in Plain /\ r.new.status \in Plain /\ r.prev.status \in Plain
    <2>1. t \in Task /\ StatusOf(t)' = StatusOf(t) /\ stage'[v] = r
      BY <1>3, EntersKeeps
    <2>0. call' = call
      BY <1>3 DEF Enters
    <2>2. Change(v)
      <3>1. RecordIntent(v) => UsesDepLock(call[v].op)
        BY DEF RecordIntent, UsesDepLock
      <3>2. Unblock(v) \/ Reblock(v) => pc[v] \in {"unblock", "cascade"}
        BY Zenon DEF Unblock, Reblock
      <3> QED  BY <1>3, <1>t, <2>0, <3>1, <3>2, Stagers DEF Control, StepOf
    <2>3. PICK q : LET x == call[v].task IN
             /\ Enters(v, x, q) /\ StatusOf(x) = "in_progress"
             /\ {q.new.status, q.prev.status} \subseteq Plain
      BY <2>0, <2>2, ChangeMay
    <2>4. q = r /\ call[v].task = t
      BY <1>3, <2>3, EntersKeeps
    <2> QED  BY <2>1, <2>3, <2>4
  <1>4. ASSUME NEW w \in Worker,
               AppendReopening(w) \/ Write(w) \/ WriteFails(w) \/ RevertJournal(w) \/ Rewrite(w)
        PROVE  StatusOf(t)' \in Plain /\ stage'[v].new.status \in Plain /\ stage'[v].prev.status \in Plain
    <2>1. PICK x \in Task, s \in StageRecord :
             /\ s = stage[w] /\ x = s.task /\ s # None
             /\ \A u \in Task \ {x} : file'[u] = file[u] /\ journal'[u] = journal[u]
             /\ \A y \in Worker \ {w} : stage'[y] = stage[y]
             /\ call' = call
             /\ Current(x)' \in {Current(x), s.new, Reverted(w)}
      BY <1>4, CommitSteps
    <2>2. CASE v # w
      <3>1. stage'[v] = stage[v] /\ t \in Task /\ t # x
        BY <1>0, <1>t, <2>1, <2>2
      <3>2. StatusOf(t)' = StatusOf(t)
        BY <2>1, <3>1 DEF StatusOf, Current
      <3> QED  BY <1>s, <2>1, <3>1, <3>2
    <2>3. CASE v = w
      <3>1. stage'[v] = stage[v] /\ x = t
        BY <1>4, <1>t, <2>1, <2>3 DEF AppendReopening, Write, WriteFails, RevertJournal, Rewrite, Unlock, TypeInv
      <3>2. StatusOf(t) \in Plain /\ s.new.status \in Plain /\ s.prev.status \in Plain
        BY <2>1, <2>3, <3>1 DEF RestInv, PlainOf
      <3>3. Reverted(w).status \in Plain
        <4>1. stage[w] # None /\ stage[w].prev = s.prev
          BY <2>1
        <4> QED  BY <1>t, <3>2, <4>1, RevertedStatus
      <3>4. StatusOf(t)' \in Plain
        BY <2>1, <3>1, <3>2, <3>3 DEF StatusOf
      <3> QED  BY <2>1, <2>3, <3>1, <3>2, <3>4
    <2> QED  BY <2>2, <2>3
  <1>5. CASE \E w \in Worker : \E u, r : Enters(w, u, r)
    <2>w. PICK w \in Worker : \E u, r : Enters(w, u, r)
      BY <1>5
    <2>1. PICK u, r : Enters(w, u, r)
      BY <2>w
    <2>2. CASE w = v
      <3>1. stage'[v] = r /\ t = u
        BY <2>1, <2>2, EntersKeeps
      <3> QED  BY <1>3, <2>1, <2>2, <3>1
    <2> QED  BY <1>2, <1>s, <2>1, <2>2
  <1> QED  BY <1>1, <1>4, <1>5, StepKinds

LEMMA ReachedStep ==
    ASSUME IInv, RestInv, [Next]_vars, NEW v \in Worker
    PROVE  ReachedOf(v)'
  <1> SUFFICES ASSUME pc'[v] = "ok", call'[v].op = "reopen", NEW u \in Dependents(call'[v].task), MayRun(u)'
               PROVE  FALSE
    BY DEF ReachedOf
  <1>t. TypeInv /\ (pc[v] \in Staging <=> stage[v] # None) /\ StepOf(v) /\ StageOf(v) /\ u \in Task
    BY DEF IInv, Control, StepOf, Dependents
  <1>s. ~(pc[v] = "ok" /\ call'[v] = call[v])
    <2> SUFFICES ASSUME pc[v] = "ok", call'[v] = call[v] PROVE FALSE
      OBVIOUS
    <2>1. MayRun(u)
      BY <1>t, Calm
    <2> QED  BY <2>1 DEF RestInv, ReachedOf
  <1>1. ~(Tick \/ UNCHANGED vars)
    BY <1>s DEF Tick, vars
  <1>2. ASSUME NEW w \in Worker, Calls(w) \/ Step(w) \/ Kill(w) \/ WorkerDies(w)  PROVE w = v
    BY <1>2, <1>s, <1>t, StepsAreLocal DEF Local
  <1>3. ~(Calls(v) \/ Kill(v) \/ WorkerDies(v) \/ TakeDepLock(v) \/ Refuse(v) \/ CallFails(v)
          \/ CascadeFails(v) \/ Return(v) \/ RecordIntent(v) \/ Reconcile(v))
    BY <1>s, <1>t DEF Calls, Call, Kill, WorkerDies, TakeDepLock, Refuse, CallFails, CascadeFails, Return,
         RecordIntent, Reconcile, TypeInv
  <1>4. ~(AppendReopening(v) \/ WriteFails(v) \/ RevertJournal(v))
    BY <1>t DEF AppendReopening, WriteFails, RevertJournal, TypeInv
  <1>5. ~Change(v)
    <2>1. Change(v) => pc' = [pc EXCEPT ![v] = "write"]
      BY DEF Change, Commit
    <2> QED  BY <1>t, <2>1 DEF TypeInv
  <1>6. ~Unblock(v)
    <2>1. Unblock(v) => pc[v] = "unblock" /\ call' = call
      BY Zenon DEF Unblock
    <2> QED  BY <1>t, <2>1 DEF StepOf
  <1>7. ~Reblock(v)
    <2>1. Reblock(v) => pc[v] = "cascade" /\ (pc' = pc \/ pc' = [pc EXCEPT ![v] = "write"])
      BY Zenon DEF Reblock, Commit
    <2> QED  BY <1>t, <2>1 DEF TypeInv
  <1>8. ~(Write(v) \/ Rewrite(v))
    <2>1. Write(v) \/ Rewrite(v) => /\ stage[v] \in StageRecord /\ stage[v] # None /\ call' = call
                                    /\ Write(v) => pc'[v] = stage[v].next
                                    /\ Rewrite(v) => pc'[v] = stage[v].fail
      BY <1>t DEF Write, Rewrite, Staging, TypeInv
    <2>2. ASSUME Write(v)  PROVE FALSE
      BY <1>t, <2>1, <2>2 DEF StageOf
    <2>3. ASSUME Rewrite(v)  PROVE FALSE
      BY <2>1, <2>3 DEF StageRecord
    <2> QED  BY <2>2, <2>3
  <1>9. ~ReblockNext(v)
    <2> SUFFICES ASSUME ReblockNext(v) PROVE FALSE
      OBVIOUS
    <2>1. /\ stage[v] = None /\ Cascading(v) /\ CascadeOf(v) /\ cascade[v].rest = {} /\ call' = call
          /\ ~Reconciling(v)
      BY <1>t DEF ReblockNext, Staging, Cascading, RestInv, TypeInv
    <2>2. MayRun(u)
      BY <1>t, <2>1, Calm
    <2> QED  BY <2>1, <2>2 DEF CascadeOf
  <1> QED  BY <1>1, <1>2, <1>3, <1>4, <1>5, <1>6, <1>7, <1>8, <1>9 DEF Next, Step

\* Tasks are created blocked unless all they are blocked by is completed.
LEMMA RestInitially ==
    ASSUME Init
    PROVE  RestInv
  <1>1. PICK done \in SUBSET Task : /\ \A t \in done : Deps[t] \subseteq done
                                   /\ file = [t \in Task |-> Fresh(t, done)]
    BY DEF Init
  <1>2. /\ intents = {} /\ pc = [w \in Worker |-> "idle"] /\ stage = [w \in Worker |-> None]
    BY DEF Init
  <1>3. \A t \in Task : StatusOf(t) = Fresh(t, done).status
    BY <1>1, FreshShape, NoneIsNone DEF StatusOf, Current, Sound, WellFormed
  <1>4. ASSUME NEW u \in Task, NEW d \in Deps[u], MayRun(u), MayLack(d)
        PROVE  FALSE
    <2>1. d \in Task
      BY TaskAssumption
    <2>2. Fresh(u, done).status # "blocked" /\ Fresh(d, done).status # "completed"
      BY <1>2, <1>3, <1>4, <2>1 DEF MayRun, MayLack, May
    <2>3. d \notin done
      BY <2>2 DEF Fresh
    <2> QED  BY <1>1, <2>2, <2>3 DEF Fresh
  <1>5. \A w \in Worker : PlainOf(w) /\ CascadeOf(w) /\ ReachedOf(w)
    BY <1>2 DEF PlainOf, CascadeOf, Cascading, ReachedOf
  <1> QED  BY <1>4, <1>5 DEF RestInv, Rests

LEMMA RestInvariance ==
    ASSUME Flat
    PROVE  Spec => [](IInv /\ RestInv)
  <1>1. Init => IInv /\ RestInv
    BY Initially, RestInitially
  <1>2. IInv /\ RestInv /\ [Next]_vars => (IInv /\ RestInv)'
    <2> SUFFICES ASSUME IInv, RestInv, [Next]_vars PROVE IInv' /\ RestInv'
      OBVIOUS
    <2>1. IInv'
      BY TypeStep, RecordsStep, ControlStep, CommitsStep, GrantsStep DEF IInv
    <2>2. ASSUME NEW w \in Worker  PROVE CascadeOf(w)'
      BY CascadeStep DEF CascadeOf
    <2>3. ASSUME NEW w \in Worker  PROVE PlainOf(w)' /\ ReachedOf(w)'
      BY PlainStep, ReachedStep
    <2> QED  BY <2>1, <2>2, <2>3, RestsStep DEF RestInv
  <1> QED  BY <1>1, <1>2, PTL DEF Spec

\* A set of natural numbers has a least one.
LEMMA LeastExists ==
    ASSUME NEW T \in SUBSET Nat, T # {}
    PROVE  \E m \in T : \A n \in T : m <= n
  <1> DEFINE R == {p \in Nat \X Nat : p[1] < p[2]}
  <1>1. IsWellFoundedOn(R, Nat)
    BY NatLessThanWellFounded DEF OpToRel
  <1>2. \A n, m \in Nat : n < m => <<n, m>> \in R
    OBVIOUS
  <1> HIDE DEF R
  <1>3. PICK m \in T : \A n \in T : <<n, m>> \notin R
    BY <1>1, WFMin
  <1>4. ASSUME NEW n \in T  PROVE m <= n
    <2>1. ~(n < m)
      BY <1>2, <1>3
    <2> QED  BY <2>1
  <1> QED  BY <1>4

\* The recursion of Above is over after its first round.
LEMMA FlatAbove ==
    ASSUME Flat, NEW t \in Task
    PROVE  Above(t) = Dependents(t)
  <1> DEFINE top == Cardinality(Task)
             D == Dependents(t)
             More(s) == s \cup UNION {Dependents(u) : u \in s}
             reach == CHOOSE f : f = [n \in 0..top |-> IF n = 0 THEN D ELSE More(f[n - 1])]
  <1>1. top \in Nat
    BY TaskAssumption, FS_CardinalityType
  <1>2. More(D) = D
    BY FlatGraph
  <1>3. Above(t) = reach[top]
    BY Zenon DEF Above
  <1> HIDE DEF D, More, top
  <1>4. reach = [n \in 0..top |-> IF n = 0 THEN D ELSE More(reach[n - 1])]
    <2> DEFINE f == [n \in 0..top |-> D]
    <2>1. \A n \in 0..top : D = IF n = 0 THEN D ELSE More(f[n - 1])
      BY <1>1, <1>2
    <2>2. f = [n \in 0..top |-> IF n = 0 THEN D ELSE More(f[n - 1])]
      BY <2>1
    <2> HIDE DEF f
    <2> QED  BY <2>2
  <1> HIDE DEF reach
  <1>5. SUFFICES ASSUME NEW m \in 0..top, reach[m] # D, \A n \in 0..top : reach[n] # D => m <= n
                 PROVE  FALSE
    <2> DEFINE T == {n \in 0..top : reach[n] # D}
    <2>1. T \in SUBSET Nat
      BY <1>1
    <2>2. T # {} => \E m \in T : \A n \in T : m <= n
      <3> HIDE DEF T
      <3> QED  BY <2>1, LeastExists
    <2>3. T = {}
      BY <1>5, <2>2
    <2> QED  BY <1>1, <1>3, <2>3 DEF D
  <1>6. reach[m] = IF m = 0 THEN D ELSE More(reach[m - 1])
    BY <1>4
  <1>7. m # 0 /\ m - 1 \in 0..top /\ ~(m <= m - 1)
    BY <1>1, <1>5, <1>6
  <1>8. reach[m - 1] = D
    BY <1>5, <1>7
  <1> QED  BY <1>2, <1>5, <1>6, <1>7, <1>8

\* Where nobody waits for a task that waits itself, a task is worked on only while what it is
\* blocked by is completed, or an intent records that this is still to be put right.
THEOREM FlatRestsOnCompleted ==
    ASSUME Flat
    PROVE  Spec => []RestsOnCompleted
  <1>1. IInv /\ RestInv => RestsOnCompleted
    <2> SUFFICES ASSUME IInv, RestInv, NEW t \in Task, StatusOf(t) # "blocked",
                        NEW d \in Deps[t], StatusOf(d) # "completed"
                 PROVE  \E i \in intents : t \in Above(i)
      BY DEF RestsOnCompleted, Ready
    <2>1. d \in intents /\ d \in Task /\ t \in Dependents(d)
      BY TaskAssumption DEF RestInv, Rests, MayRun, MayLack, May, Dependents
    <2> QED  BY <2>1, FlatAbove
  <1> QED  BY <1>1, RestInvariance, PTL

\* There, nothing that rests on a reopened task is left unblocked when its reopening returns.
THEOREM FlatReopeningReachesAll ==
    ASSUME Flat
    PROVE  Spec => ReopeningReachesAll
  <1> DEFINE Reached == \A w \in Worker :
                 pc[w] = "ok" /\ pc'[w] = "idle" /\ faults' = faults /\ call[w].op = "reopen" =>
                    \A u \in Above(call[w].task) : StatusOf(u) = "blocked"
  <1>1. IInv /\ RestInv => Reached
    <2> SUFFICES ASSUME IInv, RestInv, NEW w \in Worker, pc[w] = "ok", call[w].op = "reopen",
                        NEW u \in Above(call[w].task)
                 PROVE  StatusOf(u) = "blocked"
      OBVIOUS
    <2>1. call[w].task \in Task
      BY DEF IInv, Control, StepOf, CallRecord
    <2> QED  BY <2>1, FlatAbove DEF RestInv, ReachedOf, MayRun, May
  <1>2. IInv /\ RestInv => [Reached]_vars
    BY <1>1
  <1> QED  BY <1>2, RestInvariance, PTL DEF ReopeningReachesAll
=============================================================================
