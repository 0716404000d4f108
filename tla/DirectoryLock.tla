--------------------------- MODULE DirectoryLock ---------------------------
(***************************************************************************)
(* The owner-fenced directory lock of src/src/runtime/atomic.ts, the one   *)
(* primitive every store of the CLI serialises its mutations with.         *)
(*                                                                         *)
(* The lock of a target is the directory `<target>.lock` holding one file, *)
(* owner.json.  Names and directories are kept apart here, because that is *)
(* where the protocol is subtle: the pathname is only a pointer, every     *)
(* rename moves the pointer, and the code re-checks inode and owner token  *)
(* after the fact.  Each file-system call of a helper process is one step. *)
(*                                                                         *)
(* A process that dies leaves its directory behind; its helper, a child    *)
(* process of its own, may go on to finish the call it was given.          *)
(***************************************************************************)
EXTENDS Naturals, FiniteSets

CONSTANTS
    Proc,        \* processes of the CLI that contend for one target
    Ino,         \* inodes the file system may give a lock directory
    NoIno,       \* "no such directory entry"
    Free,        \* an inode not in use
    Empty,       \* a lock directory without owner.json
    NoToken,     \* no owner evidence
    MaxOps,      \* bound: withDirectoryLock calls per process
    MaxFailure,  \* bound: processes killed, helpers killed, I/O errors in a publication
    Orphans,     \* TRUE when a helper may outlive its killed parent
    Heartbeat    \* TRUE when the caller passes heartbeatMs

\* owner.json's token, one per call and never guessed by another.
Token == Proc \X (0..MaxOps)

ASSUME MarkersAssumption == /\ NoIno \notin Ino
                            /\ Free \notin Token /\ Empty \notin Token /\ NoToken \notin Token
                            /\ Free # Empty /\ NoToken \notin {Free, Empty}
ASSUME BoundAssumption == /\ MaxOps \in Nat
                          /\ MaxFailure \in Nat
                          /\ Heartbeat \in BOOLEAN /\ Orphans \in BOOLEAN

VARIABLES
    owner,    \* what the directory of an inode holds: an owner token or one of the below
    name,     \* the inode `<target>.lock` names
    aside,    \* the inode a helper of p has just renamed away and is judging
    residue,  \* inodes left under a `.stale-` / `.release-` name by nobody at work
    pc,       \* where p is in withDirectoryLock
    ops,      \* calls p has begun; it also makes the owner token of a call unique
    seen,     \* the inode p's last lstat returned
    evidence, \* the dead owner's token p's last readLockOwner returned
    expired,  \* p's deadline has passed
    alive,    \* FALSE once p has been killed
    crashes,  \* processes killed so far
    faults    \* helper failures so far

vars == <<owner, name, aside, residue, pc, ops, seen, evidence, expired,
          alive, crashes, faults>>


\* The steps run by the helper, which outlives the death of its parent.
HelperPc == {"try", "made", "statted", "entered", "published", "failed",
             "cleanup", "reclaim", "judge", "release", "released"}
\* The steps run by the calling process itself.
CallerPc == {"inspect", "read", "critical", "renewing", "owned"}
Pc == HelperPc \cup CallerPc \cup {"idle", "dead"}

MyToken(p) == <<p, ops[p]>>
\* readLockOwner(lock): what owner.json says, by pathname.
OwnerAtName == IF name = NoIno THEN NoToken ELSE owner[name]
\* A directory entry refers to i, or a helper's working directory pins it.
Pinned(i) == \E p \in Proc : pc[p] = "entered" /\ seen[p] = i

Goto(p, step) == pc' = [pc EXCEPT ![p] = IF alive[p] THEN step ELSE "dead"]

-----------------------------------------------------------------------------
Init ==
    /\ owner = [i \in Ino |-> Free]
    /\ name = NoIno
    /\ aside = [p \in Proc |-> NoIno]
    /\ residue = [k \in {"stale", "release"} |-> {}]
    /\ pc = [p \in Proc |-> "idle"]
    /\ ops = [p \in Proc |-> 0]
    /\ seen = [p \in Proc |-> NoIno]
    /\ evidence = [p \in Proc |-> NoToken]
    /\ expired = [p \in Proc |-> FALSE]
    /\ alive = [p \in Proc |-> TRUE]
    /\ crashes = 0
    /\ faults = 0

\* withDirectoryLock(target, action): the deadline starts to run.
Begin(p) ==
    /\ pc[p] = "idle" /\ alive[p] /\ ops[p] < MaxOps
    /\ ops' = [ops EXCEPT ![p] = @ + 1]
    /\ expired' = [expired EXCEPT ![p] = FALSE]
    /\ pc' = [pc EXCEPT ![p] = "try"]
    /\ UNCHANGED <<owner, name, aside, residue, seen, evidence, alive, crashes, faults>>

\* lock-acquire: cleanupOld removes old, well-formed `.stale-` residue, then
\* mkdir.  Which residue is a day old is left open.
Mkdir(p) ==
    /\ pc[p] = "try"
    /\ \E old \in SUBSET {i \in residue["stale"] : owner[i] \in Token} :
         /\ residue' = [residue EXCEPT !["stale"] = @ \ old]
         /\ \/ /\ name # NoIno                                   \* EEXIST
               /\ owner' = [i \in Ino |-> IF i \in old THEN Free ELSE owner[i]]
               /\ Goto(p, "inspect")
               /\ UNCHANGED name
            \/ /\ name = NoIno
               /\ \E i \in Ino :
                    /\ owner[i] = Free /\ ~Pinned(i)
                    /\ owner' = [j \in Ino |-> IF j \in old THEN Free
                                               ELSE IF j = i THEN Empty ELSE owner[j]]
                    /\ name' = i
               /\ pc' = [pc EXCEPT ![p] = "made"]
    /\ UNCHANGED <<aside, ops, seen, evidence, expired, alive, crashes, faults>>

\* lstat(lock), the inode the parent is told about.
Stat(p) ==
    /\ pc[p] = "made"
    /\ seen' = [seen EXCEPT ![p] = name]
    /\ IF name = NoIno THEN Goto(p, "idle") ELSE pc' = [pc EXCEPT ![p] = "statted"]
    /\ UNCHANGED <<owner, name, aside, residue, ops, evidence, expired, alive, crashes, faults>>

\* chdir(lock) and the comparison of `.` with the inode just seen.
Enter(p) ==
    /\ pc[p] = "statted"
    /\ pc' = [pc EXCEPT ![p] = IF name = seen[p] THEN "entered" ELSE "failed"]
    /\ UNCHANGED <<owner, name, aside, residue, ops, seen, evidence, expired, alive, crashes, faults>>

\* link(temp, owner.json) inside the directory: exclusive, and ENOENT when the
\* directory is gone.  An I/O error may strike before or after the link.
Publish(p) ==
    /\ pc[p] = "entered"
    /\ \/ /\ owner[seen[p]] = Empty
          /\ owner' = [owner EXCEPT ![seen[p]] = MyToken(p)]
          /\ pc' = [pc EXCEPT ![p] = "published"]
          /\ UNCHANGED faults
       \/ /\ owner[seen[p]] # Empty
          /\ pc' = [pc EXCEPT ![p] = "failed"]
          /\ UNCHANGED <<owner, faults>>
       \/ /\ crashes + faults < MaxFailure
          /\ owner[seen[p]] = Empty
          /\ owner' \in {owner, [owner EXCEPT ![seen[p]] = MyToken(p)]}
          /\ faults' = faults + 1
          /\ pc' = [pc EXCEPT ![p] = "failed"]
    /\ UNCHANGED <<name, aside, residue, ops, seen, evidence, expired, alive, crashes>>

\* The helper reports success; the caller runs its action.
Acquired(p) ==
    /\ pc[p] = "published"
    /\ Goto(p, "critical")
    /\ UNCHANGED <<owner, name, aside, residue, ops, seen, evidence, expired, alive, crashes, faults>>

\* lock-cleanup after a failed publication, a new helper the parent starts:
\* lstat the pathname and compare the inode ...
CleanupCheck(p) ==
    /\ pc[p] = "failed"
    /\ IF name = seen[p] /\ alive[p] THEN pc' = [pc EXCEPT ![p] = "cleanup"] ELSE Goto(p, "idle")
    /\ UNCHANGED <<owner, name, aside, residue, ops, seen, evidence, expired, alive, crashes, faults>>

\* ... then rmSync whatever the pathname names by now.
CleanupRemove(p) ==
    /\ pc[p] = "cleanup"
    /\ name' = NoIno
    /\ owner' = [i \in Ino |-> IF i = name THEN Free ELSE owner[i]]
    /\ Goto(p, "idle")
    /\ UNCHANGED <<aside, residue, ops, seen, evidence, expired, alive, crashes, faults>>

-----------------------------------------------------------------------------
\* reclaimDeadLock: lstat(lock); a vanished lock is retried at once.
Inspect(p) ==
    /\ pc[p] = "inspect"
    /\ seen' = [seen EXCEPT ![p] = name]
    /\ pc' = [pc EXCEPT ![p] = IF name = NoIno THEN "try" ELSE "read"]
    /\ UNCHANGED <<owner, name, aside, residue, ops, evidence, expired, alive, crashes, faults>>

\* Mutant of ProvenDead: any owner may be taken for stale, dead or not.
AgedOut(t) == t \in Token

\* The evidence that permits a reclaim: a readable owner whose process is dead.
ProvenDead(t) == t \in Token /\ ~alive[t[1]]

\* Mutant of ReadEvidence: the poll loop forgets its deadline.
ReadEvidenceForever(p) ==
    /\ pc[p] = "read"
    /\ pc' = [pc EXCEPT ![p] = IF ProvenDead(OwnerAtName) THEN "reclaim" ELSE "try"]
    /\ evidence' = [evidence EXCEPT ![p] = IF ProvenDead(OwnerAtName) THEN OwnerAtName ELSE @]
    /\ UNCHANGED <<owner, name, aside, residue, ops, seen, expired, alive, crashes, faults>>

\* Mutant of ReadEvidence: the deadline is looked at before the evidence.
ReadEvidenceDeadlineFirst(p) ==
    /\ pc[p] = "read"
    /\ pc' = [pc EXCEPT ![p] = IF expired[p] THEN "idle"
                              ELSE IF ProvenDead(OwnerAtName) THEN "reclaim" ELSE "try"]
    /\ evidence' = [evidence EXCEPT ![p] = IF ~expired[p] /\ ProvenDead(OwnerAtName) THEN OwnerAtName ELSE @]
    /\ UNCHANGED <<owner, name, aside, residue, ops, seen, expired, alive, crashes, faults>>

\* Mutant of ReadEvidence: a lock without a readable owner counts as dead.
ReadEvidenceUnparsed(p) ==
    /\ pc[p] = "read"
    /\ \/ /\ OwnerAtName = Empty \/ ProvenDead(OwnerAtName)
          /\ evidence' = [evidence EXCEPT ![p] = OwnerAtName]
          /\ pc' = [pc EXCEPT ![p] = "reclaim"]
       \/ /\ OwnerAtName # Empty /\ ~ProvenDead(OwnerAtName)
          /\ pc' = [pc EXCEPT ![p] = IF expired[p] THEN "idle" ELSE "try"]
          /\ UNCHANGED evidence
    /\ UNCHANGED <<owner, name, aside, residue, ops, seen, expired, alive, crashes, faults>>

\* readLockOwner and classifyProcessLiveness; anything but a proven death polls
\* again until the deadline.
ReadEvidence(p) ==
    /\ pc[p] = "read"
    /\ \/ /\ ProvenDead(OwnerAtName)
          /\ evidence' = [evidence EXCEPT ![p] = OwnerAtName]
          /\ pc' = [pc EXCEPT ![p] = "reclaim"]
       \/ /\ ~ProvenDead(OwnerAtName)
          /\ pc' = [pc EXCEPT ![p] = IF expired[p] THEN "idle" ELSE "try"]
          /\ UNCHANGED evidence
    /\ UNCHANGED <<owner, name, aside, residue, ops, seen, expired, alive, crashes, faults>>

\* The clock passes p's deadline.
Expire(p) ==
    /\ pc[p] \in {"try", "inspect", "read"} /\ ~expired[p]
    /\ expired' = [expired EXCEPT ![p] = TRUE]
    /\ UNCHANGED <<owner, name, aside, residue, pc, ops, seen, evidence, alive, crashes, faults>>

\* rename(from lock, to aside), shared by lock-reclaim and lock-release.
MoveAside(p, next, absent) ==
    \/ /\ name = NoIno
       /\ Goto(p, absent)
       /\ UNCHANGED <<name, aside>>
    \/ /\ name # NoIno
       /\ aside' = [aside EXCEPT ![p] = name]
       /\ name' = NoIno
       /\ pc' = [pc EXCEPT ![p] = next]

\* rename(aside, lock) with its error swallowed: it succeeds when the name is
\* free or names an empty directory, which it replaces (an acquirer inside may
\* have put its temporary file there already).
PutBack(p, kind) ==
    /\ aside' = [aside EXCEPT ![p] = NoIno]
    /\ \/ /\ name = NoIno
          /\ name' = aside[p]
          /\ UNCHANGED <<owner, residue>>
       \/ /\ name # NoIno /\ owner[name] = Empty
          /\ owner' = [owner EXCEPT ![name] = Free]
          /\ name' = aside[p]
          /\ UNCHANGED residue
       \/ /\ name # NoIno /\ (owner[name] # Empty \/ Pinned(name))
          /\ residue' = [residue EXCEPT ![kind] = @ \cup {aside[p]}]
          /\ UNCHANGED <<owner, name>>

\* Mutant of RemoveAside: owner.json is unlinked, the directory stays.
RemoveOwnerFileOnly(p) ==
    /\ owner' = [owner EXCEPT ![aside[p]] = Empty]
    /\ aside' = [aside EXCEPT ![p] = NoIno]
    /\ UNCHANGED <<name, residue>>

\* rmSync of the directory moved aside.
RemoveAside(p) ==
    /\ owner' = [owner EXCEPT ![aside[p]] = Free]
    /\ aside' = [aside EXCEPT ![p] = NoIno]
    /\ UNCHANGED <<name, residue>>

\* lock-reclaim: rename first ...
ReclaimRename(p) ==
    /\ pc[p] = "reclaim"
    /\ MoveAside(p, "judge", "try")
    /\ UNCHANGED <<owner, residue, ops, seen, evidence, expired, alive, crashes, faults>>

\* Mutant of ReclaimJudge: what was renamed is removed unseen.
ReclaimUnjudged(p) ==
    /\ pc[p] = "judge"
    /\ RemoveAside(p)
    /\ Goto(p, "try")
    /\ evidence' = [evidence EXCEPT ![p] = NoToken]
    /\ UNCHANGED <<ops, seen, expired, alive, crashes, faults>>

\* ... then judge inode and owner, remove on a match and restore otherwise.
\* A missing owner.json reads as ENOENT, which the caller takes for "gone".
ReclaimJudge(p) ==
    /\ pc[p] = "judge"
    /\ \/ /\ aside[p] = seen[p] /\ owner[aside[p]] = evidence[p]
          /\ RemoveAside(p)
          /\ Goto(p, "try")
       \/ /\ ~(aside[p] = seen[p] /\ owner[aside[p]] = evidence[p])
          /\ PutBack(p, "stale")
          /\ Goto(p, IF aside[p] = seen[p] /\ owner[aside[p]] = Empty THEN "try" ELSE "idle")
    /\ evidence' = [evidence EXCEPT ![p] = NoToken]
    /\ UNCHANGED <<ops, seen, expired, alive, crashes, faults>>

-----------------------------------------------------------------------------
\* renewDirectoryLock from the heartbeat timer: check the owner by pathname ...
RenewRead(p) ==
    /\ Heartbeat
    /\ pc[p] = "critical" /\ OwnerAtName = MyToken(p)
    /\ pc' = [pc EXCEPT ![p] = "renewing"]
    /\ UNCHANGED <<owner, name, aside, residue, ops, seen, evidence, expired, alive, crashes, faults>>

\* ... then atomicWriteJson(owner.json), whose secureFilePath re-creates a
\* missing lock directory and whose rename replaces any owner.json it finds.
RenewWrite(p) ==
    /\ pc[p] = "renewing"
    /\ \/ /\ name # NoIno
          /\ owner' = [owner EXCEPT ![name] = MyToken(p)]
          /\ UNCHANGED name
       \/ /\ name = NoIno
          /\ \E i \in Ino : /\ owner[i] = Free /\ ~Pinned(i)
                            /\ owner' = [owner EXCEPT ![i] = MyToken(p)]
                            /\ name' = i
    /\ pc' = [pc EXCEPT ![p] = "critical"]
    /\ UNCHANGED <<aside, residue, ops, seen, evidence, expired, alive, crashes, faults>>

\* releaseDirectoryLock: the pathname must still show the caller's token ...
ReleaseRead(p) ==
    /\ pc[p] = "critical"
    /\ pc' = [pc EXCEPT ![p] = IF OwnerAtName = MyToken(p) THEN "owned" ELSE "idle"]
    /\ UNCHANGED <<owner, name, aside, residue, ops, seen, evidence, expired, alive, crashes, faults>>

\* ... its inode is taken ...
ReleaseStat(p) ==
    /\ pc[p] = "owned"
    /\ seen' = [seen EXCEPT ![p] = name]
    /\ pc' = [pc EXCEPT ![p] = IF name = NoIno THEN "idle" ELSE "release"]
    /\ UNCHANGED <<owner, name, aside, residue, ops, evidence, expired, alive, crashes, faults>>

\* ... lock-release renames it aside ...
ReleaseRename(p) ==
    /\ pc[p] = "release"
    /\ MoveAside(p, "released", "idle")
    /\ UNCHANGED <<owner, residue, ops, seen, evidence, expired, alive, crashes, faults>>

\* ... and removes it if inode and token are the caller's.  A missing owner.json
\* throws before the branch that restores the name.
ReleaseJudge(p) ==
    /\ pc[p] = "released"
    /\ \/ /\ aside[p] = seen[p] /\ owner[aside[p]] = MyToken(p)
          /\ RemoveAside(p)
       \/ /\ aside[p] # seen[p] \/ owner[aside[p]] \notin {MyToken(p), Empty}
          /\ PutBack(p, "release")
       \/ /\ aside[p] = seen[p] /\ owner[aside[p]] = Empty
          /\ residue' = [residue EXCEPT !["release"] = @ \cup {aside[p]}]
          /\ aside' = [aside EXCEPT ![p] = NoIno]
          /\ UNCHANGED <<owner, name>>
    /\ Goto(p, "idle")
    /\ UNCHANGED <<ops, seen, evidence, expired, alive, crashes, faults>>

-----------------------------------------------------------------------------
\* What a helper killed at this point leaves behind under its temporary name.
Abandon(p) ==
    /\ aside' = [aside EXCEPT ![p] = NoIno]
    /\ residue' = IF aside[p] = NoIno THEN residue
                  ELSE [residue EXCEPT ![IF pc[p] = "judge" THEN "stale" ELSE "release"] = @ \cup {aside[p]}]

\* Mutant of HelperDies: the parent falls back to removing the lock by pathname.
HelperDiesRemovesByName(p) ==
    /\ pc[p] \in HelperPc /\ alive[p] /\ crashes + faults < MaxFailure
    /\ faults' = faults + 1
    /\ Abandon(p)
    /\ name' = NoIno
    /\ owner' = [i \in Ino |-> IF i = name THEN Free ELSE owner[i]]
    /\ pc' = [pc EXCEPT ![p] = "idle"]
    /\ evidence' = [evidence EXCEPT ![p] = NoToken]
    /\ UNCHANGED <<ops, seen, expired, alive, crashes>>

\* The helper dies while its parent lives.  An acquirer whose token is already
\* published adopts the lock; every other call fails.
HelperDies(p) ==
    /\ pc[p] \in HelperPc /\ alive[p] /\ crashes + faults < MaxFailure
    /\ faults' = faults + 1
    /\ Abandon(p)
    /\ pc' = [pc EXCEPT ![p] =
                IF pc[p] \in {"try", "made", "statted", "entered", "published"}
                   /\ OwnerAtName = MyToken(p) THEN "critical" ELSE "idle"]
    /\ evidence' = [evidence EXCEPT ![p] = NoToken]
    /\ UNCHANGED <<owner, name, ops, seen, expired, alive, crashes>>

\* A process is killed: its helper may be killed with it or finish its call.
Crash(p) ==
    /\ alive[p] /\ crashes + faults < MaxFailure /\ pc[p] \notin {"idle", "dead"}
    /\ crashes' = crashes + 1
    /\ alive' = [alive EXCEPT ![p] = FALSE]
    /\ \/ /\ Orphans /\ pc[p] \in HelperPc
          /\ UNCHANGED <<pc, aside, residue>>
       \/ /\ pc' = [pc EXCEPT ![p] = "dead"]
          /\ Abandon(p)
    /\ UNCHANGED <<owner, name, ops, seen, evidence, expired, faults>>

Acquire(p) == \/ Mkdir(p) \/ Stat(p) \/ Enter(p) \/ Publish(p) \/ Acquired(p)
              \/ CleanupCheck(p) \/ CleanupRemove(p)
Reclaim(p) == Inspect(p) \/ ReadEvidence(p) \/ ReclaimRename(p) \/ ReclaimJudge(p)
Renew(p)   == RenewRead(p) \/ RenewWrite(p)
Release(p) == ReleaseRead(p) \/ ReleaseStat(p) \/ ReleaseRename(p) \/ ReleaseJudge(p)

Next == \E p \in Proc :
          \/ Begin(p) \/ Acquire(p) \/ Reclaim(p) \/ Renew(p) \/ Release(p)
          \/ Expire(p) \/ HelperDies(p) \/ Crash(p)

Spec == Init /\ [][Next]_vars

\* A running process or helper takes its next step; the action run under the
\* lock returns; the clock advances.  Nothing forces a call, a fault or a crash.
Fairness == \A p \in Proc : /\ WF_vars(Acquire(p) \/ Reclaim(p) \/ Release(p))
                            /\ WF_vars(Expire(p))
FairSpec == Spec /\ Fairness

-----------------------------------------------------------------------------
TypeOK ==
    /\ owner \in [Ino -> {Free, Empty} \cup Token]
    /\ name \in Ino \cup {NoIno}
    /\ aside \in [Proc -> Ino \cup {NoIno}]
    /\ residue \in [{"stale", "release"} -> SUBSET Ino]
    /\ pc \in [Proc -> Pc]
    /\ ops \in [Proc -> 0..MaxOps]
    /\ seen \in [Proc -> Ino \cup {NoIno}]
    /\ evidence \in [Proc -> Token \cup {NoToken}]
    /\ expired \in [Proc -> BOOLEAN]
    /\ alive \in [Proc -> BOOLEAN]
    /\ crashes \in 0..MaxFailure
    /\ faults \in 0..MaxFailure

\* Every directory is reached by exactly one pathname: the lock name, one
\* helper's temporary name, or one leftover.  No interleaving of the renames and
\* removals of lock-acquire, lock-reclaim, lock-release and lock-cleanup may
\* remove a directory another name still reaches or lose track of one; and once
\* nobody is in a call and nothing has failed, the lock name is free and there is
\* no `.stale-` or `.release-` residue.
EntryCount(i) ==
    (IF name = i THEN 1 ELSE 0) + Cardinality({p \in Proc : aside[p] = i})
      + Cardinality({k \in DOMAIN residue : i \in residue[k]})
OneEntry ==
    /\ \A i \in Ino : EntryCount(i) = IF owner[i] = Free THEN 0 ELSE 1
    /\ (crashes = 0 /\ faults = 0 /\ \A p \in Proc : pc[p] = "idle")
         => name = NoIno /\ \A k \in DOMAIN residue : residue[k] = {}

\* At most one caller runs its action at a time (withDirectoryLock), whatever
\* reclaims, failed publications and killed helpers come in between.
InAction(p) == pc[p] \in {"critical", "renewing"}
MutualExclusion == \A p, q \in Proc : InAction(p) /\ InAction(q) => p = q

\* As long as no owner has died in its call there is nothing to reclaim, and no
\* schedule of acquisitions, failed publications, killed helpers, heartbeats and
\* releases lets two actions overlap.
ExclusiveUntilCrash == crashes = 0 => MutualExclusion

\* Until then the owner.json of a process is removed or replaced by nobody but
\* that process: "live foreign or malformed locks remain untouched".
LiveLockKept ==
    [][\A i \in Ino :
          crashes' = 0 /\ owner[i] \in Token /\ owner'[i] # owner[i]
             => pc'[owner[i][1]] # pc[owner[i][1]]]_vars

\* Every call comes to an end of its waiting: it runs its action or gives up at
\* its deadline, however often it loses the race for the name.
CallsReturn == \A p \in Proc : pc[p] = "try" ~> pc[p] \in {"critical", "idle", "dead"}

\* The lock of a killed process does not outlive the next caller's look at it.
DeadOwnerReclaimed ==
    \A p \in Proc : pc[p] \in {"try", "inspect"} /\ alive[p] /\ ProvenDead(OwnerAtName)
                       ~> ~ProvenDead(OwnerAtName) \/ ~alive[p]
=============================================================================
