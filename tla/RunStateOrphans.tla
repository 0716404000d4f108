-------------------------- MODULE RunStateOrphans --------------------------
(***************************************************************************)
(* RunState with one more failure: atomicWriteJson commits in a helper     *)
(* process (runBoundHelper of src/src/runtime/atomic.ts).  When the client *)
(* is killed alone, the lock it held counts as dead at once, but the       *)
(* helper, which already has the record, still renames it into place.      *)
(***************************************************************************)
EXTENDS RunState

CrashBesideHelper(c) ==
    /\ pc[c] = "commit" /\ req[c].op # "release"
    /\ alive' = [alive EXCEPT ![c] = FALSE]
    /\ pc' = [pc EXCEPT ![c] = "orphan"]
    /\ UNCHANGED <<run, lease, runLock, leaseLock, clock, req, staged, ops>>

OrphanCommit(c) ==
    /\ pc[c] = "orphan"
    /\ WriteStaged(c)
    /\ pc' = [pc EXCEPT ![c] = "dead"]
    /\ UNCHANGED <<runLock, leaseLock, clock, req, staged, ops, alive>>

OrphanNext == Next \/ \E c \in Client : CrashBesideHelper(c) \/ OrphanCommit(c)
OrphanSpec == Init /\ [][OrphanNext]_vars
=============================================================================
