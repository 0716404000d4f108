-------------------------------- MODULE Ulw --------------------------------
(***************************************************************************)
(* ULW (modes/ulw.ts): a run gives each of its workers a Git worktree of   *)
(* its own below .omcu-worktrees/<id>/, side by side.  A worktree whose    *)
(* worker was invoked is kept with what it did; one whose making failed is *)
(* cleaned up.  The id is the user's (omcu ulw --id), who may use one      *)
(* again.                                                                  *)
(*                                                                         *)
(* Git is external: a worktree cannot be added where there is one, and any *)
(* command of it may fail.                                                 *)
(***************************************************************************)
EXTENDS Naturals, Sequences, FiniteSets

CONSTANTS
    Worker, Id, None,
    MaxRuns,    \* bound: runs
    MaxFault    \* bound: Git commands that fail, and runs killed

VARIABLES
    worktree,   \* per id and worker: None, or the number of the run that made it and its work
    ulw,        \* the run: its id, or None when none is at work
    step,       \* per worker of the run: where it is
    receipts,   \* what runs told: number, id, worker, disposition, and whether there was work
    ids,        \* history: the id of every run
    ulwFaults

vars == <<worktree, ulw, step, receipts, ids, ulwFaults>>

Fresh == [run |-> Len(ids), worked |-> FALSE]

Init ==
    /\ worktree = [i \in Id |-> [w \in Worker |-> None]]
    /\ ulw = None
    /\ step = [w \in Worker |-> "done"]
    /\ receipts = {}
    /\ ids = <<>> /\ ulwFaults = 0

\* None is no id and no worktree, and there may be runs.
NoneFits == None \notin Id \cup [run: 1 .. MaxRuns, worked: BOOLEAN] /\ MaxRuns \in Nat

-----------------------------------------------------------------------------
At(w, s) == ulw # None /\ step[w] = s
Receipts ==
    [run: 1 .. MaxRuns, id: Id, worker: Worker,
     disposition: {"retained", "removed-before-invocation", "cleanup-failed"}]

Goto(w, s) == step' = [step EXCEPT ![w] = s]
Here(w) == worktree[ulw][w]
Put(w, t) == worktree' = [worktree EXCEPT ![ulw][w] = t]
Fault == ulwFaults < MaxFault /\ ulwFaults' = ulwFaults + 1
Unfaulted == UNCHANGED ulwFaults

Run(i) ==
    /\ ulw = None /\ Len(ids) < MaxRuns
    /\ ulw' = i /\ ids' = Append(ids, i)
    /\ step' = [w \in Worker |-> "add"]
    /\ UNCHANGED <<worktree, receipts, ulwFaults>>

Receipt(w, disposition) ==
    receipts' = receipts \cup {[run |-> Len(ids), id |-> ulw, worker |-> w, disposition |-> disposition]}

\* git worktree add; one that failed may have left the directory.
Add(w) ==
    /\ At(w, "add")
    /\ \/ Here(w) = None /\ Put(w, Fresh) /\ Goto(w, "invoke") /\ Unfaulted
       \/ Here(w) # None /\ Goto(w, "cleanup") /\ UNCHANGED worktree /\ Unfaulted
       \/ /\ Here(w) = None /\ Fault
          /\ Put(w, Fresh) \/ UNCHANGED worktree
          /\ Goto(w, "cleanup")
    /\ UNCHANGED <<ulw, receipts, ids>>

\* The worker works in its worktree; however it ends, the worktree is retained.
Invoke(w) ==
    /\ At(w, "invoke")
    /\ Put(w, [Here(w) EXCEPT !.worked = TRUE])
    /\ Goto(w, "retain")
    /\ UNCHANGED <<ulw, receipts, ids, ulwFaults>>

Retain(w) ==
    /\ At(w, "retain")
    /\ Receipt(w, "retained")
    /\ Goto(w, "done")
    /\ UNCHANGED <<worktree, ulw, ids, ulwFaults>>

\* What a removal that failed is told as: the directory may be gone all the same.
UnremovedUnlooked(w) == {"removed-before-invocation"}
Unremoved(w) ==
    {"cleanup-failed"} \cup IF Here(w) = None THEN {"removed-before-invocation"} ELSE {}

\* cleanupBeforeInvocation: git worktree remove --force, whoever made what is there.
Cleanup(w) ==
    /\ At(w, "cleanup")
    /\ \/ Put(w, None) /\ Receipt(w, "removed-before-invocation") /\ Unfaulted
       \/ /\ Fault /\ UNCHANGED worktree
          /\ \E d \in Unremoved(w): Receipt(w, d)
    /\ Goto(w, "done")
    /\ UNCHANGED <<ulw, ids>>

Finish ==
    /\ ulw # None /\ \A w \in Worker: step[w] = "done"
    /\ ulw' = None
    /\ UNCHANGED <<worktree, step, receipts, ids, ulwFaults>>

Kill ==
    /\ ulw # None /\ Fault
    /\ ulw' = None /\ step' = [w \in Worker |-> "done"]
    /\ UNCHANGED <<worktree, receipts, ids>>

Next ==
    \/ \E i \in Id: Run(i)
    \/ \E w \in Worker: Add(w) \/ Invoke(w) \/ Retain(w) \/ Cleanup(w)
    \/ Finish \/ Kill

Spec == Init /\ [][Next]_vars

TypeOK ==
    /\ worktree \in [Id -> [Worker -> [run: 1 .. MaxRuns, worked: BOOLEAN] \cup {None}]]
    /\ ulw \in Id \cup {None}
    /\ step \in [Worker -> {"add", "invoke", "retain", "cleanup", "done"}]
    /\ receipts \subseteq Receipts
    /\ ids \in Seq(Id)

-----------------------------------------------------------------------------
Kept(r) == /\ worktree[r.id][r.worker] # None
           /\ worktree[r.id][r.worker].run = r.run /\ worktree[r.id][r.worker].worked
Last(r) == ~\E k \in DOMAIN ids: k > r.run /\ ids[k] = r.id

\* As long as nobody uses its id again, what a run told of a worktree is so: one retained is
\* there with its worker's work, and one removed is gone, whatever happens to other workers.
ReceiptsTrue ==
    \A r \in receipts: Last(r) =>
        /\ r.disposition = "retained" => Kept(r)
        /\ r.disposition = "removed-before-invocation" => worktree[r.id][r.worker] = None

\* README.md: "ULW retains every worktree after a worker is invoked".
RetainsEveryWorktree == \A r \in receipts: r.disposition = "retained" => Kept(r)
=============================================================================
