-------------------------- MODULE TeamSupervisor --------------------------
(***************************************************************************)
(* ExperimentalTmuxTeamSupervisor (team/supervisor.ts) with the team's     *)
(* manifest (team/manifest.ts) and its coordination directory              *)
(* (team/state-root.ts).  start opens a tmux pane per worker, starts the   *)
(* agent in it and records its process group; a start that fails rolls     *)
(* back.  stop ends the session and the recorded groups, and never signals *)
(* a group it cannot prove to be the one it recorded.                      *)
(*                                                                         *)
(* start and stop of a team exclude each other (withTeamLock), so that one *)
(* call is in progress at most.  Around it the workers' processes come and *)
(* go, and the number of a group that is gone is given to somebody else.   *)
(***************************************************************************)
EXTENDS Naturals, FiniteSets

CONSTANTS
    NumWorkers,
    None,
    MaxStarts,  \* bound: calls of start
    MaxStops,   \* bound: calls of stop
    MaxFailures \* bound: commands that fail and kills of the supervisor

Worker == 1..NumWorkers

VARIABLES
    coordination,   \* the directory teams/<id>: none, staged, published
    manifest,       \* the manifest file
    pane,           \* tmux: per worker none, shell, up or dead; no session if all are none
    group,          \* live processes of the group of a worker
    foreign,        \* workers whose group number now is somebody else's
    op,             \* the call in progress
    lost,           \* history: the supervisor was killed, or a rollback did not get through
    starts, stops, failures

vars == <<coordination, manifest, pane, group, foreign, op, lost, starts, stops, failures>>

Manifest == [workers: SUBSET Worker, stopping: (SUBSET Worker) \cup {None}, stopped: BOOLEAN]
\* None is no manifest and no call.
NoneFits == None \notin Manifest \cup {"start", "stop"}

\* next: worker to launch; bound: groups to end; aliens: numbers that were somebody else's then
Rest == [call |-> None, pc |-> "idle", next |-> 1, bound |-> {}, aliens |-> {}]

Init ==
    /\ coordination = "none" /\ manifest = None
    /\ pane = [w \in Worker |-> "none"]
    /\ group = [w \in Worker |-> {}] /\ foreign = {}
    /\ op = Rest /\ lost = FALSE
    /\ starts = 0 /\ stops = 0 /\ failures = 0

Session == \E w \in Worker: pane[w] # "none"
Alive(workers) == {w \in workers: group[w] # {} \/ w \in foreign}
Goto(l) == op' = [op EXCEPT !.pc = l]

world == <<pane, group, foreign>>
files == <<coordination, manifest>>
counts == <<starts, stops, failures>>

-----------------------------------------------------------------------------
(* start.                                                                  *)

Start ==
    /\ op.pc = "idle" /\ starts < MaxStarts
    /\ starts' = starts + 1
    /\ op' = IF manifest # None \/ coordination = "published" THEN op   \* E_TEAM_EXISTS, E_TEAM_STATE_EXISTS
             ELSE [Rest EXCEPT !.call = "start", !.pc = "stage"]
    /\ UNCHANGED <<files, world, lost, stops, failures>>

(* initializeTeamState: everything is written to a staging directory and   *)
(* the directory renamed; what a killed call staged is removed first.      *)
Stage ==
    /\ op.pc = "stage"
    /\ coordination' = "staged" /\ Goto("publish")
    /\ UNCHANGED <<manifest, world, lost, counts>>

Publish ==
    /\ op.pc = "publish"
    /\ coordination' = "published" /\ Goto("open")
    /\ UNCHANGED <<manifest, world, lost, counts>>

Open ==
    /\ op.pc = "open"
    /\ IF op.next > NumWorkers THEN op' = Rest /\ UNCHANGED pane
       ELSE Goto("launch") /\ pane' = [pane EXCEPT ![op.next] = "shell"]
    /\ UNCHANGED <<files, group, foreign, lost, counts>>

Launch ==
    /\ op.pc = "launch"
    /\ pane' = [pane EXCEPT ![op.next] = "up"]
    /\ group' = [group EXCEPT ![op.next] = {"leader"}]
    /\ foreign' = foreign \ {op.next}           \* a number of its own
    /\ Goto("observe")
    /\ UNCHANGED <<files, lost, counts>>

(* The identity of a worker that exited already cannot be proved.          *)
Observe ==
    /\ op.pc = "observe"
    /\ IF "leader" \in group[op.next]
       THEN /\ manifest' = [workers |-> 1..op.next, stopping |-> None, stopped |-> FALSE]
            /\ op' = [op EXCEPT !.pc = "open", !.next = @ + 1]
       ELSE UNCHANGED manifest /\ Goto("undo")
    /\ UNCHANGED <<coordination, world, lost, counts>>

CommandFails ==
    /\ failures < MaxFailures /\ op.pc \in {"open", "launch", "observe"} /\ op.next <= NumWorkers
    /\ failures' = failures + 1
    /\ Goto("undo")
    /\ UNCHANGED <<files, world, lost, starts, stops>>

(* The rollback: the directory, the session, the groups recorded so far,   *)
(* the manifest.                                                           *)
Undo ==
    /\ op.pc = "undo"
    /\ coordination' = "none"
    /\ IF Session THEN op' = [op EXCEPT !.pc = "endSession", !.bound = 1..(op.next - 1)] /\ UNCHANGED manifest
       ELSE op' = Rest /\ manifest' = None
    /\ UNCHANGED <<world, lost, counts>>

-----------------------------------------------------------------------------
(* stop.                                                                   *)

Stop ==
    /\ op.pc = "idle" /\ stops < MaxStops /\ manifest # None
    /\ stops' = stops + 1
    /\ op' = IF manifest.stopped THEN op
             ELSE [Rest EXCEPT !.call = "stop", !.pc = IF manifest.stopping = None THEN "mark" ELSE "session"]
    /\ UNCHANGED <<files, world, lost, starts, failures>>

Candidates == IF manifest.stopping = None THEN manifest.workers ELSE manifest.stopping

\* Mutant: a worker whose pane is dead is bound by the number of its group.
BoundByNumber(workers) == {w \in workers: pane[w] = "up" \/ Alive({w}) # {}}

(* assertRecordedIdentities: the groups whose leader is the one recorded;  *)
(* it throws when a pane is gone, or is dead and its group is not.         *)
Bound(workers) == {w \in workers: pane[w] = "up"}

Provable(workers) ==
    \A w \in workers: pane[w] \in {"up", "dead"} /\ (w \notin Bound(workers) => Alive({w}) = {})

MarkStopping ==
    /\ op.pc = "mark"
    /\ IF Provable(manifest.workers)
       THEN manifest' = [manifest EXCEPT !.stopping = Bound(manifest.workers)] /\ Goto("session")
       ELSE UNCHANGED manifest /\ op' = Rest    \* E_TEAM_PROCESS_IDENTITY_MISMATCH, ..._UNVERIFIED
    /\ UNCHANGED <<coordination, world, lost, counts>>

CheckSession ==
    /\ op.pc = "session"
    /\ op' = CASE Session /\ Provable(Candidates) ->
                    [op EXCEPT !.pc = "endSession", !.bound = Bound(Candidates), !.aliens = foreign]
               [] ~ Session /\ Alive(Candidates) = {} -> [op EXCEPT !.pc = "finish"]
               [] OTHER -> Rest
    /\ UNCHANGED <<files, world, lost, counts>>

(* kill-session: tmux hangs up on its panes, which the processes survive   *)
(* or not.                                                                 *)
EndSession ==
    /\ op.pc = "endSession"
    /\ pane' = [w \in Worker |-> "none"]
    /\ group' \in {[w \in Worker |-> IF w \in s THEN group[w] ELSE {}]: s \in SUBSET {w \in Worker: group[w] # {}}}
    /\ Goto("term")
    /\ UNCHANGED <<files, foreign, lost, counts>>

(* tmux refuses: stop gives up, a rollback ends the groups all the same.   *)
EndSessionFails ==
    /\ op.pc = "endSession" /\ failures < MaxFailures
    /\ failures' = failures + 1
    /\ LET ended == IF op.call = "stop" THEN {} ELSE op.bound IN
        /\ group' = [w \in Worker |-> IF w \in ended THEN {} ELSE group[w]]
        /\ pane' = [w \in Worker |-> IF w \in ended /\ pane[w] = "up" THEN "dead" ELSE pane[w]]
    /\ lost' = (lost \/ op.call = "start")
    /\ op' = Rest
    /\ UNCHANGED <<files, foreign, starts, stops>>

(* terminateGroups: SIGTERM, which is survived or not, then SIGKILL.       *)
Terminate ==
    /\ op.pc = "term"
    /\ group' \in {[w \in Worker |-> IF w \in s THEN {} ELSE group[w]]: s \in SUBSET (op.bound \ foreign)}
    /\ Goto("kill")
    /\ UNCHANGED <<files, pane, foreign, lost, counts>>

KillGroups ==
    /\ op.pc = "kill"
    /\ group' = [w \in Worker |-> IF w \in op.bound THEN {} ELSE group[w]]
    /\ Goto(IF op.call = "stop" THEN "finish" ELSE "forget")
    /\ UNCHANGED <<files, pane, foreign, lost, counts>>

(* E_TEAM_STOP_INCOMPLETE if anything is still there.                      *)
Finish ==
    /\ op.pc = "finish"
    /\ manifest' = IF Session \/ Alive(manifest.workers) # {} THEN manifest
                   ELSE [manifest EXCEPT !.stopped = TRUE]
    /\ op' = Rest
    /\ UNCHANGED <<coordination, world, lost, counts>>

\* The end of a rollback, with a group that got the number of one that is gone, or without.
Forget ==
    /\ op.pc = "forget"
    /\ IF Alive(op.bound) = {} THEN manifest' = None /\ UNCHANGED lost
       ELSE UNCHANGED manifest /\ lost' = TRUE  \* E_TEAM_START_ROLLBACK_FAILED
    /\ op' = Rest
    /\ UNCHANGED <<coordination, world, counts>>

-----------------------------------------------------------------------------
(* The world.                                                              *)

Fork(w) ==
    /\ group[w] = {"leader"}
    /\ group' = [group EXCEPT ![w] = {"leader", "child"}]
    /\ UNCHANGED <<files, pane, foreign, op, lost, counts>>

Exit(w, p) ==
    /\ p \in group[w]
    /\ group' = [group EXCEPT ![w] = @ \ {p}]
    /\ pane' = IF p = "leader" /\ pane[w] = "up" THEN [pane EXCEPT ![w] = "dead"] ELSE pane
    /\ UNCHANGED <<files, foreign, op, lost, counts>>

Reuse(w) ==
    /\ group[w] = {} /\ w \notin foreign /\ manifest # None /\ w \in manifest.workers
    /\ foreign' = foreign \cup {w}
    /\ UNCHANGED <<files, pane, group, op, lost, counts>>

Kill ==
    /\ op.pc # "idle" /\ failures < MaxFailures
    /\ failures' = failures + 1
    /\ op' = Rest /\ lost' = TRUE
    /\ UNCHANGED <<files, world, starts, stops>>

Next ==
    \/ Start \/ Stage \/ Publish \/ Open \/ Launch \/ Observe \/ CommandFails \/ Undo
    \/ Stop \/ MarkStopping \/ CheckSession \/ EndSession \/ EndSessionFails
    \/ Terminate \/ KillGroups \/ Finish \/ Forget
    \/ \E w \in Worker: Fork(w) \/ Exit(w, "leader") \/ Exit(w, "child") \/ Reuse(w)
    \/ Kill

Spec == Init /\ [][Next]_vars
-----------------------------------------------------------------------------
TypeOK ==
    /\ coordination \in {"none", "staged", "published"}
    /\ manifest \in Manifest \cup {None}
    /\ pane \in [Worker -> {"none", "shell", "up", "dead"}]
    /\ group \in [Worker -> SUBSET {"leader", "child"}] /\ foreign \subseteq Worker

(* stop signals no group whose number was somebody else's before it had    *)
(* proved it to be the worker's.                                           *)
SignalsOwnGroups == op.call = "stop" /\ op.pc \in {"term", "kill"} => op.bound \cap op.aliens = {}

(* A team that is stopped has neither a session nor a process of a worker  *)
(* it recorded.                                                            *)
StoppedIsGone ==
    manifest # None /\ manifest.stopped => ~ Session /\ \A w \in manifest.workers: group[w] = {}

(* A start that failed and rolled back leaves nothing behind that would    *)
(* turn the next one away or run on unseen in a pane.                      *)
FailedStartLeavesNothing ==
    op.pc = "idle" /\ manifest = None /\ ~ lost => coordination = "none" /\ ~ Session
=============================================================================
