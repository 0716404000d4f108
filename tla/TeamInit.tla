------------------------------ MODULE TeamInit ------------------------------
(***************************************************************************)
(* The creation of a team's directory: initializeTeamState of              *)
(* team/state-root.ts with the staging directories of runtime/atomic.ts.   *)
(* Under the lock of the target a call builds a stage beside it, marks it  *)
(* with its own identity, fills it and renames it to the target; a call    *)
(* that finds the target takes it for its own when it holds exactly what   *)
(* the call would have written.  Stages of the dead are swept away.        *)
(***************************************************************************)
EXTENDS Naturals, FiniteSets

CONSTANTS
    Process, Team,  \* Team: the inputs that differ in task or workers
    None,
    MaxFault        \* bound: failing operations and kills

VARIABLES
    directory,  \* the published directory: None or [team, whole, used]
    stage,      \* per process: its staging directory, None or [marker, whole]
    initLock,
    init,       \* per process: pc, team, whether it knows its marker written, alive
    answer,     \* per process: None, "failed", or the team of the directory it was given
    initFaults,
    uses        \* history: "task" and "removal", what others did to the directory

vars == <<directory, stage, initLock, init, answer, initFaults, uses>>

Init ==
    /\ directory = None
    /\ stage = [p \in Process |-> None]
    /\ initLock = None
    /\ init = [p \in Process |-> [pc |-> "idle", team |-> None, marked |-> FALSE, alive |-> TRUE]]
    /\ answer = [p \in Process |-> None]
    /\ initFaults = 0
    /\ uses = {}

\* None and "failed" are no processes, no inputs of a call, no directory and no stage.
NoneFits ==
    /\ None \notin Process \cup Team /\ "failed" \notin Team \cup {None}
    /\ None \notin [marker: BOOLEAN, whole: BOOLEAN]
    /\ None \notin [team: Team, whole: BOOLEAN, used: BOOLEAN]

At(p, l) == init[p].alive /\ init[p].pc = l
Goto(p, l) == init' = [init EXCEPT ![p].pc = l]
Fault == initFaults < MaxFault /\ initFaults' = initFaults + 1

Answers(p, a) ==
    /\ answer' = [answer EXCEPT ![p] = a]
    /\ Goto(p, "done")
    /\ initLock' = None

\* Mutant: any complete directory is taken for the one that was asked for.
ExactAny(d, t) == d # None /\ d.whole

(* readCompleteTeamState: the same task and workers, all files as they     *)
(* were written, no task yet.                                              *)
Exact(d, t) == d # None /\ d.whole /\ d.team = t /\ ~ d.used

-----------------------------------------------------------------------------
Begin(p) ==
    /\ At(p, "idle") /\ initLock = None
    /\ initLock' = p
    /\ \E t \in Team: init' = [init EXCEPT ![p].pc = "look", ![p].team = t]
    /\ UNCHANGED <<directory, stage, answer, initFaults, uses>>

Existing(p) ==
    /\ At(p, "look") /\ directory # None
    /\ Answers(p, IF Exact(directory, init[p].team) THEN directory.team ELSE "failed")
    /\ UNCHANGED <<directory, stage, initFaults, uses>>

\* Marked stages whose creator is dead; it may be impossible to tell.
Sweepable == {q \in Process: stage[q] # None /\ stage[q].marker /\ ~ init[q].alive}

CleanupStages(p) ==
    /\ At(p, "look") /\ directory = None
    /\ \E swept \in SUBSET Sweepable:
        stage' = [q \in Process |-> IF q \in swept THEN None ELSE stage[q]]
    /\ Goto(p, "mkdir")
    /\ UNCHANGED <<directory, initLock, answer, initFaults, uses>>

CleanupFails(p) ==
    /\ At(p, "look") /\ directory = None
    /\ Fault
    /\ Answers(p, "failed")
    /\ UNCHANGED <<directory, stage, uses>>

MakeStage(p) ==
    /\ At(p, "mkdir")
    /\ stage' = [stage EXCEPT ![p] = [marker |-> FALSE, whole |-> FALSE]]
    /\ Goto(p, "mark")
    /\ UNCHANGED <<directory, initLock, answer, initFaults, uses>>

WriteMarker(p) ==
    /\ At(p, "mark")
    /\ stage' = [stage EXCEPT ![p].marker = TRUE]
    /\ init' = [init EXCEPT ![p].pc = "fill", ![p].marked = TRUE]
    /\ UNCHANGED <<directory, initLock, answer, initFaults, uses>>

(* The write of the marker throws, also when it was committed and only its *)
(* durability is unknown.                                                  *)
WriteMarkerFails(p) ==
    /\ At(p, "mark")
    /\ Fault
    /\ \E written \in BOOLEAN: stage' = [stage EXCEPT ![p].marker = written]
    /\ Goto(p, "remove")
    /\ UNCHANGED <<directory, initLock, answer, uses>>

Fill(p) ==
    /\ At(p, "fill")
    /\ stage' = [stage EXCEPT ![p].whole = TRUE]
    /\ Goto(p, "publish")
    /\ UNCHANGED <<directory, initLock, answer, initFaults, uses>>

FillFails(p) ==
    /\ At(p, "fill")
    /\ Fault
    /\ Goto(p, "remove")
    /\ UNCHANGED <<directory, stage, initLock, answer, uses>>

Renamed(p) ==
    /\ directory' = [team |-> init[p].team, whole |-> stage[p].whole, used |-> FALSE]
    /\ stage' = [stage EXCEPT ![p] = None]

Publish(p) ==
    /\ At(p, "publish") /\ directory = None
    /\ Renamed(p)
    /\ Answers(p, init[p].team)
    /\ UNCHANGED <<initFaults, uses>>

(* The helper dies, or fails after its rename: commit_durability_unknown,  *)
(* with or without the directory.                                          *)
PublishUncertain(p) ==
    /\ At(p, "publish") /\ directory = None
    /\ Fault
    /\ Renamed(p) \/ UNCHANGED <<directory, stage>>
    /\ Goto(p, "adopt")
    /\ UNCHANGED <<initLock, answer, uses>>

Adopt(p) ==
    /\ At(p, "adopt")
    /\ IF Exact(directory, init[p].team)
       THEN Answers(p, directory.team)
       ELSE Goto(p, "remove") /\ UNCHANGED <<answer, initLock>>
    /\ UNCHANGED <<directory, stage, initFaults, uses>>

(* The finally block: the stage is removed by its marker, or as one that   *)
(* never had a marker; a marker the call does not know of protects it.     *)
Removable(p) == init[p].marked = stage[p].marker

Remove(p) ==
    /\ At(p, "remove")
    /\ IF stage[p] # None /\ Removable(p)
       THEN stage' = [stage EXCEPT ![p] = None]
       ELSE UNCHANGED stage
    /\ Answers(p, "failed")
    /\ UNCHANGED <<directory, initFaults, uses>>

(* The removal fails half way; the marker may be gone already.             *)
RemoveFails(p) ==
    /\ At(p, "remove") /\ stage[p] # None
    /\ Fault
    /\ \E m \in {FALSE, stage[p].marker}: stage' = [stage EXCEPT ![p] = [marker |-> m, whole |-> FALSE]]
    /\ Answers(p, "failed")
    /\ UNCHANGED <<directory, uses>>

-----------------------------------------------------------------------------
\* The lock of a dead owner is taken over (DirectoryLock).
Kill(p) ==
    /\ initLock = p
    /\ Fault
    /\ init' = [init EXCEPT ![p].alive = FALSE]
    /\ initLock' = None
    /\ UNCHANGED <<directory, stage, answer, uses>>

CreateTask ==
    /\ directory # None /\ directory.whole /\ "task" \notin uses
    /\ directory' = [directory EXCEPT !.used = TRUE]
    /\ uses' = uses \cup {"task"}
    /\ UNCHANGED <<stage, initLock, init, answer, initFaults>>

(* removeTeamState takes no lock and removes one file after the other.     *)
RemoveTeam ==
    /\ directory # None
    /\ "removal" \in uses => ~ directory.whole
    /\ \/ directory' = None
       \/ directory.whole /\ directory' = [directory EXCEPT !.whole = FALSE]
    /\ uses' = uses \cup {"removal"}
    /\ UNCHANGED <<stage, initLock, init, answer, initFaults>>

Next ==
    \/ \E p \in Process:
        \/ Begin(p) \/ Existing(p) \/ CleanupStages(p) \/ CleanupFails(p) \/ MakeStage(p)
        \/ WriteMarker(p) \/ WriteMarkerFails(p) \/ Fill(p) \/ FillFails(p)
        \/ Publish(p) \/ PublishUncertain(p) \/ Adopt(p) \/ Remove(p) \/ RemoveFails(p) \/ Kill(p)
    \/ CreateTask \/ RemoveTeam

Spec == Init /\ [][Next]_vars
-----------------------------------------------------------------------------
TypeOK ==
    /\ initLock \in Process \cup {None}
    /\ \A p \in Process: answer[p] \in Team \cup {None, "failed"}
    /\ uses \subseteq {"task", "removal"}

(* A team's directory appears whole or not at all; as long as nobody       *)
(* removes it, everybody who was given a directory was given this one, of  *)
(* the task and workers he asked for, through publications of which nobody *)
(* knows whether they took place; no call loses its stage to the sweep of  *)
(* another; and a stage that stays behind is due to a fault and hers who   *)
(* died, or whose removal failed.                                          *)
InitIsWhole ==
    /\ "removal" \notin uses =>
        /\ directory # None => directory.whole
        /\ \A p \in Process: answer[p] \in Team =>
            answer[p] = init[p].team /\ directory # None /\ directory.team = answer[p]
    /\ \A p \in Process:
        /\ init[p].alive /\ init[p].pc \in {"mark", "fill", "publish"} => stage[p] # None
        /\ stage[p] # None /\ initLock # p => initFaults > 0
=============================================================================
