----------------------------- MODULE CloudPlan -----------------------------
(***************************************************************************)
(* CloudOrchestrator (cloud-orchestration/orchestrator.ts): a plan file,   *)
(* the cloud agents that work on its tasks, and the three calls that       *)
(* change it without a lock.  executePlan reads the plan once, works on a  *)
(* copy while the agents run, and writes the copy back; ingestLateHandoff  *)
(* reads and writes in one step; cancelPlan awaits the cancellation of     *)
(* every agent between its read and its write.                             *)
(*                                                                         *)
(* An Actor is a call in progress: in one process or in several, since     *)
(* nothing but the file is shared (and the abort signal of a call).        *)
(***************************************************************************)
EXTENDS Naturals, FiniteSets

CONSTANTS
    Actor, Task, Handoff,
    None,
    MaxCalls,   \* bound: calls of executePlan and cancelPlan
    MaxFault    \* bound: agents that fail, kills and aborts

VARIABLES
    plan,       \* the plan file
    actor,      \* per actor: pc, its copy of the plan, the progress of its workers
    aborted,    \* actors whose signal was aborted
    cloud,      \* tasks with a cloud agent at work
    sent,       \* history: how many agents were started for a task
    ingested,   \* history: late handoffs that were accepted
    shown,      \* history: late handoffs in the prompt of the last verifier that passed
    calls,
    overlap,    \* history: a call of executePlan or cancelPlan began while another was in progress
    faults

vars == <<plan, actor, aborted, cloud, sent, ingested, shown, calls, overlap, faults>>

TaskStatus == {"pending", "running", "completed", "failed", "verified", "cancelled"}
PlanStatus == {"planning", "executing", "verifying", "completed", "failed", "replanning", "cancelled"}

Plans == [status: PlanStatus, task: [Task -> TaskStatus], run: SUBSET Task, late: SUBSET Handoff]

\* A call: where it is, its copy of the plan, where its workers are.
Call == [pc: {"idle", "work", "verify", "cancel"}, plan: Plans \cup {None},
         work: [Task -> {"rest", "start", "wait", "end"}]]

Done(s) == s \in {"completed", "verified"}
Rest == [pc |-> "idle", plan |-> None, work |-> [t \in Task |-> "rest"]]

(* createPlan: all tasks pending.                                          *)
Init ==
    /\ plan = [status |-> "planning", task |-> [t \in Task |-> "pending"], run |-> {}, late |-> {}]
    /\ actor = [x \in Actor |-> Rest]
    /\ aborted = {}
    /\ cloud = {}
    /\ sent = [t \in Task |-> 0]
    /\ ingested = {}
    /\ shown = {}
    /\ calls = 0
    /\ overlap = FALSE
    /\ faults = 0

Busy == {x \in Actor: actor[x].pc # "idle"}

-----------------------------------------------------------------------------
(* executePlan.                                                            *)

Execute(x) ==
    LET copy == [plan EXCEPT !.status = "executing"] IN
    /\ actor[x].pc = "idle" /\ calls < MaxCalls
    /\ calls' = calls + 1
    /\ plan' = copy
    /\ actor' = [actor EXCEPT ![x] =
            [pc |-> "work", plan |-> copy,
             work |-> [t \in Task |-> IF Done(copy.task[t]) THEN "end" ELSE "start"]]]
    /\ overlap' = (overlap \/ Busy # {})
    /\ UNCHANGED <<aborted, cloud, sent, ingested, shown, faults>>

\* The worker of t ends with the status s in the copy.
Ends(x, t, s) ==
    actor' = [actor EXCEPT ![x].plan.task[t] = s, ![x].work[t] = "end"]

SkipWorker(x, t) ==
    /\ actor[x].pc = "work" /\ actor[x].work[t] = "start"
    /\ x \in aborted
    /\ Ends(x, t, "cancelled")
    /\ UNCHANGED <<plan, aborted, cloud, sent, ingested, shown, calls, overlap, faults>>

SendWorker(x, t) ==
    /\ actor[x].pc = "work" /\ actor[x].work[t] = "start"
    /\ actor' = [actor EXCEPT ![x].plan.task[t] = "running", ![x].plan.run = @ \cup {t},
                              ![x].work[t] = "wait"]
    /\ cloud' = cloud \cup {t}
    /\ sent' = [sent EXCEPT ![t] = @ + 1]
    /\ UNCHANGED <<plan, aborted, ingested, shown, calls, overlap, faults>>

WorkerReturns(x, t) ==
    /\ actor[x].pc = "work" /\ actor[x].work[t] = "wait"
    /\ Ends(x, t, "completed")
    /\ cloud' = cloud \ {t}
    /\ UNCHANGED <<plan, aborted, sent, ingested, shown, calls, overlap, faults>>

(* The agent cannot be created, cannot be sent to, or reports an error.    *)
WorkerFails(x, t) ==
    /\ actor[x].pc = "work" /\ actor[x].work[t] \in {"start", "wait"} /\ faults < MaxFault
    /\ faults' = faults + 1
    /\ Ends(x, t, IF x \in aborted THEN "cancelled" ELSE "failed")
    /\ cloud' = IF actor[x].work[t] = "wait" THEN cloud \ {t} ELSE cloud
    /\ UNCHANGED <<plan, aborted, sent, ingested, shown, calls, overlap>>

AllEnded(x) == \A t \in Task: actor[x].work[t] = "end"

AnyFailed(x) == \E t \in Task: actor[x].plan.task[t] = "failed"

Write(x, p, next) ==
    /\ plan' = p
    /\ actor' = [actor EXCEPT ![x] = IF next = "idle" THEN Rest ELSE [@ EXCEPT !.pc = next, !.plan = p]]

WorkersFailed(x) ==
    /\ actor[x].pc = "work" /\ AllEnded(x) /\ x \notin aborted /\ AnyFailed(x)
    /\ Write(x, [actor[x].plan EXCEPT !.status = "failed"], "idle")
    /\ UNCHANGED <<aborted, cloud, sent, ingested, shown, calls, overlap, faults>>

StartVerifier(x) ==
    /\ actor[x].pc = "work" /\ AllEnded(x) /\ x \notin aborted /\ ~ AnyFailed(x)
    /\ Write(x, [actor[x].plan EXCEPT !.status = "verifying"], "verify")
    /\ UNCHANGED <<aborted, cloud, sent, ingested, shown, calls, overlap, faults>>

\* Mutant: handoffs that arrived while the verifier ran are not looked for.
LateWhileVerifyingNever(old, stored) == FALSE

LateWhileVerifying(old, stored) == Cardinality(stored) > Cardinality(old)

(* The verdict.  The plan is read again for the sake of handoffs that came *)
(* while the verifier was at work; everything else in it is overwritten.   *)
Verdict(x, passed) ==
    LET old == actor[x].plan IN
    /\ actor[x].pc = "verify"
    /\ passed \/ faults < MaxFault
    /\ faults' = IF passed THEN faults ELSE faults + 1
    /\ shown' = IF passed THEN old.late ELSE shown
    /\ Write(x, [status |-> IF LateWhileVerifying(old.late, plan.late) THEN "replanning"
                            ELSE IF passed THEN "completed" ELSE "failed",
                 task |-> [t \in Task |-> IF passed THEN "verified" ELSE "failed"],
                 run |-> old.run, late |-> plan.late], "idle")
    /\ UNCHANGED <<aborted, cloud, sent, ingested, calls, overlap>>

-----------------------------------------------------------------------------
(* ingestLateHandoff: read, add, write without an await.  The handoff is   *)
(* from task t, or from one that is not in the plan (None).                *)

IngestLateHandoff(h, t) ==
    /\ h \notin ingested
    /\ plan' = [plan EXCEPT !.status = "replanning", !.late = @ \cup {h},
                            !.task = [u \in Task |->
                                IF u = t /\ ~ Done(@[u]) THEN "completed" ELSE @[u]]]
    /\ ingested' = ingested \cup {h}
    /\ UNCHANGED <<actor, aborted, cloud, sent, shown, calls, overlap, faults>>

(* cancelPlan, called on its own or at the end of an aborted execution.    *)
CancelRead(x) ==
    /\ \/ actor[x].pc = "idle" /\ calls < MaxCalls /\ calls' = calls + 1
       \/ actor[x].pc = "work" /\ AllEnded(x) /\ x \in aborted /\ UNCHANGED calls
    /\ actor' = [actor EXCEPT ![x] = [Rest EXCEPT !.pc = "cancel", !.plan = plan]]
    /\ overlap' = (overlap \/ Busy \ {x} # {})
    /\ UNCHANGED <<plan, aborted, cloud, sent, ingested, shown, faults>>

Cancellable(p) == {t \in Task: p.task[t] \in {"running", "pending"}}

CancelRuns(x) ==
    LET copy == actor[x].plan IN
    /\ actor[x].pc = "cancel"
    /\ cloud' = cloud \ (Cancellable(copy) \cap copy.run)
    /\ Write(x, [copy EXCEPT !.status = "cancelled",
                    !.task = [t \in Task |-> IF t \in Cancellable(copy) THEN "cancelled" ELSE @[t]]],
             "idle")
    /\ aborted' = aborted \ {x}
    /\ UNCHANGED <<sent, ingested, shown, calls, overlap, faults>>

Abort(x) ==
    /\ actor[x].pc = "work" /\ x \notin aborted /\ faults < MaxFault
    /\ faults' = faults + 1
    /\ aborted' = aborted \cup {x}
    /\ UNCHANGED <<plan, actor, cloud, sent, ingested, shown, calls, overlap>>

(* A kill of the process: agents in the cloud go on.                       *)
Kill(x) ==
    /\ actor[x].pc # "idle" /\ faults < MaxFault
    /\ faults' = faults + 1
    /\ actor' = [actor EXCEPT ![x] = Rest]
    /\ aborted' = aborted \ {x}
    /\ UNCHANGED <<plan, cloud, sent, ingested, shown, calls, overlap>>

Next ==
    \/ \E x \in Actor:
        \/ Execute(x)
        \/ \E t \in Task: SkipWorker(x, t) \/ SendWorker(x, t) \/ WorkerReturns(x, t) \/ WorkerFails(x, t)
        \/ WorkersFailed(x) \/ StartVerifier(x)
        \/ \E passed \in BOOLEAN: Verdict(x, passed)
        \/ CancelRead(x) \/ CancelRuns(x) \/ Abort(x) \/ Kill(x)
    \/ \E h \in Handoff, t \in Task \cup {None}: IngestLateHandoff(h, t)

Spec == Init /\ [][Next]_vars
-----------------------------------------------------------------------------
TypeOK ==
    /\ plan \in Plans
    /\ actor \in [Actor -> Call]

(* A plan that is "completed" has no late handoff the verifier that passed *)
(* has not seen, unless calls overlapped: a second execution, or a         *)
(* cancellation, writes back what it read, so that the number of handoffs  *)
(* (which is what the code compares) no longer tells which there are.      *)
CompletedWasVerified ==
    plan.status = "completed" /\ ~ overlap => plan.late \subseteq shown

(* "Parent cancellation propagates to all active child runs": when         *)
(* cancelPlan is done, no agent that was at work when it was called is.    *)
CancellationReaches ==
    [][ \A x \in Actor: actor[x].pc = "cancel" /\ plan'.status = "cancelled" /\ plan' # plan
            => cloud' = {} ]_vars
=============================================================================
