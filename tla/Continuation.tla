---------------------------- MODULE Continuation ----------------------------
(***************************************************************************)
(* Continuation of a workflow by the stop hooks: the transaction           *)
(* (continuation/transaction.ts, fingerprint.ts), the projection file      *)
(* (runtime/cursor-sdk/store.ts), the handlers that call the transaction   *)
(* (hooks/registry.ts, hooks/dispatcher.ts) and the resumption from a      *)
(* handoff (compaction/handoff.ts).                                        *)
(*                                                                         *)
(* The transaction is the only one that takes the lock of the projection.  *)
(* A response hook adds evidence, and a resumption a new epoch, by writing *)
(* back what they read; every hook is a process, so that anything can come *)
(* in between.                                                             *)
(***************************************************************************)
EXTENDS Naturals, Sequences, FiniteSets, FiniteSetsExt

CONSTANTS
    Hook, Event,
    Fingerprint,    \* failure fingerprints
    MaxContinuations,
    Threshold,      \* maxConsecutiveFailures of the profile
    None,
    MaxEvents,      \* bound: hook calls and resumptions
    MaxChanges      \* bound: changes by the operator or the agent

VARIABLES
    proj,       \* the projection file
    routing,    \* onRepeatedFailure of the profile
    hook,       \* per hook: pc and what it read or was given
    expired,    \* deadline_at has passed
    grants,     \* history: continuations granted, as [event, print, epoch]
    raced,      \* history: a write without the lock undid something
    calls, changes

vars == <<proj, routing, hook, expired, grants, raced, calls, changes>>

Status == {"active", "cancelled", "failed", "blocked", "completed"}
\* What is left to do: open entities, all done, none open but not all done, none defined.
Work == {"open", "done", "closed", "none"}
\* "iterative" phases need no next phase, "stuck" has none, "terminal" ends the profile.
Phase == {"plan", "iterative", "stuck", "terminal"}

\* The projection of a workflow.
Projection ==
    [status: Status, epoch: Nat, consumed: Nat, event: Event \cup {None}, print: Fingerprint \cup {None},
     fails: Nat, cancel: BOOLEAN, work: Work, phase: Phase]

\* None is no event and no fingerprint.
NoneFits == None \notin Event \cup Fingerprint

Rest == [pc |-> "idle", copy |-> None, event |-> None, print |-> None, status |-> None, epoch |-> 0]

Init ==
    /\ proj \in [status: {"active"}, epoch: {1}, consumed: {0}, event: {None}, print: {None}, fails: {0},
                 cancel: {FALSE}, work: {"open"}, phase: {"iterative", "stuck"}]
    /\ routing \in {"replan", "specialist", "human_blocker", "terminal_failure"}
    /\ hook = [h \in Hook |-> Rest]
    /\ expired = FALSE
    /\ grants = <<>>
    /\ raced = FALSE
    /\ calls = 0 /\ changes = 0

-----------------------------------------------------------------------------
(* The handlers.  A stop (or subagentStop) event is given to the           *)
(* transaction if the workflow is active when it is read; the epoch is the *)
(* one of the event, or of the projection as it was read.                  *)

Call == calls < MaxEvents /\ calls' = calls + 1

StopHook(h, e, f, s, epoch) ==
    /\ hook[h].pc = "idle" /\ Call
    /\ proj.status = "active"
    /\ hook' = [hook EXCEPT ![h] = [pc |-> "transact", copy |-> None, event |-> e, print |-> f,
                                    status |-> s, epoch |-> epoch]]
    /\ UNCHANGED <<proj, routing, expired, grants, raced, changes>>

ResponseHook(h) ==
    /\ hook[h].pc = "idle" /\ Call
    /\ hook' = [hook EXCEPT ![h] = [Rest EXCEPT !.pc = "evidence", !.copy = proj]]
    /\ UNCHANGED <<proj, routing, expired, grants, raced, changes>>

(* If the response names tests or a verdict, the projection that was read  *)
(* is written back with one more piece of evidence (which is not part of   *)
(* the model).  Then the hook ends, or asks for a continuation.            *)
SaveEvidence(h, named, e, f) ==
    LET copy == hook[h].copy IN
    /\ hook[h].pc = "evidence"
    /\ proj' = IF named THEN copy ELSE proj
    /\ raced' = (raced \/ (named /\ copy # proj))
    /\ \/ hook' = [hook EXCEPT ![h] = Rest]
       \/ copy.status = "active"
          /\ hook' = [hook EXCEPT ![h] = [pc |-> "transact", copy |-> None, event |-> e, print |-> f,
                                          status |-> "completed", epoch |-> copy.epoch]]
    /\ UNCHANGED <<routing, expired, grants, calls, changes>>

-----------------------------------------------------------------------------
(* The transaction, under the lock: one step.                              *)

Cancelled(d) == proj.cancel \/ d.status = "cancelled"

\* Mutant: the count is not kept in the file.
FailuresLost(f) == 1

Failures(f) == IF f = proj.print THEN proj.fails + 1 ELSE 1

Repeated(f) == f # None /\ Failures(f) >= Threshold

NextAction ==
    /\ proj.phase # "terminal"
    /\ proj.work # "closed"
    /\ proj.work = "open" \/ proj.phase # "stuck"

\* The status with which the transaction ends the workflow, or "active".
Verdict(d) ==
    IF expired \/ proj.consumed >= MaxContinuations THEN "failed"
    ELSE IF d.status = "ambiguous" THEN "blocked"
    ELSE IF Repeated(d.print) /\ routing = "terminal_failure" THEN "failed"
    ELSE IF Repeated(d.print) /\ routing = "human_blocker" THEN "blocked"
    ELSE IF proj.work = "done" THEN "completed"
    ELSE "active"

Grant(d) ==
    [proj EXCEPT !.consumed = @ + 1, !.event = d.event,
                 !.print = IF d.print = None THEN @ ELSE d.print,
                 !.fails = IF d.print = None THEN 0 ELSE Failures(d.print),
                 !.phase = IF Repeated(d.print) /\ routing = "replan" THEN "plan" ELSE @]

Known(d) == d.epoch = proj.epoch /\ d.event # proj.event

(* Refused: another epoch, the event that was granted last, a workflow     *)
(* that is not active, or nothing to do next.                              *)
Refuse(h) ==
    LET d == hook[h] IN
    /\ d.pc = "transact"
    /\ \/ ~ Known(d)
       \/ ~ Cancelled(d) /\ proj.status # "active"
       \/ ~ Cancelled(d) /\ Verdict(d) = "active" /\ ~ NextAction
    /\ hook' = [hook EXCEPT ![h] = Rest]
    /\ UNCHANGED <<proj, routing, expired, grants, raced, calls, changes>>

Cancel(h) ==
    LET d == hook[h] IN
    /\ d.pc = "transact" /\ Known(d) /\ Cancelled(d)
    /\ proj' = [proj EXCEPT !.status = "cancelled"]
    /\ hook' = [hook EXCEPT ![h] = Rest]
    /\ UNCHANGED <<routing, expired, grants, raced, calls, changes>>

EndWorkflow(h) ==
    LET d == hook[h]
        routed == /\ proj.consumed < MaxContinuations /\ ~ expired /\ d.status # "ambiguous"
                  /\ Verdict(d) # "completed"
    IN /\ d.pc = "transact" /\ Known(d) /\ ~ Cancelled(d)
       /\ proj.status = "active" /\ Verdict(d) # "active"
       /\ proj' = [proj EXCEPT !.status = Verdict(d), !.print = IF routed THEN d.print ELSE @,
                               !.phase = IF Verdict(d) = "completed" THEN "terminal" ELSE @]
       /\ hook' = [hook EXCEPT ![h] = Rest]
       /\ UNCHANGED <<routing, expired, grants, raced, calls, changes>>

GrantContinuation(h) ==
    LET d == hook[h] IN
    /\ d.pc = "transact" /\ Known(d) /\ ~ Cancelled(d)
    /\ proj.status = "active" /\ Verdict(d) = "active" /\ NextAction
    /\ proj' = Grant(d)
    /\ grants' = Append(grants, [event |-> d.event, print |-> d.print, epoch |-> proj.epoch])
    /\ hook' = [hook EXCEPT ![h] = Rest]
    /\ UNCHANGED <<routing, expired, raced, calls, changes>>

(* A kill, or the time limit of the dispatcher while the lock is awaited.  *)
HookEnds(h) ==
    /\ hook[h].pc # "idle"
    /\ hook' = [hook EXCEPT ![h] = Rest]
    /\ UNCHANGED <<proj, routing, expired, grants, raced, calls, changes>>

-----------------------------------------------------------------------------
(* resumeWorkflowFromHandoff: the native agent is resumed between the read *)
(* and the write.                                                          *)

ResumeRead(h) ==
    /\ hook[h].pc = "idle" /\ Call
    /\ proj.status # "cancelled"
    /\ hook' = [hook EXCEPT ![h] = [Rest EXCEPT !.pc = "resume", !.copy = proj]]
    /\ UNCHANGED <<proj, routing, expired, grants, raced, changes>>

ResumeWrite(h) ==
    LET copy == hook[h].copy IN
    /\ hook[h].pc = "resume"
    /\ proj' = [copy EXCEPT !.epoch = @ + 1, !.status = "active"]
    /\ raced' = (raced \/ copy # proj)
    /\ hook' = [hook EXCEPT ![h] = Rest]
    /\ UNCHANGED <<routing, expired, grants, calls, changes>>

(* External: whoever else saves the projection asks for its cancellation,  *)
(* or records progress.                                                    *)
Change(cancel, work) ==
    /\ changes < MaxChanges /\ changes' = changes + 1
    /\ proj' = [proj EXCEPT !.cancel = cancel \/ @, !.work = work]
    /\ proj' # proj
    /\ UNCHANGED <<routing, hook, expired, grants, raced, calls>>

Expire ==
    /\ ~ expired
    /\ expired' = TRUE
    /\ UNCHANGED <<proj, routing, hook, grants, raced, calls, changes>>

Next ==
    \/ \E h \in Hook:
        \/ \E e \in Event, f \in Fingerprint \cup {None}:
            \/ \E s \in {"completed", "cancelled", "ambiguous"}, epoch \in {1, proj.epoch}: StopHook(h, e, f, s, epoch)
            \/ \E named \in BOOLEAN: SaveEvidence(h, named, e, f)
        \/ ResponseHook(h) \/ Refuse(h) \/ Cancel(h) \/ EndWorkflow(h) \/ GrantContinuation(h) \/ HookEnds(h)
        \/ ResumeRead(h) \/ ResumeWrite(h)
    \/ \E cancel \in BOOLEAN, work \in Work: Change(cancel, work)
    \/ Expire

Spec == Init /\ [][Next]_vars
-----------------------------------------------------------------------------
TypeOK ==
    /\ proj \in Projection
    /\ \A h \in Hook: hook[h].pc \in {"idle", "evidence", "transact", "resume"}

\* The failures at the end of the grants that have the fingerprint f.
Streak(s, f) ==
    LET n == CHOOSE k \in 0 .. Len(s):
                /\ \A i \in Len(s) - k + 1 .. Len(s): s[i].print = f
                /\ k < Len(s) => s[Len(s) - k].print # f
    IN n

(* "Hook events only continue when identity, epoch, budget, idempotency,   *)
(* and progress invariants hold": as long as no write without the lock     *)
(* undid a transaction, a workflow is continued at most as often as its    *)
(* budget says, not twice in a row by the same event, not by an event of   *)
(* an earlier epoch, and under a policy that stops on repeated failures no *)
(* failure is answered Threshold times in a row.                           *)
GrantsBounded ==
    ~ raced =>
        /\ Len(grants) <= MaxContinuations
        /\ \A i \in 1 .. Len(grants) - 1:
            grants[i].event # grants[i + 1].event /\ grants[i].epoch <= grants[i + 1].epoch
        /\ routing \in {"human_blocker", "terminal_failure"} =>
            \A n \in DOMAIN grants, f \in Fingerprint: Streak(SubSeq(grants, 1, n), f) < Threshold
=============================================================================
