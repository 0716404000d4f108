----------------------------- MODULE Automations -----------------------------
(***************************************************************************)
(* Automations (automations/manager.ts).  A plan is a file of ours; to     *)
(* install it is to export it, to Cursor's directory or to that of a local *)
(* scheduler, and then to write in the plan where it went; to remove it is *)
(* to delete both exports and then to write that.  There is no lock, and   *)
(* between two writes a process may be killed or another one may write.    *)
(*                                                                         *)
(* Whether Cursor can run automations is each process's own impression.    *)
(***************************************************************************)
EXTENDS Naturals, FiniteSets

CONSTANTS
    Process, None,
    MaxCalls,   \* bound: calls of the manager
    MaxFault    \* bound: writes that fail, and processes killed

VARIABLES
    automation, \* the plan: None, or its status and target
    exports,    \* where it is exported: "cursor-native", "fallback-local"
    manager,    \* per process: pc, what it loaded, what it may use, and what it will write
    mixed,      \* history: two calls that change files were open at once
    half,       \* history: a call stopped half way and no other one has set it right since
    managerCalls, managerFaults

vars == <<automation, exports, manager, mixed, half, managerCalls, managerFaults>>

Target == {"cursor-native", "fallback-local"}
Status == {"planned", "installed", "disabled"}
Manifest == [status: Status, target: Target]
Resting == [pc |-> "idle", plan |-> None, fallback |-> FALSE, target |-> None]

Init ==
    /\ automation = None /\ exports = {}
    /\ manager = [p \in Process |-> Resting]
    /\ mixed = FALSE /\ half = FALSE
    /\ managerCalls = 0 /\ managerFaults = 0

-----------------------------------------------------------------------------
At(p, pc) == manager[p].pc = pc
Goto(p, pc) == manager' = [manager EXCEPT ![p].pc = pc]
Return(p) == manager' = [manager EXCEPT ![p] = Resting]
Fault == managerFaults < MaxFault /\ managerFaults' = managerFaults + 1
Unfaulted == UNCHANGED managerFaults

\* A call that changes files begins; it works on the plan it loads now.
Open(p, entry) ==
    /\ At(p, "idle")
    /\ managerCalls < MaxCalls /\ managerCalls' = managerCalls + 1
    /\ manager' = [manager EXCEPT ![p] = entry]
    /\ mixed' = (mixed \/ \E q \in Process: ~At(q, "idle"))
    /\ UNCHANGED <<automation, exports, half, managerFaults>>

Plan(p) == \E t \in Target: Open(p, [Resting EXCEPT !.pc = "plan", !.target = t])

\* plan() writes whatever was there before.
Planned(p) ==
    /\ At(p, "plan")
    /\ automation' = [status |-> "planned", target |-> manager[p].target]
    /\ Return(p) /\ UNCHANGED <<exports, mixed, half, managerCalls, managerFaults>>

\* install() exports to Cursor if that can run it, else to the scheduler if that is allowed.
Install(p) ==
    /\ automation # None
    /\ \E available, allowed \in BOOLEAN:
         /\ available \/ allowed
         /\ Open(p, [pc |-> "export", plan |-> automation, fallback |-> allowed,
                     target |-> IF available THEN "cursor-native" ELSE "fallback-local"])

Export(p) ==
    /\ At(p, "export")
    /\ exports' = exports \cup {manager[p].target}
    /\ Goto(p, "commit")
    /\ UNCHANGED <<automation, mixed, half, managerCalls>> /\ Unfaulted

Commit(p) ==
    /\ At(p, "commit")
    /\ automation' = [status |-> "installed", target |-> manager[p].target]
    /\ half' = FALSE
    /\ Return(p) /\ UNCHANGED <<exports, mixed, managerCalls, managerFaults>>

\* What fails on the way to Cursor, its export written or not, is done with the scheduler if
\* that is allowed; what fails on the way to the scheduler is the caller's.
WriteFails(p) ==
    /\ manager[p].pc \in {"plan", "export", "commit", "disable"} /\ Fault
    /\ IF manager[p].target = "cursor-native" /\ manager[p].fallback /\ ~At(p, "plan")
       THEN manager' = [manager EXCEPT ![p].pc = "export", ![p].target = "fallback-local"]
       ELSE Return(p)
    /\ half' = (half \/ ~At(p, "plan"))
    /\ UNCHANGED <<automation, exports, mixed, managerCalls>>

-----------------------------------------------------------------------------
Remove(p) == automation # None /\ Open(p, [Resting EXCEPT !.pc = "remove", !.plan = automation])

RemovableByTarget(p, t) == t \in exports /\ t = manager[p].plan.target
Removable(p, t) == t \in exports

\* Both exports are deleted, one after the other, as far as that can be done.
RemoveExport(p, t) ==
    /\ At(p, IF t = "cursor-native" THEN "remove" ELSE "remove_fallback")
    /\ \/ /\ exports' = IF Removable(p, t) THEN exports \ {t} ELSE exports
          /\ half' = (half /\ t # "cursor-native") /\ Unfaulted
       \/ t \in exports /\ Fault /\ half' = TRUE /\ UNCHANGED exports
    /\ Goto(p, IF t = "cursor-native" THEN "remove_fallback" ELSE "disable")
    /\ UNCHANGED <<automation, mixed, managerCalls>>

Disable(p) ==
    /\ At(p, "disable")
    /\ automation' = [manager[p].plan EXCEPT !.status = "disabled"]
    /\ Return(p) /\ UNCHANGED <<exports, mixed, half, managerCalls, managerFaults>>

Kill(p) ==
    /\ ~At(p, "idle") /\ Fault
    /\ half' = (half \/ ~At(p, "plan"))
    /\ Return(p) /\ UNCHANGED <<automation, exports, mixed, managerCalls>>

Next ==
    \E p \in Process:
        \/ Plan(p) \/ Planned(p) \/ Install(p) \/ Export(p) \/ Commit(p) \/ WriteFails(p)
        \/ Remove(p) \/ (\E t \in Target: RemoveExport(p, t)) \/ Disable(p) \/ Kill(p)

Spec == Init /\ [][Next]_vars

TypeOK ==
    /\ automation = None \/ automation \in Manifest
    /\ exports \subseteq Target
    /\ \A p \in Process: /\ manager[p].plan = None \/ manager[p].plan \in Manifest
                         /\ manager[p].pc \in {"idle", "plan", "export", "commit", "remove",
                                               "remove_fallback", "disable"}
    /\ managerCalls \in 0 .. MaxCalls /\ managerFaults \in 0 .. MaxFault

-----------------------------------------------------------------------------
\* Between calls that came one after another and to their ends: a plan said to be installed
\* is exported where it says, and one said to be disabled nowhere, also after it went to
\* both places; what a call left half done is set right by the next that comes to its end.
ExportsAsTold ==
    /\ ~mixed /\ ~half /\ automation # None
    /\ \A p \in Process: At(p, "idle")
    => /\ automation.status = "installed" => automation.target \in exports
       /\ automation.status = "disabled" => exports = {}
=============================================================================
