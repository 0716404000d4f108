----------------------------- MODULE NativeTeam -----------------------------
(***************************************************************************)
(* Teams of agents of Cursor's own (team/native-supervisor.ts).  start()   *)
(* makes an agent and a run for each worker in turn and then writes a      *)
(* manifest that names them; resume() sends each agent a new run and names *)
(* that one instead; shutdown() cancels the runs named and writes that     *)
(* they are.  status() asks for every run at once.  No call holds a lock,  *)
(* and each works on the manifest it read at its start.                    *)
(*                                                                         *)
(* Runs are the SDK's: they end by themselves, and any call of it may fail.*)
(***************************************************************************)
EXTENDS Naturals, Sequences, FiniteSets, SequencesExt

CONSTANTS
    Process, None,
    NumWorkers,     \* workers of the team
    MaxCalls,       \* bound: calls of the supervisor
    MaxFault        \* bound: SDK calls that fail, and processes killed

VARIABLES
    nativeManifest, \* None, or per worker its run and status, and whether it is stopped
    runs,           \* every run: its worker, the call that started it, and its status
    op,             \* per process: the call, what it read, the workers left and what it has
    overlapped,     \* history: two calls that write the manifest were open at once
    broken,         \* history: calls that never came to write the manifest
    uncancelled,    \* history: runs whose cancellation failed
    informed,       \* history: runs that an answer of status() was about and called inactive
    calls, nativeFaults

vars == <<nativeManifest, runs, op, overlapped, broken, uncancelled, informed, calls, nativeFaults>>

Worker == 1 .. NumWorkers
Resting == [pc |-> "idle", call |-> 0, read |-> None, at |-> 0, workers |-> <<>>]
Active(r) == runs[r].status = "running"

\* None is no manifest.
NoneFits ==
    None \notin [workers: [Worker -> [run: Nat, status: {"running", "finished", "cancelled"}]],
                 stopped: BOOLEAN]

Init ==
    /\ nativeManifest = None /\ runs = <<>>
    /\ op = [p \in Process |-> Resting]
    /\ overlapped = FALSE /\ broken = {} /\ uncancelled = {} /\ informed = {}
    /\ calls = 0 /\ nativeFaults = 0

-----------------------------------------------------------------------------
At(p, pc) == op[p].pc = pc
Fault == nativeFaults < MaxFault /\ nativeFaults' = nativeFaults + 1
Return(p) == op' = [op EXCEPT ![p] = Resting]
Writing == {"start", "resume", "shutdown"}
Left(p) == op[p].at < NumWorkers
Unchanged == UNCHANGED <<overlapped, broken, uncancelled, informed, calls>>

\* A call begins: start() reads nothing, the others need a manifest.
Call(p, pc) ==
    /\ At(p, "idle") /\ calls < MaxCalls /\ calls' = calls + 1
    /\ pc # "start" => nativeManifest # None
    /\ op' = [op EXCEPT ![p] = [Resting EXCEPT !.pc = pc, !.call = calls', !.read = nativeManifest]]
    /\ overlapped' = (overlapped \/ (pc \in Writing /\ \E q \in Process: op[q].pc \in Writing))
    /\ UNCHANGED <<nativeManifest, runs, broken, uncancelled, informed, nativeFaults>>

SaveManifest(workers, stopped) == nativeManifest' = [workers |-> workers, stopped |-> stopped]

-----------------------------------------------------------------------------
(* start and resume.                                                        *)

Started(p) == [worker |-> op[p].at + 1, call |-> op[p].call, status |-> "running"]
Named(r) == [run |-> r, status |-> "running"]

\* createAgent or resumeAgent, then send: the handle names the run.
Launch(p) ==
    /\ op[p].pc \in {"start", "resume"} /\ Left(p)
    /\ runs' = Append(runs, Started(p))
    /\ op' = [op EXCEPT ![p].at = @ + 1, ![p].workers = Append(@, Named(Len(runs')))]
    /\ UNCHANGED <<nativeManifest, nativeFaults>> /\ Unchanged

\* A start that fails half way leaves what it started and writes no manifest.
StartFails(p) ==
    /\ At(p, "start") /\ Left(p) /\ Fault
    /\ broken' = broken \cup {op[p].call}
    /\ Return(p)
    /\ UNCHANGED <<nativeManifest, runs, overlapped, uncancelled, informed, calls>>

\* A worker that cannot be resumed is named as before.
LaunchSkipped(p) ==
    /\ At(p, "resume") /\ Left(p) /\ Fault
    /\ op' = [op EXCEPT ![p].at = @ + 1, ![p].workers = Append(@, op[p].read.workers[op[p].at + 1])]
    /\ UNCHANGED <<nativeManifest, runs>> /\ Unchanged

OldNames(p) == IF At(p, "resume") THEN op[p].read.workers ELSE op[p].workers
NewNames(p) == op[p].workers

Launched(p) ==
    /\ op[p].pc \in {"start", "resume"} /\ ~Left(p)
    /\ SaveManifest(NewNames(p), FALSE)
    /\ Return(p)
    /\ UNCHANGED <<runs, nativeFaults>> /\ Unchanged

-----------------------------------------------------------------------------
(* shutdown.                                                                *)

Target(p) == op[p].read.workers[op[p].at + 1]
Past(p) == op' = [op EXCEPT ![p].at = @ + 1]

\* Best effort: a run that cannot be cancelled keeps none of the others from it.
EndsLoop(p) == op' = [op EXCEPT ![p].at = NumWorkers]
AfterFailure(p) == Past(p)

CancelRun(p) ==
    /\ At(p, "shutdown") /\ Left(p)
    /\ Past(p)
    /\ runs' = [runs EXCEPT ![Target(p).run].status = IF @ = "running" THEN "cancelled" ELSE @]
    /\ UNCHANGED <<nativeManifest, nativeFaults>> /\ Unchanged

CancelFails(p) ==
    /\ At(p, "shutdown") /\ Left(p) /\ Fault
    /\ uncancelled' = uncancelled \cup {Target(p).run}
    /\ AfterFailure(p)
    /\ UNCHANGED <<nativeManifest, runs, overlapped, broken, informed, calls>>

\* Whatever became of the cancellations, all are written as cancelled.
ShutDown(p) ==
    /\ At(p, "shutdown") /\ ~Left(p)
    /\ SaveManifest([k \in Worker |-> [op[p].read.workers[k] EXCEPT !.status = "cancelled"]], TRUE)
    /\ Return(p)
    /\ UNCHANGED <<runs, nativeFaults>> /\ Unchanged

-----------------------------------------------------------------------------
(* status, and faults.                                                      *)

\* The queries go out together, and each is answered when it is; one that fails leaves the
\* status last written.
Query(p) ==
    /\ At(p, "status") /\ Left(p)
    /\ LET w == op[p].read.workers[op[p].at + 1]
       IN \/ /\ op' = [op EXCEPT ![p].at = @ + 1, 
                                      ![p].workers = Append(@, [w EXCEPT !.status = runs[w.run].status])]
             /\ UNCHANGED nativeFaults
          \/ /\ Fault
             /\ op' = [op EXCEPT ![p].at = @ + 1, ![p].workers = Append(@, w)]
    /\ UNCHANGED <<nativeManifest, runs>> /\ Unchanged

Told(p) == \E k \in Worker: op[p].workers[k].status = "running"
Status(p) ==
    /\ At(p, "status") /\ ~Left(p)
    /\ informed' = IF Told(p) /\ ~op[p].read.stopped THEN informed
                   ELSE informed \cup {op[p].workers[k].run: k \in Worker}
    /\ Return(p)
    /\ UNCHANGED <<nativeManifest, runs, overlapped, broken, uncancelled, calls, nativeFaults>>

Kill(p) ==
    /\ ~At(p, "idle") /\ Fault
    /\ broken' = broken \cup {op[p].call}
    /\ Return(p)
    /\ UNCHANGED <<nativeManifest, runs, overlapped, uncancelled, informed, calls>>

RunEnds(r) ==
    /\ Active(r)
    /\ runs' = [runs EXCEPT ![r].status = "finished"]
    /\ UNCHANGED <<nativeManifest, op, nativeFaults>> /\ Unchanged

-----------------------------------------------------------------------------
Next ==
    \/ \E p \in Process:
         \/ \E pc \in Writing \cup {"status"}: Call(p, pc)
         \/ Launch(p) \/ StartFails(p) \/ LaunchSkipped(p) \/ Launched(p)
         \/ CancelRun(p) \/ CancelFails(p) \/ ShutDown(p)
         \/ Query(p) \/ Status(p) \/ Kill(p)
    \/ \E r \in DOMAIN runs: RunEnds(r)

Spec == Init /\ [][Next]_vars

TypeOK ==
    /\ nativeManifest # None =>
         /\ DOMAIN nativeManifest.workers = Worker
         /\ \A k \in Worker: nativeManifest.workers[k].run \in DOMAIN runs
         /\ nativeManifest.stopped \in BOOLEAN
    /\ \A r \in DOMAIN runs: /\ runs[r].worker \in Worker /\ runs[r].call \in 1 .. MaxCalls
                             /\ runs[r].status \in {"running", "finished", "cancelled"}
    /\ \A p \in Process: op[p].pc \in Writing \cup {"idle", "status"} /\ op[p].at \in 0 .. NumWorkers
    /\ broken \subseteq 1 .. MaxCalls
    /\ uncancelled \cup informed \subseteq DOMAIN runs

-----------------------------------------------------------------------------
Quiet == \A p \in Process: op[p].pc \notin Writing
NamedRuns == IF nativeManifest = None THEN {} ELSE {nativeManifest.workers[k].run: k \in Worker}
Superseded(r) == \E s \in DOMAIN runs: s > r /\ runs[s].worker = runs[r].worker

\* As long as the calls that write the manifest come one after another: a run at work is
\* named by it, unless its call never came to write or a later run took its worker; a
\* stopped team's runs have ended, but for cancellations that failed; and status() calls
\* inactive only what has ended.
NobodyLost ==
    ~overlapped =>
        /\ Quiet => \A r \in DOMAIN runs:
             Active(r) => r \in NamedRuns \/ runs[r].call \in broken \/ Superseded(r)
        /\ Quiet /\ nativeManifest # None =>
             (nativeManifest.stopped => \A r \in NamedRuns: Active(r) => r \in uncancelled)
        /\ \A r \in informed: Active(r) => r \in uncancelled
=============================================================================
