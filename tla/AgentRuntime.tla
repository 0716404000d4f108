---------------------------- MODULE AgentRuntime ----------------------------
(***************************************************************************)
(* The runtime over Cursor's SDK (runtime/cursor-sdk/runtime.ts): agents   *)
(* created or resumed through it are managed until dispose() closes them   *)
(* all.  Callers share a process and interleave at every await: an agent   *)
(* may come into being while dispose() is closing the others, and be sent  *)
(* a message while somebody else closes it.                                *)
(*                                                                         *)
(* The SDK is external: its calls return, or fail, when they please, and   *)
(* its runs end by themselves.                                             *)
(***************************************************************************)
EXTENDS Naturals, Sequences, FiniteSets, SequencesExt

CONSTANTS
    Caller, None,
    MaxAgents,  \* bound: calls of createAgent and resumeAgent
    MaxSends,   \* bound: calls of send and prompt
    MaxFault    \* bound: SDK calls that fail

VARIABLES
    disposed,   \* the runtime was told to dispose
    managed,    \* managedAgents, in the order they were added
    agent,      \* every agent made: whether close() was called on it, and whether it is closed
    run,        \* every run started: its agent (None for a prompt) and its status
    caller,     \* per caller: pc, the agent or run it is at, and how far its loop came
    swept,      \* history: agents that were managed when dispose() had closed them all, or None
    told,       \* history: what wait() and cancel() answered of a run that had ended
    sdkFaults

vars == <<disposed, managed, agent, run, caller, swept, told, sdkFaults>>

Idle == [pc |-> "idle", at |-> 0, from |-> None]
Ended == {"finished", "error", "cancelled"}

Init ==
    /\ disposed = FALSE /\ managed = <<>> /\ agent = <<>> /\ run = <<>>
    /\ caller = [c \in Caller |-> Idle]
    /\ swept = None /\ told = {} /\ sdkFaults = 0

-----------------------------------------------------------------------------
At(c, pc) == caller[c].pc = pc
Goto(c, pc, at) == caller' = [caller EXCEPT ![c].pc = pc, ![c].at = at]
Return(c) == caller' = [caller EXCEPT ![c] = Idle]
Fault == sdkFaults < MaxFault /\ sdkFaults' = sdkFaults + 1
Busy(pc) == Cardinality({c \in Caller: At(c, pc)})
Unchanged == UNCHANGED <<disposed, managed, agent, run, swept, told>>

\* createAgent and resumeAgent: a disposed runtime makes no more agents, but one that is
\* being made when dispose() is called is still added.
CreateAgent(c) ==
    /\ At(c, "idle") /\ ~disposed
    /\ Len(agent) + Busy("creating") < MaxAgents
    /\ Goto(c, "creating", 0) /\ UNCHANGED sdkFaults /\ Unchanged

AgentMade(c) ==
    /\ At(c, "creating")
    /\ agent' = Append(agent, [disposed |-> FALSE, closed |-> FALSE])
    /\ managed' = Append(managed, Len(agent'))
    /\ Return(c) /\ UNCHANGED <<disposed, run, swept, told, sdkFaults>>

AgentRefused(c) ==
    /\ At(c, "creating") /\ Fault
    /\ Return(c) /\ Unchanged

\* ManagedCursorAgent.send, on an agent that is not closed, and prompt, on a runtime that is not disposed.
Send(c, a) ==
    /\ At(c, "idle") /\ Len(run) + Busy("sending") < MaxSends
    /\ IF a = None THEN ~disposed ELSE ~agent[a].disposed
    /\ caller' = [caller EXCEPT ![c] = [pc |-> "sending", at |-> 0, from |-> a]]
    /\ UNCHANGED sdkFaults /\ Unchanged

\* prompt() answers when its run has ended, send() as soon as it has begun.
RunStarted(c) ==
    /\ At(c, "sending")
    /\ run' = Append(run, [agent |-> caller[c].from, status |-> "running"])
    /\ IF caller[c].from = None THEN Goto(c, "waiting", Len(run')) ELSE Return(c)
    /\ UNCHANGED <<disposed, managed, agent, swept, told, sdkFaults>>

SendFailed(c) ==
    /\ At(c, "sending") /\ Fault
    /\ Return(c) /\ Unchanged

\* CursorRunHandle.wait: a run that ended in error is an error, and so is a call that failed.
Wait(c, r) ==
    /\ At(c, "idle")
    /\ Goto(c, "waiting", r) /\ UNCHANGED sdkFaults /\ Unchanged

Outcome(status) == IF status = "error" THEN "thrown" ELSE "result"
Waited(c) ==
    /\ At(c, "waiting") /\ run[caller[c].at].status \in Ended
    /\ told' = told \cup {<<run[caller[c].at].status, Outcome(run[caller[c].at].status)>>}
    /\ Return(c) /\ UNCHANGED <<disposed, managed, agent, run, swept, sdkFaults>>

WaitFailed(c) ==
    /\ At(c, "waiting") /\ Fault
    /\ Return(c) /\ Unchanged

\* CursorRunHandle.cancel, where the run supports it; the answer comes with the cancellation.
Cancel(c, r) ==
    /\ At(c, "idle")
    /\ run' = [run EXCEPT ![r].status = IF @ = "running" THEN "cancelled" ELSE @]
    /\ UNCHANGED <<disposed, managed, agent, caller, swept, told, sdkFaults>>

RunEnds(r) ==
    /\ run[r].status = "running"
    /\ \E s \in {"finished", "error"}: run' = [run EXCEPT ![r].status = s]
    /\ UNCHANGED <<disposed, managed, agent, caller, swept, told, sdkFaults>>

-----------------------------------------------------------------------------
(* ManagedCursorAgent.close and dispose.                                    *)

\* close(): the second call has nothing to wait for; a failure to close is ignored.
Close(c, a) ==
    /\ At(c, "idle") /\ ~agent[a].disposed
    /\ agent' = [agent EXCEPT ![a].disposed = TRUE]
    /\ Goto(c, "closing", a)
    /\ UNCHANGED <<disposed, managed, run, swept, told, sdkFaults>>

Closed(c) ==
    /\ At(c, "closing")
    /\ \/ agent' = [agent EXCEPT ![caller[c].at].closed = TRUE] /\ UNCHANGED sdkFaults
       \/ Fault /\ UNCHANGED agent
    /\ Return(c) /\ UNCHANGED <<disposed, managed, run, swept, told>>

\* dispose(): the agents are closed one after another, those added meanwhile among them.
Dispose(c) ==
    /\ At(c, "idle") /\ ~disposed
    /\ disposed' = TRUE
    /\ caller' = [caller EXCEPT ![c] = [pc |-> "sweeping", at |-> 0, from |-> Len(managed)]]
    /\ UNCHANGED <<managed, agent, run, swept, told, sdkFaults>>

RemainingAtFirst(c) == caller[c].from
Remaining(c) == Len(managed)

Sweep(c) ==
    /\ At(c, "sweeping") /\ caller[c].at < Remaining(c)
    /\ LET a == managed[caller[c].at + 1]
       IN IF agent[a].disposed
          THEN caller' = [caller EXCEPT ![c].at = @ + 1] /\ UNCHANGED agent
          ELSE /\ agent' = [agent EXCEPT ![a].disposed = TRUE]
               /\ Goto(c, "disposing", caller[c].at)
    /\ UNCHANGED <<disposed, managed, run, swept, told, sdkFaults>>

Swept(c) ==
    /\ At(c, "disposing")
    /\ \/ /\ agent' = [agent EXCEPT ![managed[caller[c].at + 1]].closed = TRUE]
          /\ UNCHANGED sdkFaults
       \/ Fault /\ UNCHANGED agent
    /\ Goto(c, "sweeping", caller[c].at + 1)
    /\ UNCHANGED <<disposed, managed, run, swept, told>>

Disposed(c) ==
    /\ At(c, "sweeping") /\ caller[c].at = Remaining(c)
    /\ swept' = Range(managed) /\ managed' = <<>>
    /\ Return(c) /\ UNCHANGED <<disposed, agent, run, told, sdkFaults>>

-----------------------------------------------------------------------------
Next ==
    \/ \E c \in Caller:
         \/ CreateAgent(c) \/ AgentMade(c) \/ AgentRefused(c)
         \/ \E a \in DOMAIN agent \cup {None}: Send(c, a)
         \/ RunStarted(c) \/ SendFailed(c)
         \/ \E r \in DOMAIN run: Wait(c, r) \/ Cancel(c, r)
         \/ Waited(c) \/ WaitFailed(c)
         \/ \E a \in DOMAIN agent: Close(c, a)
         \/ Closed(c) \/ Dispose(c) \/ Sweep(c) \/ Swept(c) \/ Disposed(c)
    \/ \E r \in DOMAIN run: RunEnds(r)

Spec == Init /\ [][Next]_vars

TypeOK ==
    /\ disposed \in BOOLEAN
    /\ Range(managed) \subseteq DOMAIN agent
    /\ agent \in Seq([disposed: BOOLEAN, closed: BOOLEAN])
    /\ \A r \in DOMAIN run: run[r].status \in Ended \cup {"running"}
    /\ \A c \in Caller: caller[c].pc \in {"idle", "creating", "sending", "waiting", "closing",
                                          "sweeping", "disposing"}
    /\ sdkFaults \in 0 .. MaxFault

-----------------------------------------------------------------------------
ClosedByOther(a) == \E c \in Caller: At(c, "closing") /\ caller[c].at = a

\* When dispose() has closed the agents, every agent it managed was closed, by it or by who
\* is still at it, also those added while it was closing others, and one that fails to
\* close keeps no other open; and what wait() answers of a run is how the run ended.
DisposedIsClosed ==
    /\ swept # None =>
         /\ \A a \in swept: agent[a].disposed
         /\ Cardinality({a \in swept: ~agent[a].closed /\ ~ClosedByOther(a)}) <= sdkFaults
    /\ \A t \in told: t[2] = "result" => t[1] # "error"
=============================================================================
