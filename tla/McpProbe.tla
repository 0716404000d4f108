------------------------------ MODULE McpProbe ------------------------------
(***************************************************************************)
(* probeMcpHealth of mcp/lifecycle.ts: the configured server is started,   *)
(* asked to initialize and to list its tools, and told to end, by SIGTERM  *)
(* and half a second later by SIGKILL.  Its answers, its exit and two      *)
(* timers race; the first report counts.  Neither timer keeps the command  *)
(* alive: when the server is gone and nothing was reported, the command    *)
(* may simply end.                                                         *)
(***************************************************************************)
EXTENDS Naturals, Sequences

CONSTANT MaxLines   \* bound: lines the server writes

VARIABLES
    server,     \* none, up, exited, killed
    pipe,       \* its lines that were not read yet
    stage,      \* waiting_init, waiting_tools, done
    timer,      \* the timer of the probe is set
    force,      \* the timer that follows SIGTERM is set
    report,     \* none, ok, failed, timeout: what finish() was called with first
    loop,       \* the command: waiting, answered, gone
    wrote,      \* history: the lines the server wrote
    deserted    \* history: the server ended before it was told to

vars == <<server, pipe, stage, timer, force, report, loop, wrote, deserted>>

\* id 0 is anything else: notifications, logs, empty lines, no JSON.
Line == [id: {1, 2}, good: BOOLEAN] \cup [id: {0}, good: {FALSE}]

Init ==
    /\ server = "none" /\ pipe = <<>> /\ stage = "waiting_init"
    /\ timer = TRUE /\ force = FALSE
    /\ report = "none" /\ loop = "waiting"
    /\ wrote = <<>> /\ deserted = FALSE

Waiting == loop = "waiting" /\ report = "none"

\* Mutant: the report does not wait for the end of the server.
FinishAtOnce(r) == report' = r /\ timer' = FALSE /\ force' = (server = "up") /\ loop' = "answered"

(* finish and terminateChild: a server that runs is told to end and waited *)
(* for.                                                                    *)
Finish(r) ==
    /\ report' = r
    /\ timer' = FALSE
    /\ force' = (server = "up")
    /\ loop' = IF server = "up" THEN "waiting" ELSE "answered"

-----------------------------------------------------------------------------
Spawn ==
    /\ Waiting /\ server = "none"
    /\ server' = "up"
    /\ UNCHANGED <<pipe, stage, timer, force, report, loop, wrote, deserted>>

SpawnFails ==
    /\ Waiting /\ server = "none"
    /\ Finish("failed")
    /\ UNCHANGED <<server, pipe, stage, wrote, deserted>>

Write ==
    /\ server = "up" /\ Len(wrote) < MaxLines
    /\ \E l \in Line:
        /\ wrote' = Append(wrote, l)
        /\ pipe' = IF report = "none" THEN Append(pipe, l) ELSE pipe
    /\ UNCHANGED <<server, stage, timer, force, report, loop, deserted>>

(* By itself, or because it was told to.                                   *)
Exit ==
    /\ server = "up"
    /\ server' = "exited"
    /\ deserted' = (deserted \/ report = "none")
    /\ UNCHANGED <<pipe, stage, timer, force, report, loop, wrote>>

-----------------------------------------------------------------------------
Expected == CASE stage = "waiting_init" -> 1 [] stage = "waiting_tools" -> 2 [] OTHER -> 3

Ignored ==
    /\ Waiting /\ pipe # <<>> /\ Head(pipe).id # Expected
    /\ pipe' = Tail(pipe)
    /\ UNCHANGED <<server, stage, timer, force, report, loop, wrote, deserted>>

Initialized ==
    /\ Waiting /\ stage = "waiting_init" /\ pipe # <<>> /\ Head(pipe).id = 1 /\ Head(pipe).good
    /\ pipe' = Tail(pipe)
    /\ stage' = "waiting_tools"
    /\ UNCHANGED <<server, timer, force, report, loop, wrote, deserted>>

Listed ==
    /\ Waiting /\ stage = "waiting_tools" /\ pipe # <<>> /\ Head(pipe).id = 2 /\ Head(pipe).good
    /\ pipe' = Tail(pipe)
    /\ stage' = "done"
    /\ Finish("ok")
    /\ UNCHANGED <<server, wrote, deserted>>

BadAnswer ==
    /\ Waiting /\ pipe # <<>> /\ Head(pipe).id = Expected /\ ~ Head(pipe).good
    /\ pipe' = Tail(pipe)
    /\ Finish("failed")
    /\ UNCHANGED <<server, stage, wrote, deserted>>

Timeout ==
    /\ Waiting /\ timer
    /\ Finish("timeout")
    /\ UNCHANGED <<server, pipe, stage, wrote, deserted>>

\* The exit event after SIGTERM.
Ended ==
    /\ loop = "waiting" /\ report # "none" /\ server = "exited"
    /\ force' = FALSE /\ loop' = "answered"
    /\ UNCHANGED <<server, pipe, stage, timer, report, wrote, deserted>>

ForceKill ==
    /\ force
    /\ server' = IF server = "up" THEN "killed" ELSE server
    /\ force' = FALSE /\ loop' = "answered"
    /\ UNCHANGED <<pipe, stage, timer, report, wrote, deserted>>

(* Nothing is left to wait for, or a write to the server's input fails     *)
(* with an error nobody handles.                                           *)
Gone ==
    /\ Waiting /\ server = "exited" /\ (pipe = <<>> \/ stage = "waiting_init")
    /\ loop' = "gone"
    /\ UNCHANGED <<server, pipe, stage, timer, force, report, wrote, deserted>>

Next ==
    \/ Spawn \/ SpawnFails \/ Write \/ Exit \/ Ignored \/ Initialized \/ Listed \/ BadAnswer
    \/ Timeout \/ Ended \/ ForceKill \/ Gone

Spec == Init /\ [][Next]_vars
-----------------------------------------------------------------------------
TypeOK ==
    /\ server \in {"none", "up", "exited", "killed"}
    /\ stage \in {"waiting_init", "waiting_tools", "done"}
    /\ report \in {"none", "ok", "failed", "timeout"}
    /\ loop \in {"waiting", "answered", "gone"}

(* A server is called healthy only after it has answered both requests     *)
(* well and in their order; when the command goes on, the server has ended *)
(* or was killed; a probe that waits has a timer or a server to wake it;   *)
(* and only a server that ended by itself can leave it without an answer.  *)
ProbeTells ==
    /\ report = "ok" => \E i, j \in DOMAIN wrote:
        i < j /\ wrote[i] = [id |-> 1, good |-> TRUE] /\ wrote[j] = [id |-> 2, good |-> TRUE]
    /\ loop = "answered" => report # "none" /\ server # "up"
    /\ loop = "waiting" => timer \/ force \/ server = "exited"
    /\ loop = "gone" => deserted
=============================================================================
