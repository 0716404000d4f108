----------------------------- MODULE McpConfig -----------------------------
(***************************************************************************)
(* The entry "oh-my-cursor" of a user's mcp.json (mcp/lifecycle.ts).       *)
(* install puts the launcher there and keeps what it replaced in a receipt;*)
(* uninstall takes it out again; repair, called by setup, follows a        *)
(* launcher that moved.  The first two work under the lock of the file;    *)
(* repair reads before it takes the lock.  The user edits the file at any  *)
(* time, and takes no lock.                                                *)
(*                                                                         *)
(* A file that is absent is one without servers: no branch tells them      *)
(* apart.  A dry run ends before the first write.                          *)
(***************************************************************************)
EXTENDS Naturals, FiniteSets

CONSTANTS
    Caller,
    Launcher,   \* server entries resolveMcpLauncher may answer with
    Foreign,    \* server entries a user writes
    None,
    MaxCalls,   \* bound: calls of install, uninstall and repair
    MaxEdits,   \* bound: edits by the user
    MaxMoves,   \* bound: changes of the launcher
    MaxFault    \* bound: kills and writes that fail

VARIABLES
    config,     \* mcp.json: our server, and the version of all other text
    receipt,    \* .omcu/mcp-install-receipt.json
    launcher,   \* what resolveMcpLauncher finds: the shim, or a checkout
    mcpLock,
    mcp,        \* per caller: pc, what it read
    chosen,     \* history: what the file is without us
    calm,       \* history: no kill, no edit while a call was in progress, and
                \* no repair that read between the two writes of another call
    mcpCalls, edits, moves, mcpFaults

vars == <<config, receipt, launcher, mcpLock, mcp, chosen, calm, mcpCalls, edits, moves, mcpFaults>>
counters == <<mcpCalls, edits, moves, mcpFaults>>

Server == Launcher \cup Foreign \cup {None}
Config == [server: Server, others: Nat]
Receipt == [installed: Launcher, previous: Server]
Rest == [pc |-> "idle", read |-> None, proof |-> None, expected |-> None, replace |-> FALSE]

\* None is no caller, no server and no receipt, and no user writes an entry that is ours.
NoneFits == None \notin Caller \cup Launcher \cup Receipt
OursApart == Launcher \cap Foreign = {}

Init ==
    /\ config \in [server: Foreign \cup {None}, others: {0}] /\ chosen = config
    /\ receipt = None
    /\ launcher \in Launcher
    /\ mcpLock = None
    /\ mcp = [c \in Caller |-> Rest]
    /\ calm = TRUE
    /\ mcpCalls = 0 /\ edits = 0 /\ moves = 0 /\ mcpFaults = 0

-----------------------------------------------------------------------------
Goto(c, l) == mcp' = [mcp EXCEPT ![c].pc = l]
End(c) ==
    /\ mcp' = [mcp EXCEPT ![c] = Rest]
    /\ mcpLock' = IF mcpLock = c THEN None ELSE mcpLock

\* inspectMcpStatus, and the first decision of every call.
Owned(f, r) == r # None /\ f.server # None /\ f.server = r.installed

Status(f, r, expected) ==
    CASE f.server = None     -> "absent"
      [] f.server = expected -> "exact-owned"
      [] f.server # expected /\ Owned(f, r) -> "owned-drifted"
      [] OTHER               -> "foreign-conflict"

Call(c, pc, replace) ==
    /\ mcp[c].pc = "idle" /\ mcpCalls < MaxCalls
    /\ mcpCalls' = mcpCalls + 1
    /\ mcp' = [mcp EXCEPT ![c] = [Rest EXCEPT !.pc = pc, !.expected = launcher, !.replace = replace]]
    /\ UNCHANGED <<config, receipt, launcher, mcpLock, chosen, calm, edits, moves, mcpFaults>>

(* Under the lock: read both files and decide.                             *)
InstallRead(c) ==
    /\ mcp[c].pc = "install" /\ mcpLock = None
    /\ IF config.server = mcp[c].expected \/ (config.server # None /\ ~ mcp[c].replace)
       THEN End(c)                              \* noop, E_MCP_SERVER_COLLISION
       ELSE /\ mcpLock' = c
            /\ mcp' = [mcp EXCEPT ![c].pc = "compare", ![c].read = config, ![c].proof = receipt]
    /\ UNCHANGED <<config, receipt, launcher, chosen, calm, counters>>

(* The text is read once more; an edit made since then is not overwritten, *)
(* one made after it is.                                                   *)
InstallCompare(c) ==
    /\ mcp[c].pc = "compare"
    /\ IF config = mcp[c].read THEN Goto(c, "target") /\ UNCHANGED mcpLock
                               ELSE End(c)      \* E_MCP_TARGET_CHANGED
    /\ UNCHANGED <<config, receipt, launcher, chosen, calm, counters>>

WriteServer(c, server) == config' = [mcp[c].read EXCEPT !.server = server]

InstallTarget(c) ==
    /\ mcp[c].pc = "target"
    /\ WriteServer(c, mcp[c].expected)
    /\ Goto(c, "receipt")
    /\ UNCHANGED <<receipt, launcher, mcpLock, chosen, calm, counters>>

\* Mutant: what is replaced is always taken for the user's own server.
RollbackReplaced(d) == d.read.server

Rollback(d) ==
    IF Owned(d.read, d.proof) THEN d.proof.previous ELSE d.read.server

InstallReceipt(c) ==
    /\ mcp[c].pc = "receipt"
    /\ receipt' = [installed |-> mcp[c].expected, previous |-> Rollback(mcp[c])]
    /\ End(c)
    /\ UNCHANGED <<config, launcher, chosen, calm, counters>>

(* E_MCP_RECEIPT_WRITE_FAILED: the old text is put back.                   *)
InstallReceiptFails(c) ==
    /\ mcp[c].pc = "receipt" /\ mcpFaults < MaxFault
    /\ mcpFaults' = mcpFaults + 1
    /\ config' = mcp[c].read
    /\ End(c)
    /\ UNCHANGED <<receipt, launcher, chosen, calm, mcpCalls, edits, moves>>

UninstallRead(c) ==
    /\ mcp[c].pc = "uninstall" /\ mcpLock = None
    /\ IF receipt # None /\ Owned(config, receipt)
       THEN /\ mcpLock' = c
            /\ mcp' = [mcp EXCEPT ![c].pc = "recompare", ![c].read = config, ![c].proof = receipt]
            /\ UNCHANGED receipt
       ELSE /\ receipt' = IF config.server = None THEN None ELSE receipt   \* already_absent
            /\ End(c)                           \* E_MCP_UNINSTALL_COLLISION
    /\ UNCHANGED <<config, launcher, chosen, calm, counters>>

UninstallCompare(c) ==
    /\ mcp[c].pc = "recompare"
    /\ IF config = mcp[c].read THEN Goto(c, "restore") /\ UNCHANGED mcpLock ELSE End(c)
    /\ UNCHANGED <<config, receipt, launcher, chosen, calm, counters>>

UninstallTarget(c) ==
    /\ mcp[c].pc = "restore"
    /\ WriteServer(c, mcp[c].proof.previous)
    /\ Goto(c, "forget")
    /\ UNCHANGED <<receipt, launcher, mcpLock, chosen, calm, counters>>

UninstallReceipt(c) ==
    /\ mcp[c].pc = "forget"
    /\ receipt' = None
    /\ End(c)
    /\ UNCHANGED <<config, launcher, chosen, calm, counters>>

UninstallReceiptFails(c) ==
    /\ mcp[c].pc = "forget" /\ mcpFaults < MaxFault
    /\ mcpFaults' = mcpFaults + 1
    /\ config' = mcp[c].read
    /\ End(c)
    /\ UNCHANGED <<receipt, launcher, chosen, calm, mcpCalls, edits, moves>>

-----------------------------------------------------------------------------
(* repairOwnedMcpServerSync: reads and decides without the lock, and does  *)
(* not read again under it.                                                *)

RepairRead(c) ==
    /\ mcp[c].pc = "repair"
    /\ IF Status(config, receipt, mcp[c].expected) = "owned-drifted"
       THEN mcp' = [mcp EXCEPT ![c].pc = "wait", ![c].read = config, ![c].proof = receipt] /\ UNCHANGED mcpLock
       ELSE End(c)
    /\ calm' = (calm /\ mcpLock = None)
    /\ UNCHANGED <<config, receipt, launcher, chosen, counters>>

RepairTarget(c) ==
    /\ mcp[c].pc = "wait" /\ mcpLock = None
    /\ mcpLock' = c
    /\ WriteServer(c, mcp[c].expected)
    /\ Goto(c, "rewrite")
    /\ UNCHANGED <<receipt, launcher, chosen, calm, counters>>

RepairReceipt(c) ==
    /\ mcp[c].pc = "rewrite"
    /\ receipt' = [installed |-> mcp[c].expected, previous |-> mcp[c].proof.previous]
    /\ End(c)
    /\ UNCHANGED <<config, launcher, chosen, calm, counters>>

-----------------------------------------------------------------------------
Idle == \A c \in Caller: mcp[c].pc = "idle"

Edit(server) ==
    /\ edits < MaxEdits
    /\ edits' = edits + 1
    /\ config' = [server |-> server, others |-> edits + 1]
    /\ chosen' = [server |-> IF server \in Launcher THEN chosen.server ELSE server, others |-> edits + 1]
    /\ calm' = (calm /\ Idle)
    /\ UNCHANGED <<receipt, launcher, mcpLock, mcp, mcpCalls, moves, mcpFaults>>

(* The shim is installed or removed, or the checkout moves.                *)
Move(l) ==
    /\ moves < MaxMoves /\ l # launcher
    /\ moves' = moves + 1
    /\ launcher' = l
    /\ UNCHANGED <<config, receipt, mcpLock, mcp, chosen, calm, mcpCalls, edits, mcpFaults>>

Kill(c) ==
    /\ mcp[c].pc # "idle" /\ mcpFaults < MaxFault
    /\ mcpFaults' = mcpFaults + 1
    /\ calm' = FALSE
    /\ End(c)
    /\ UNCHANGED <<config, receipt, launcher, chosen, mcpCalls, edits, moves>>

Next ==
    \/ \E c \in Caller:
        \/ \E pc \in {"install", "uninstall", "repair"}, replace \in BOOLEAN:
                (replace => pc = "install") /\ Call(c, pc, replace)
        \/ InstallRead(c) \/ InstallCompare(c) \/ InstallTarget(c)
        \/ InstallReceipt(c) \/ InstallReceiptFails(c)
        \/ UninstallRead(c) \/ UninstallCompare(c) \/ UninstallTarget(c)
        \/ UninstallReceipt(c) \/ UninstallReceiptFails(c)
        \/ RepairRead(c) \/ RepairTarget(c) \/ RepairReceipt(c)
        \/ Kill(c)
    \/ \E server \in Foreign \cup {None, config.server}: Edit(server)
    \/ \E l \in Launcher: Move(l)

Spec == Init /\ [][Next]_vars
-----------------------------------------------------------------------------
TypeOK ==
    /\ config \in Config /\ chosen \in Config
    /\ receipt \in Receipt \cup {None}
    /\ launcher \in Launcher
    /\ mcpLock \in Caller \cup {None}
    /\ mcp \in [Caller -> [pc: {"idle", "install", "compare", "target", "receipt", "uninstall", "recompare",
                                "restore", "forget", "repair", "wait", "rewrite"},
                           read: Config \cup {None}, proof: Receipt \cup {None},
                           expected: Launcher \cup {None}, replace: BOOLEAN]]

(* As long as no call was killed, the user did not edit the file while one *)
(* was in progress and no repair read the two files between the writes of  *)
(* another call: what status reports between two calls is true, and the    *)
(* server the user had can be had back.  An entry that is ours has a   *)
(* receipt that restores the user's, however often the launcher moved and  *)
(* whatever was installed over what; an entry that is not is the user's.   *)
UserServerKept ==
    calm /\ mcpLock = None =>
        /\ config.others = chosen.others
        /\ CASE Status(config, receipt, launcher) \in {"exact-owned", "owned-drifted"} ->
                    Owned(config, receipt) /\ receipt.previous = chosen.server
             [] OTHER -> config.server = chosen.server
=============================================================================
