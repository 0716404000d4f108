------------------------------- MODULE System -------------------------------
(***************************************************************************)
(* The components that keep files of their own, side by side.  Under       *)
(* .omcu/ every one of them has its own directory and its own lock and     *)
(* none reads the files of another while it works, so that a behaviour of  *)
(* the system is, for each of them, a behaviour of its module; the part    *)
(* that runs is chosen at the start, and the registers are its variables.  *)
(* What components share is modelled where it is shared: DirectoryLock     *)
(* under all their locks, AtomicFile under all their writes, Journal under *)
(* their logs.                                                             *)
(***************************************************************************)
EXTENDS Naturals, Sequences, JournalParameters, InstallParameters, TLC

CONSTANTS
    Process, Item,      \* processes, and what they work on, that nothing tells apart
    q1, q2, x1, x2, x3  \* those that differ

Symmetry == Permutations(Process) \cup Permutations(Item) \cup Permutations(Release)

\* A graph whose first two tasks own paths of which one is above the other.
GraphPaths == [t \in {x1, x2, x3} |-> CASE t = x1 -> {<<1>>}
                                        [] t = x2 -> {<<1, 2>>}
                                        [] t = x3 -> {}]

\* Lines of a transcript: a root, its answer, and one too long to be read that begins
\* with the root's id.
TranscriptLines == {[id |-> x1, parent |-> None, size |-> 1, cut |-> {}],
                    [id |-> x2, parent |-> x1, size |-> 1, cut |-> {}],
                    [id |-> x1, parent |-> None, size |-> 3, cut |-> {x1}]}

\* The same task with and without a request_id and a dependency, and another one under
\* the same request_id.
TaskRequests == {[what |-> x1, rid |-> None, after |-> {}], [what |-> x1, rid |-> None, after |-> {1}],
                 [what |-> x1, rid |-> x1, after |-> {}], [what |-> x2, rid |-> x1, after |-> {1}]}

VARIABLES
    part,   \* the component that runs
    r1, r2, r3, r4, r5, r6, r7, r8, r9, r10, r11, r12, r13, r14, r15, r16, r17, r18, r19   \* its variables

registers == <<r1, r2, r3, r4, r5, r6, r7, r8, r9, r10, r11, r12, r13, r14, r15, r16,
               r17, r18, r19>>

-----------------------------------------------------------------------------
Journal == INSTANCE Journal WITH
    meta <- r1, head <- r2, files <- r3, lines <- r4, quarantine <- r5, intents <- r6,
    receipts <- r7, pc <- r8, target <- r9, todo <- r10, job <- r11, acked <- r12,
    appends <- r13, repairs <- r14, interrupts <- r15, rpc <- r16, rhead <- r17,
    rlist <- r18, rgot <- r19

InstallTransaction == INSTANCE InstallTransaction WITH
    cli <- r1, pointer <- r2, receipts <- r3, stage <- r4, tmp <- r5, journal <- r6,
    project <- r7, pc <- r8, job <- r9, fate <- r10, txns <- r11, calls <- r12,
    faults <- r13, drifts <- r14

\* None is nobody, and nothing an installation keeps.
ASSUME InstallationAssumption == InstallTransaction!NoneFits

Workflow == INSTANCE Workflow WITH
    record <- r1, events <- r2, storeLock <- r3, supported <- r4, pc <- r5, seen <- r6,
    rev <- r7, lease <- r8, staged <- r9, invoked <- r10, faults <- r11,
    Runner <- {q1, q2}, Proven <- {q1}, MaxFault <- 2,
    Stages <- <<[max |-> 2, needs |-> {}], [max |-> 1, needs |-> {1}]>>

\* None is none of a workflow's runners, leases, events and staged writes.
ASSUME WorkflowAssumption == Workflow!NoneFits

CloudPlan == INSTANCE CloudPlan WITH
    plan <- r1, actor <- r2, aborted <- r3, cloud <- r4, sent <- r5, ingested <- r6,
    shown <- r7, calls <- r8, overlap <- r9, faults <- r10,
    Actor <- Process, Task <- Item, Handoff <- {x1, x2}, MaxCalls <- 2, MaxFault <- 1

TaskGraph == INSTANCE TaskGraph WITH
    deps <- r1, store <- r2, dag <- r3, worker <- r4, signal <- r5, live <- r6,
    count <- r7, op <- r8, passed <- r9, touched <- r10, ops <- r11, faults <- r12,
    Task <- {x1, x2, x3}, Owned <- GraphPaths, Location <- [t \in {x1, x2, x3} |-> "main"],
    Concurrency <- 2, MaxRuns <- 1, MaxOps <- 1, MaxFault <- 1

PersistLoop == INSTANCE PersistLoop WITH
    file <- r1, hook <- r2, session <- r3, followups <- r4, expired <- r5, stops <- r6,
    ops <- r7,
    Hook <- Process, Event <- {x1}, MaxLoop <- 3, MaxLoops <- 2, MaxStops <- 4, MaxOps <- 2

\* None is neither a loop count nor a persist file.
ASSUME PersistAssumption == PersistLoop!NoneFits

Continuation == INSTANCE Continuation WITH
    proj <- r1, routing <- r2, hook <- r3, expired <- r4, grants <- r5, raced <- r6,
    calls <- r7, changes <- r8,
    Hook <- Process, Event <- Item, Fingerprint <- {x1}, MaxContinuations <- 2,
    Threshold <- 2, MaxEvents <- 3, MaxChanges <- 1

ASSUME ContinuationAssumption == Continuation!NoneFits

Checkpoints == INSTANCE Checkpoints WITH
    immutable <- r1, current <- r2, checkpointLock <- r3, caller <- r4, fresh <- r5,
    checkpoints <- r6, kills <- r7,
    Caller <- Process, Payload <- {x1}, MaxCalls <- 4, MaxKill <- 1

\* None is nobody who makes a checkpoint.
ASSUME CheckpointsAssumption == Checkpoints!NoneFits

McpConfig == INSTANCE McpConfig WITH
    config <- r1, receipt <- r2, launcher <- r3, mcpLock <- r4, mcp <- r5, chosen <- r6,
    calm <- r7, mcpCalls <- r8, edits <- r9, moves <- r10, mcpFaults <- r11,
    Caller <- Process, Launcher <- Item, Foreign <- {x1}, MaxCalls <- 3,
    MaxEdits <- 1, MaxMoves <- 2, MaxFault <- 1

\* None is no caller, no server and no receipt, and no user writes an entry that is ours.
ASSUME McpAssumption == McpConfig!NoneFits /\ McpConfig!OursApart

McpProbe == INSTANCE McpProbe WITH
    server <- r1, pipe <- r2, stage <- r3, timer <- r4, force <- r5, report <- r6,
    loop <- r7, wrote <- r8, deserted <- r9,
    MaxLines <- 3

McpServe == INSTANCE McpServe WITH
    stdin <- r1, chunk <- r2, held <- r3, discarding <- r4, strict <- r5,
    initialized <- r6, writing <- r7, open <- r8, serving <- r9, replies <- r10,
    input <- r11,
    MaxLine <- 2, MaxInput <- 4

Memory == INSTANCE Memory WITH
    records <- r1, index <- r2, memoryLock <- r3, keeper <- r4, overtaken <- r5,
    memoryCalls <- r6, memoryFaults <- r7,
    Caller <- {q1}, Id <- Item, Stamps <- {1, 2}, MaxBundle <- 2, MaxCalls <- 3, MaxFault <- 1

Mailbox == INSTANCE Mailbox WITH
    legacy <- r1, mail <- r2, mailLock <- r3, sender <- r4, owed <- r5, cutOff <- r6,
    sends <- r7, marks <- r8, mailKills <- r9,
    Sender <- Process, Text <- Item, MaxSends <- 3, MaxMarks <- 2, MaxKill <- 1

\* None is no sender.
ASSUME MailboxAssumption == Mailbox!NoneFits

OwnerRecord == INSTANCE OwnerRecord WITH
    owner <- r1, aside <- r2, guard <- r3, process <- r4, authority <- r5,
    created <- r6, ownerEdits <- r7, ownerFaults <- r8,
    Process <- Process, MaxEdits <- 2, MaxFault <- 1

\* None is no process and no record.
ASSUME OwnerAssumption == OwnerRecord!NoneFits

AtomicFile == INSTANCE AtomicFile WITH
    path <- r1, file <- r2, temp <- r3, writer <- r4, outcome <- r5, visible <- r6,
    clobbered <- r7, writeFaults <- r8, swaps <- r9,
    Writer <- Process, Dir <- Item, MaxFault <- 1, MaxSwap <- 1

\* None is no answer to a caller.
ASSUME AtomicAssumption == AtomicFile!NoneFits

TeamSupervisor == INSTANCE TeamSupervisor WITH
    coordination <- r1, manifest <- r2, pane <- r3, group <- r4, foreign <- r5,
    op <- r6, lost <- r7, starts <- r8, stops <- r9, failures <- r10,
    NumWorkers <- 2, MaxStarts <- 2, MaxStops <- 2, MaxFailures <- 1

\* None is no manifest and no call of a supervisor.
ASSUME SupervisorAssumption == TeamSupervisor!NoneFits

TeamInit == INSTANCE TeamInit WITH
    directory <- r1, stage <- r2, initLock <- r3, init <- r4, answer <- r5,
    initFaults <- r6, uses <- r7,
    Process <- Process \cup {q1}, Team <- Item, MaxFault <- 2

\* None and "failed" are no founders, teams, directories and stages.
ASSUME TeamInitAssumption == TeamInit!NoneFits

Recovery == INSTANCE Recovery WITH
    transcript <- r1, former <- r2, contents <- r3, ring <- r4, reader <- r5,
    copy <- r6, snapshot <- r7, answers <- r8, changes <- r9, recoveryFaults <- r10,
    Caller <- Process, Lines <- TranscriptLines, LineLimit <- 2, MaxLine <- 2, MaxTail <- 3,
    MaxSource <- 3, MaxChanges <- 1, MaxFault <- 1

\* None is no copy of a transcript.
ASSUME RecoveryAssumption == Recovery!NoneFits

Tracker == INSTANCE Tracker WITH
    mirror <- r1, log <- r2, marker <- r3, trackerLock <- r4, writer <- r5,
    reader <- r6, acked <- r7, gap <- r8, told <- r9, records <- r10,
    trackerFaults <- r11,
    Writer <- Process, Reader <- {q1}, MaxRecords <- 2, MaxFault <- 1

HookDispatch == INSTANCE HookDispatch WITH
    handlers <- r1, dispatch <- r2, late <- r3, host <- r4, registered <- r5,
    Dispatch <- {x1}, MaxRegister <- 1

ASSUME HooksAssumption == HookDispatch!NoneFits

AgentRuntime == INSTANCE AgentRuntime WITH
    disposed <- r1, managed <- r2, agent <- r3, run <- r4, caller <- r5, swept <- r6,
    told <- r7, sdkFaults <- r8,
    Caller <- Process, MaxAgents <- 3, MaxSends <- 1, MaxFault <- 1

NativeTeam == INSTANCE NativeTeam WITH
    nativeManifest <- r1, runs <- r2, op <- r3, overlapped <- r4, broken <- r5,
    uncancelled <- r6, informed <- r7, calls <- r8, nativeFaults <- r9,
    Process <- Process, NumWorkers <- 2, MaxCalls <- 3, MaxFault <- 1

\* None is no manifest of a native team.
ASSUME NativeAssumption == NativeTeam!NoneFits

ProviderRun == INSTANCE ProviderRun WITH
    mode <- r1, asked <- r2, signal <- r3, process <- r4, pipes <- r5, code <- r6,
    timer <- r7, killer <- r8, outcome <- r9, alike <- r10, verdict <- r11,
    artifact <- r12, ended <- r13,
    Provider <- Item

ASSUME ProviderAssumption == ProviderRun!NoneFits

Automations == INSTANCE Automations WITH
    automation <- r1, exports <- r2, manager <- r3, mixed <- r4, half <- r5,
    managerCalls <- r6, managerFaults <- r7,
    Process <- Process, MaxCalls <- 4, MaxFault <- 1

Ulw == INSTANCE Ulw WITH
    worktree <- r1, ulw <- r2, step <- r3, receipts <- r4, ids <- r5, ulwFaults <- r6,
    Worker <- Item, Id <- {x1, x2}, MaxRuns <- 2, MaxFault <- 2

\* None is no id and no worktree.
ASSUME UlwAssumption == Ulw!NoneFits

RunEvents == INSTANCE RunEvents WITH
    mirror <- r1, log <- r2, eventLock <- r3, appender <- r4, reader <- r5,
    promised <- r6, cut <- r7, told <- r8, appends <- r9, eventFaults <- r10,
    Appender <- Process, Reader <- {q1}, EventLimit <- 3, MaxTime <- 1, MaxAppends <- 3, MaxFault <- 1

TaskCreation == INSTANCE TaskCreation WITH
    file <- r1, history <- r2, next <- r3, configLock <- r4, depLock <- r5,
    creator <- r6, rebuild <- r7, finisher <- r8, given <- r9, undone <- r10,
    creates <- r11, changes <- r12, createFaults <- r13,
    Creator <- Process, Reader <- {q1}, Request <- TaskRequests, MaxTasks <- 3,
    MaxCreates <- 3, MaxChanges <- 2, MaxFault <- 1

\* None is no task, nobody who makes one and none of their numbers.
ASSUME CreationAssumption == TaskCreation!NoneFits

-----------------------------------------------------------------------------
(* Registers beyond those of a component are empty.                         *)
Empty19 == r19 = None
Empty18 == r18 = None /\ Empty19
Empty17 == r17 = None /\ Empty18
Empty16 == r16 = None /\ Empty17
Empty15 == r15 = None /\ Empty16
Empty14 == r14 = None /\ Empty15
Empty13 == r13 = None /\ Empty14
Empty12 == r12 = None /\ Empty13
Empty11 == r11 = None /\ Empty12
Empty10 == r10 = None /\ Empty11
Empty9 == r9 = None /\ Empty10
Empty8 == r8 = None /\ Empty9
Empty7 == r7 = None /\ Empty8
Empty6 == r6 = None /\ Empty7

JournalInit == part = "journal" /\ Journal!Init
JournalStep == part = "journal" /\ Journal!Next
    /\ UNCHANGED part

InstallInit == part = "install" /\ InstallTransaction!Init /\ Empty15
InstallStep == part = "install" /\ InstallTransaction!Next
    /\ UNCHANGED <<part, r15, r16, r17, r18, r19>>

WorkflowInit == part = "workflow" /\ Workflow!Init /\ Empty12
WorkflowStep == part = "workflow" /\ Workflow!Next
    /\ UNCHANGED <<part, r12, r13, r14, r15, r16, r17, r18, r19>>

CloudInit == part = "cloud" /\ CloudPlan!Init /\ Empty11
CloudStep == part = "cloud" /\ CloudPlan!Next
    /\ UNCHANGED <<part, r11, r12, r13, r14, r15, r16, r17, r18, r19>>

TasksInit == part = "tasks" /\ TaskGraph!Init /\ Empty13
TasksStep == part = "tasks" /\ TaskGraph!Next
    /\ UNCHANGED <<part, r13, r14, r15, r16, r17, r18, r19>>

PersistInit == part = "persist" /\ PersistLoop!Init /\ Empty8
PersistStep == part = "persist" /\ PersistLoop!Next
    /\ UNCHANGED <<part, r8, r9, r10, r11, r12, r13, r14, r15, r16, r17, r18, r19>>

ContinuationInit == part = "continuation" /\ Continuation!Init /\ Empty9
ContinuationStep == part = "continuation" /\ Continuation!Next
    /\ UNCHANGED <<part, r9, r10, r11, r12, r13, r14, r15, r16, r17, r18, r19>>

CompactionInit == part = "compaction" /\ Checkpoints!Init /\ Empty8
CompactionStep == part = "compaction" /\ Checkpoints!Next
    /\ UNCHANGED <<part, r8, r9, r10, r11, r12, r13, r14, r15, r16, r17, r18, r19>>

McpConfigInit == part = "mcp_config" /\ McpConfig!Init /\ Empty12
McpConfigStep == part = "mcp_config" /\ McpConfig!Next
    /\ UNCHANGED <<part, r12, r13, r14, r15, r16, r17, r18, r19>>

McpProbeInit == part = "mcp_probe" /\ McpProbe!Init /\ Empty10
McpProbeStep == part = "mcp_probe" /\ McpProbe!Next
    /\ UNCHANGED <<part, r10, r11, r12, r13, r14, r15, r16, r17, r18, r19>>

McpServeInit == part = "mcp_serve" /\ McpServe!Init /\ Empty12
McpServeStep == part = "mcp_serve" /\ McpServe!Next
    /\ UNCHANGED <<part, r12, r13, r14, r15, r16, r17, r18, r19>>

MemoryInit == part = "memory" /\ Memory!Init /\ Empty8
MemoryStep == part = "memory" /\ Memory!Next
    /\ UNCHANGED <<part, r8, r9, r10, r11, r12, r13, r14, r15, r16, r17, r18, r19>>

MailboxInit == part = "mailbox" /\ Mailbox!Init /\ Empty10
MailboxStep == part = "mailbox" /\ Mailbox!Next
    /\ UNCHANGED <<part, r10, r11, r12, r13, r14, r15, r16, r17, r18, r19>>

OwnerInit == part = "owner" /\ OwnerRecord!Init /\ Empty9
OwnerStep == part = "owner" /\ OwnerRecord!Next
    /\ UNCHANGED <<part, r9, r10, r11, r12, r13, r14, r15, r16, r17, r18, r19>>

AtomicInit == part = "atomic" /\ AtomicFile!Init /\ Empty10
AtomicStep == part = "atomic" /\ AtomicFile!Next
    /\ UNCHANGED <<part, r10, r11, r12, r13, r14, r15, r16, r17, r18, r19>>

SupervisorInit == part = "supervisor" /\ TeamSupervisor!Init /\ Empty11
SupervisorStep == part = "supervisor" /\ TeamSupervisor!Next
    /\ UNCHANGED <<part, r11, r12, r13, r14, r15, r16, r17, r18, r19>>

TeamInitInit == part = "team_init" /\ TeamInit!Init /\ Empty8
TeamInitStep == part = "team_init" /\ TeamInit!Next
    /\ UNCHANGED <<part, r8, r9, r10, r11, r12, r13, r14, r15, r16, r17, r18, r19>>

RecoveryInit == part = "recovery" /\ Recovery!Init /\ Empty11
RecoveryStep == part = "recovery" /\ Recovery!Next
    /\ UNCHANGED <<part, r11, r12, r13, r14, r15, r16, r17, r18, r19>>

TrackerInit == part = "tracker" /\ Tracker!Init /\ Empty12
TrackerStep == part = "tracker" /\ Tracker!Next
    /\ UNCHANGED <<part, r12, r13, r14, r15, r16, r17, r18, r19>>

HooksInit == part = "hooks" /\ HookDispatch!Init /\ Empty6
HooksStep == part = "hooks" /\ HookDispatch!Next
    /\ UNCHANGED <<part, r6, r7, r8, r9, r10, r11, r12, r13, r14, r15, r16, r17, r18, r19>>

AgentsInit == part = "agents" /\ AgentRuntime!Init /\ Empty9
AgentsStep == part = "agents" /\ AgentRuntime!Next
    /\ UNCHANGED <<part, r9, r10, r11, r12, r13, r14, r15, r16, r17, r18, r19>>

NativeInit == part = "native" /\ NativeTeam!Init /\ Empty10
NativeStep == part = "native" /\ NativeTeam!Next
    /\ UNCHANGED <<part, r10, r11, r12, r13, r14, r15, r16, r17, r18, r19>>

AskInit == part = "ask" /\ ProviderRun!Init /\ Empty14
AskStep == part = "ask" /\ ProviderRun!Next
    /\ UNCHANGED <<part, r14, r15, r16, r17, r18, r19>>

AutomationsInit == part = "automations" /\ Automations!Init /\ Empty8
AutomationsStep == part = "automations" /\ Automations!Next
    /\ UNCHANGED <<part, r8, r9, r10, r11, r12, r13, r14, r15, r16, r17, r18, r19>>

UlwInit == part = "ulw" /\ Ulw!Init /\ Empty7
UlwStep == part = "ulw" /\ Ulw!Next
    /\ UNCHANGED <<part, r7, r8, r9, r10, r11, r12, r13, r14, r15, r16, r17, r18, r19>>

EventsInit == part = "events" /\ RunEvents!Init /\ Empty11
EventsStep == part = "events" /\ RunEvents!Next
    /\ UNCHANGED <<part, r11, r12, r13, r14, r15, r16, r17, r18, r19>>

CreationInit == part = "creation" /\ TaskCreation!Init /\ Empty14
CreationStep == part = "creation" /\ TaskCreation!Next
    /\ UNCHANGED <<part, r14, r15, r16, r17, r18, r19>>

Init ==
    \/ JournalInit
    \/ InstallInit
    \/ WorkflowInit
    \/ CloudInit
    \/ TasksInit
    \/ PersistInit
    \/ ContinuationInit
    \/ CompactionInit
    \/ McpConfigInit
    \/ McpProbeInit
    \/ McpServeInit
    \/ MemoryInit
    \/ MailboxInit
    \/ OwnerInit
    \/ AtomicInit
    \/ SupervisorInit
    \/ TeamInitInit
    \/ RecoveryInit
    \/ TrackerInit
    \/ HooksInit
    \/ AgentsInit
    \/ NativeInit
    \/ AskInit
    \/ AutomationsInit
    \/ UlwInit
    \/ EventsInit
    \/ CreationInit

Next ==
    \/ JournalStep
    \/ InstallStep
    \/ WorkflowStep
    \/ CloudStep
    \/ TasksStep
    \/ PersistStep
    \/ ContinuationStep
    \/ CompactionStep
    \/ McpConfigStep
    \/ McpProbeStep
    \/ McpServeStep
    \/ MemoryStep
    \/ MailboxStep
    \/ OwnerStep
    \/ AtomicStep
    \/ SupervisorStep
    \/ TeamInitStep
    \/ RecoveryStep
    \/ TrackerStep
    \/ HooksStep
    \/ AgentsStep
    \/ NativeStep
    \/ AskStep
    \/ AutomationsStep
    \/ UlwStep
    \/ EventsStep
    \/ CreationStep

Spec == Init /\ [][Next]_<<part, registers>>

-----------------------------------------------------------------------------
(* The state of every component is of its type.                            *)
ComponentsTyped ==
    /\ part = "journal" => Journal!TypeOK
    /\ part = "install" => InstallTransaction!TypeOK
    /\ part = "workflow" => Workflow!TypeOK
    /\ part = "cloud" => CloudPlan!TypeOK
    /\ part = "tasks" => TaskGraph!TypeOK
    /\ part = "persist" => PersistLoop!TypeOK
    /\ part = "continuation" => Continuation!TypeOK
    /\ part = "compaction" => Checkpoints!TypeOK
    /\ part = "mcp_config" => McpConfig!TypeOK
    /\ part = "mcp_probe" => McpProbe!TypeOK
    /\ part = "mcp_serve" => McpServe!TypeOK
    /\ part = "memory" => Memory!TypeOK
    /\ part = "mailbox" => Mailbox!TypeOK
    /\ part = "owner" => OwnerRecord!TypeOK
    /\ part = "atomic" => AtomicFile!TypeOK
    /\ part = "supervisor" => TeamSupervisor!TypeOK
    /\ part = "team_init" => TeamInit!TypeOK
    /\ part = "recovery" => Recovery!TypeOK
    /\ part = "tracker" => Tracker!TypeOK
    /\ part = "hooks" => HookDispatch!TypeOK
    /\ part = "agents" => AgentRuntime!TypeOK
    /\ part = "native" => NativeTeam!TypeOK
    /\ part = "ask" => ProviderRun!TypeOK
    /\ part = "automations" => Automations!TypeOK
    /\ part = "ulw" => Ulw!TypeOK
    /\ part = "events" => RunEvents!TypeOK
    /\ part = "creation" => TaskCreation!TypeOK

\* A record whose append returned stays as it is, through kills and repairs; the history of
\* a background task has every event acknowledged before it was asked for, also while its
\* lines are copied into the journal, and so have the events of a run but for older ones
\* whose copy was cut short.
AcknowledgedKept ==
    /\ part = "journal" => Journal!AcknowledgedKept
    /\ part = "tracker" => Tracker!HistoryKept
    /\ part = "events" => RunEvents!EventsKept

\* No interruption leaves a stream that cannot be brought forward, nor does a lock-free
\* reader take work in progress for such a one.
NeverCorrupt == part = "journal" => Journal!NeverCorrupt /\ Journal!ReadersUndisturbed

\* A repair that runs to its end leaves a stream verify() accepts, and what it took out has
\* its copy in quarantine/.
RepairHeals == [][part = "journal" => Journal!RepairHeals /\ Journal!BackedUp]_registers

\* The committed records are a log that is only appended to.
CommittedLog == IF part = "journal" THEN Journal!Committed ELSE <<>>
Log == INSTANCE AppendLog WITH Entry <- 1..MaxAppend, log <- CommittedLog
ImplementsLog == Log!Spec

\* Between calls an install is whole: the pointer, the receipts, the link and the stages
\* agree, a rollback target has its stage, and the link leads to a complete release.
InstallConsistent ==
    part = "install" =>
        InstallTransaction!AtRest /\ InstallTransaction!TargetsKept /\ InstallTransaction!LinkRuns

\* What is installed changes at the commit of a transaction and at no kill, failure or
\* reconciliation.
AllOrNothing == [][part = "install" => InstallTransaction!AllOrNothing]_registers

\* A call that fails restores link and pointer, and no call removes a project's data.
FailureRestores ==
    [][part = "install" =>
         InstallTransaction!FailureRestores /\ InstallTransaction!ProjectKept]_registers

\* Cursor is started at most once for an attempt of a workflow's task, and only for tasks
\* whose dependencies passed.
InvokedOnce == part = "workflow" => Workflow!InvokedOnce

\* A cloud plan is completed only after a verifier saw the workers' results and every late
\* handoff that was accepted.
CompletedWasVerified == part = "cloud" => CloudPlan!CompletedWasVerified

\* Tasks of a graph start after their dependencies, never two at the same paths, and no
\* run is finalized with a task at work.
GraphInOrder == part = "tasks" => TaskGraph!UpstreamFirst /\ TaskGraph!FinalizedCleanly

\* However stop events repeat and overlap, no epoch is granted more continuations than its
\* budget and thresholds; and what is allowed before a tool is used passed the safety rules,
\* whatever other handlers are registered, time out or throw.
HooksSound ==
    /\ part = "continuation" => Continuation!GrantsBounded
    /\ part = "hooks" => HookDispatch!SafetyFirst

\* What is told across a pipe is true: our MCP server answers each line in order, a probe
\* tells what its server did, and an ask whether its CLI ended well.
AnswersHonest ==
    /\ part = "mcp_serve" => McpServe!RepliesInOrder
    /\ part = "mcp_probe" => McpProbe!ProbeTells
    /\ part = "ask" => ProviderRun!AnswersHonest

\* A message acknowledged to its sender is in the inbox until it is marked; a stopped team
\* is gone and nobody else's processes with it; a team directory is whole or not there.
\* Agents of a native team and of a runtime that is disposed of are cancelled and closed,
\* or said not to be.  A creation makes one task, and a task waits while it has to.
TeamSound ==
    /\ part = "mailbox" => Mailbox!InboxKeepsPromises
    /\ part = "supervisor" => /\ TeamSupervisor!SignalsOwnGroups
                              /\ TeamSupervisor!StoppedIsGone
                              /\ TeamSupervisor!FailedStartLeavesNothing
    /\ part = "team_init" => TeamInit!InitIsWhole
    /\ part = "native" => NativeTeam!NobodyLost
    /\ part = "agents" => AgentRuntime!DisposedIsClosed
    /\ part = "creation" => TaskCreation!CreatedOnce /\ TaskCreation!WaitsForReason

\* What a writer is told of its write is true, also when the directory is replaced or a
\* helper killed; an owner record gives authority to whoever it names and to no other; an
\* automation is exported, and a worktree there, where their records say; and nothing of
\* ours takes what a user wrote in mcp.json.
WritesTold ==
    /\ part = "atomic" => AtomicFile!OutcomesTrue /\ AtomicFile!StaysInPlace
    /\ part = "owner" => OwnerRecord!AuthorityKept
    /\ part = "automations" => Automations!ExportsAsTold
    /\ part = "ulw" => Ulw!ReceiptsTrue
    /\ part = "mcp_config" => McpConfig!UserServerKept

\* A recovery answers what the transcript was at one moment, and finds broken or missing
\* links where they are.
RecoveryIsTrue == part = "recovery" => Recovery!RecoveryIsTrue

\* A checkpoint and a copy made for a recovery never change once whole.
KeptForGood ==
    [][/\ part = "compaction" => Checkpoints!CheckpointsKept
       /\ part = "recovery" => Recovery!RecoveryIsImmutable]_registers

\* An import leaves in every record what its policy says.
ImportsByPolicy == [][part = "memory" => Memory!ImportsByPolicy]_registers

\* What a fence reads never comes back: revisions and lease generations of a workflow, the
\* deliveries of a persist loop.
FencesHold ==
    [][/\ part = "workflow" => Workflow!RevisionFences
       /\ part = "persist" => PersistLoop!FollowupsBounded]_registers
=============================================================================
