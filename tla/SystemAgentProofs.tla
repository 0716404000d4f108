-------------------------- MODULE SystemAgentProofs -------------------------
(***************************************************************************)
(* What is proved of the components in WorkflowProofs and AgentProofs, of  *)
(* the system they make: a step is of the part that runs and leaves the    *)
(* other registers alone, so what a component keeps the system keeps.      *)
(* Here the parts that make agents work: workflows, persist loops, hooks   *)
(* and teams.                                                              *)
(***************************************************************************)
EXTENDS System, TLAPS

WP == INSTANCE WorkflowProofs WITH
    record <- r1, events <- r2, storeLock <- r3, supported <- r4, pc <- r5, seen <- r6,
    rev <- r7, lease <- r8, staged <- r9, invoked <- r10, faults <- r11,
    Runner <- {q1, q2}, Proven <- {q1}, MaxFault <- 2,
    Stages <- <<[max |-> 2, needs |-> {}], [max |-> 1, needs |-> {1}]>>,
    proj <- r1, routing <- r2, stopper <- r3, pastDeadline <- r4, grants <- r5, raced <- r6,
    stopEvents <- r7, stopChanges <- r8,
    Hook <- Process, StopEvent <- Item, Fingerprint <- {x1}, MaxContinuations <- 2,
    Threshold <- 2, MaxStopEvents <- 3, MaxStopChanges <- 1,
    handlers <- r1, dispatch <- r2, late <- r3, host <- r4, registered <- r5,
    Dispatch <- {x1}, MaxRegister <- 1

AP == INSTANCE AgentProofs WITH
    file <- r1, hook <- r2, session <- r3, followups <- r4, expired <- r5, stops <- r6,
    ops <- r7,
    Hook <- Process, Event <- {x1}, MaxLoop <- 3, MaxLoops <- 2, MaxStops <- 4, MaxOps <- 2,
    directory <- r1, stage <- r2, initLock <- r3, init <- r4, answer <- r5,
    initFaults <- r6, uses <- r7,
    Founder <- Process \cup {q1}, Team <- Item, MaxInitFaults <- 2,
    coordination <- r1, manifest <- r2, pane <- r3, group <- r4, foreign <- r5,
    op <- r6, lost <- r7, starts <- r8, teamStops <- r9, failures <- r10,
    NumWorkers <- 2, MaxStarts <- 2, MaxTeamStops <- 2, MaxFailures <- 1,
    legacy <- r1, mail <- r2, mailLock <- r3, sender <- r4, owed <- r5, cutOff <- r6,
    sends <- r7, marks <- r8, mailKills <- r9,
    Sender <- Process, Text <- Item, MaxSends <- 3, MaxMarks <- 2, MaxKill <- 1,
    taskFile <- r1, history <- r2, next <- r3, configLock <- r4, depLock <- r5,
    creator <- r6, rebuild <- r7, finisher <- r8, given <- r9, undone <- r10,
    creates <- r11, changes <- r12, createFaults <- r13,
    Creator <- Process, Reader <- {q1}, Request <- TaskRequests, MaxTasks <- 3,
    MaxCreates <- 3, MaxTaskChanges <- 2,
    nativeManifest <- r1, runs <- r2, nativeOp <- r3, overlapped <- r4, broken <- r5,
    uncancelled <- r6, informed <- r7, calls <- r8, nativeFaults <- r9, MaxCalls <- 3,
    disposed <- r1, managed <- r2, agent <- r3, run <- r4, caller <- r5, swept <- r6,
    told <- r7, sdkFaults <- r8,
    Caller <- Process, MaxAgents <- 3, MaxAgentSends <- 1, MaxFault <- 1

\* The proofs are about the same instances.
LEMMA SameWorkflow ==
    /\ Workflow!Init <=> WP!Init
    /\ Workflow!Next <=> WP!Next
    /\ Workflow!InvokedOnce <=> WP!InvokedOnce
    /\ Workflow!RevisionFences <=> WP!RevisionFences
    /\ Workflow!NoneFits <=> WP!NoneFits
  <1>1. Workflow!Init <=> WP!Init
    BY DEF Workflow!Task, WP!Task, Workflow!Attempt, WP!Attempt, Workflow!Receipt,
           WP!Receipt, Workflow!Mark, WP!Mark, Workflow!LegacyLease, WP!LegacyLease,
           Workflow!NewRecord, WP!NewRecord, Workflow!LegacyRecords, WP!LegacyRecords,
           Workflow!Init, WP!Init
  <1>2. /\ Workflow!Next <=> WP!Next
        /\ Workflow!InvokedOnce <=> WP!InvokedOnce
        /\ Workflow!RevisionFences <=> WP!RevisionFences
        /\ Workflow!NoneFits <=> WP!NoneFits
    BY ZenonT(60) DEF Workflow!local, WP!local, Workflow!Task, WP!Task, Workflow!Started,
           WP!Started, Workflow!Receipt, WP!Receipt, Workflow!Mark, WP!Mark, Workflow!ReceiptsOf,
           WP!ReceiptsOf, Workflow!InFlight, WP!InFlight, Workflow!TaskStatus, WP!TaskStatus,
           Workflow!RunActive, WP!RunActive, Workflow!FromJournal, WP!FromJournal,
           Workflow!ReadEvents, WP!ReadEvents, Workflow!ReadRevision, WP!ReadRevision,
           Workflow!Events, WP!Events, Workflow!Revision, WP!Revision, Workflow!Alive, WP!Alive,
           Workflow!Evidence, WP!Evidence, Workflow!Goto, WP!Goto, Workflow!ReadRecord,
           WP!ReadRecord, Workflow!ReadJournal, WP!ReadJournal, Workflow!Pending, WP!Pending,
           Workflow!Current, WP!Current, Workflow!NextAttempt, WP!NextAttempt,
           Workflow!DependenciesReady, WP!DependenciesReady, Workflow!Unrun, WP!Unrun,
           Workflow!Decide, WP!Decide, Workflow!GiveUp, WP!GiveUp, Workflow!Invoke, WP!Invoke,
           Workflow!Thrown, WP!Thrown, Workflow!AdapterFails, WP!AdapterFails,
           Workflow!Candidates, WP!Candidates, Workflow!Fenced, WP!Fenced, Workflow!StartAppend,
           WP!StartAppend, Workflow!StartAcquire, WP!StartAcquire, Workflow!StartRelease,
           WP!StartRelease, Workflow!Refused, WP!Refused, Workflow!MigrateFrom, WP!MigrateFrom,
           Workflow!Migrate, WP!Migrate, Workflow!AppendJournal, WP!AppendJournal,
           Workflow!AfterWrite, WP!AfterWrite, Workflow!Unlock, WP!Unlock, Workflow!WriteRecord,
           WP!WriteRecord, Workflow!WriteFails, WP!WriteFails, Workflow!Kill, WP!Kill,
           Workflow!Reconcile, WP!Reconcile, Workflow!Run, WP!Run, Workflow!Next, WP!Next,
           Workflow!Last, WP!Last, Workflow!Max, WP!Max, Workflow!Cardinality, WP!Cardinality,
           Workflow!Attempt, WP!Attempt, Workflow!InvokedOnce, WP!InvokedOnce,
           Workflow!RevisionFences, WP!RevisionFences, Workflow!IsPrefix, WP!IsPrefix,
           Workflow!Outcome, WP!Outcome, Workflow!Event, WP!Event, Workflow!Lease, WP!Lease,
           Workflow!Record, WP!Record, Workflow!Recording, WP!Recording, Workflow!Leasing,
           WP!Leasing, Workflow!Staged, WP!Staged, Workflow!NoneFits, WP!NoneFits
  <1> QED  BY <1>1, <1>2

LEMMA SamePersist ==
    /\ PersistLoop!Init <=> AP!Init
    /\ PersistLoop!Next <=> AP!Next
    /\ PersistLoop!FollowupsBounded <=> AP!FollowupsBounded
    /\ PersistLoop!NoneFits <=> AP!NoneFits
  BY ZenonT(60) DEF PersistLoop!NoDecision, AP!NoDecision, PersistLoop!LegacyFiles,
         AP!LegacyFiles, PersistLoop!Init, AP!Init, PersistLoop!Max2, AP!Max2,
         PersistLoop!Operator, AP!Operator, PersistLoop!Start, AP!Start, PersistLoop!Stop,
         AP!Stop, PersistLoop!Complete, AP!Complete, PersistLoop!Expire, AP!Expire,
         PersistLoop!Baseline, AP!Baseline, PersistLoop!Continues, AP!Continues,
         PersistLoop!Granted, AP!Granted, PersistLoop!Decide, AP!Decide, PersistLoop!Fence,
         AP!Fence, PersistLoop!Deliver, AP!Deliver, PersistLoop!Next, AP!Next, PersistLoop!Since,
         AP!Since, PersistLoop!FollowupsBounded, AP!FollowupsBounded, PersistLoop!Cardinality,
         AP!Cardinality, PersistLoop!File, AP!File, PersistLoop!NoneFits, AP!NoneFits

LEMMA SameTeamInit ==
    /\ TeamInit!Init <=> AP!Ti!Init
    /\ TeamInit!Next <=> AP!Ti!Next
    /\ TeamInit!NoneFits <=> AP!Ti!NoneFits
    /\ TeamInit!InitIsWhole <=> AP!Ti!InitIsWhole
  BY ZenonT(60) DEF TeamInit!Init, AP!Ti!Init, TeamInit!NoneFits, AP!Ti!NoneFits, TeamInit!At,
         AP!Ti!At, TeamInit!Goto, AP!Ti!Goto, TeamInit!Fault, AP!Ti!Fault, TeamInit!Answers,
         AP!Ti!Answers, TeamInit!Exact, AP!Ti!Exact, TeamInit!Begin, AP!Ti!Begin,
         TeamInit!Existing, AP!Ti!Existing, TeamInit!Sweepable, AP!Ti!Sweepable,
         TeamInit!CleanupStages, AP!Ti!CleanupStages, TeamInit!CleanupFails, AP!Ti!CleanupFails,
         TeamInit!MakeStage, AP!Ti!MakeStage, TeamInit!WriteMarker, AP!Ti!WriteMarker,
         TeamInit!WriteMarkerFails, AP!Ti!WriteMarkerFails, TeamInit!Fill, AP!Ti!Fill,
         TeamInit!FillFails, AP!Ti!FillFails, TeamInit!Renamed, AP!Ti!Renamed, TeamInit!Publish,
         AP!Ti!Publish, TeamInit!PublishUncertain, AP!Ti!PublishUncertain, TeamInit!Adopt,
         AP!Ti!Adopt, TeamInit!Removable, AP!Ti!Removable, TeamInit!Remove, AP!Ti!Remove,
         TeamInit!RemoveFails, AP!Ti!RemoveFails, TeamInit!Kill, AP!Ti!Kill,
         TeamInit!CreateTask, AP!Ti!CreateTask, TeamInit!RemoveTeam, AP!Ti!RemoveTeam,
         TeamInit!Next, AP!Ti!Next, TeamInit!InitIsWhole, AP!Ti!InitIsWhole

LEMMA SameSupervisor ==
    /\ TeamSupervisor!Init <=> AP!Ts!Init
    /\ TeamSupervisor!Next <=> AP!Ts!Next
    /\ TeamSupervisor!NoneFits <=> AP!Ts!NoneFits
    /\ TeamSupervisor!SignalsOwnGroups <=> AP!Ts!SignalsOwnGroups
    /\ TeamSupervisor!StoppedIsGone <=> AP!Ts!StoppedIsGone
    /\ TeamSupervisor!FailedStartLeavesNothing <=> AP!Ts!FailedStartLeavesNothing
  BY ZenonT(60) DEF TeamSupervisor!Worker, AP!Ts!Worker, TeamSupervisor!Manifest, AP!Ts!Manifest,
         TeamSupervisor!NoneFits, AP!Ts!NoneFits, TeamSupervisor!Rest, AP!Ts!Rest,
         TeamSupervisor!Init, AP!Ts!Init, TeamSupervisor!Session, AP!Ts!Session,
         TeamSupervisor!Alive, AP!Ts!Alive, TeamSupervisor!Goto, AP!Ts!Goto,
         TeamSupervisor!world, AP!Ts!world, TeamSupervisor!files, AP!Ts!files,
         TeamSupervisor!counts, AP!Ts!counts, TeamSupervisor!Start, AP!Ts!Start,
         TeamSupervisor!Stage, AP!Ts!Stage, TeamSupervisor!Publish, AP!Ts!Publish,
         TeamSupervisor!Open, AP!Ts!Open, TeamSupervisor!Launch, AP!Ts!Launch,
         TeamSupervisor!Observe, AP!Ts!Observe, TeamSupervisor!CommandFails, AP!Ts!CommandFails,
         TeamSupervisor!Undo, AP!Ts!Undo, TeamSupervisor!Stop, AP!Ts!Stop,
         TeamSupervisor!Candidates, AP!Ts!Candidates, TeamSupervisor!Bound, AP!Ts!Bound,
         TeamSupervisor!Provable, AP!Ts!Provable, TeamSupervisor!MarkStopping,
         AP!Ts!MarkStopping, TeamSupervisor!CheckSession, AP!Ts!CheckSession,
         TeamSupervisor!EndSession, AP!Ts!EndSession, TeamSupervisor!EndSessionFails,
         AP!Ts!EndSessionFails, TeamSupervisor!Terminate, AP!Ts!Terminate,
         TeamSupervisor!KillGroups, AP!Ts!KillGroups, TeamSupervisor!Finish, AP!Ts!Finish,
         TeamSupervisor!Forget, AP!Ts!Forget, TeamSupervisor!Fork, AP!Ts!Fork,
         TeamSupervisor!Exit, AP!Ts!Exit, TeamSupervisor!Reuse, AP!Ts!Reuse,
         TeamSupervisor!Kill, AP!Ts!Kill, TeamSupervisor!Next, AP!Ts!Next,
         TeamSupervisor!SignalsOwnGroups, AP!Ts!SignalsOwnGroups, TeamSupervisor!StoppedIsGone,
         AP!Ts!StoppedIsGone, TeamSupervisor!FailedStartLeavesNothing,
         AP!Ts!FailedStartLeavesNothing

LEMMA SameMail ==
    /\ Mailbox!Init <=> AP!Mb!Init
    /\ Mailbox!Next <=> AP!Mb!Next
    /\ Mailbox!NoneFits <=> AP!Mb!NoneFits
    /\ Mailbox!InboxKeepsPromises <=> AP!Mb!InboxKeepsPromises
  BY ZenonT(60) DEF Mailbox!Message, AP!Mb!Message, Mailbox!Sent, AP!Mb!Sent, Mailbox!Delivered,
         AP!Mb!Delivered, Mailbox!Rest, AP!Mb!Rest, Mailbox!NoneFits, AP!Mb!NoneFits,
         Mailbox!Init, AP!Mb!Init, Mailbox!Ids, AP!Mb!Ids, Mailbox!FromJournal,
         AP!Mb!FromJournal, Mailbox!Listed, AP!Mb!Listed, Mailbox!Same, AP!Mb!Same,
         Mailbox!Begin, AP!Mb!Begin, Mailbox!Send, AP!Mb!Send, Mailbox!Mark, AP!Mb!Mark,
         Mailbox!Missing, AP!Mb!Missing, Mailbox!Migrate, AP!Mb!Migrate, Mailbox!End, AP!Mb!End,
         Mailbox!NewId, AP!Mb!NewId, Mailbox!ActSend, AP!Mb!ActSend, Mailbox!ActMark,
         AP!Mb!ActMark, Mailbox!Kill, AP!Mb!Kill, Mailbox!Next, AP!Mb!Next,
         Mailbox!InboxKeepsPromises, AP!Mb!InboxKeepsPromises, Mailbox!Cardinality,
         AP!Mb!Cardinality, Mailbox!Max, AP!Mb!Max, Mailbox!Min, AP!Mb!Min, Mailbox!ToSet,
         AP!Mb!ToSet

LEMMA SameCreation ==
    /\ TaskCreation!Init <=> AP!Cr!Init
    /\ TaskCreation!Next <=> AP!Cr!Next
    /\ TaskCreation!NoneFits <=> AP!Cr!NoneFits
    /\ TaskCreation!CreatedOnce <=> AP!Cr!CreatedOnce
    /\ TaskCreation!WaitsForReason <=> AP!Cr!WaitsForReason
  BY ZenonT(60) DEF TaskCreation!Id, AP!Cr!Id, TaskCreation!tasks, AP!Cr!tasks,
         TaskCreation!locks, AP!Cr!locks, TaskCreation!Status, AP!Cr!Status, TaskCreation!Task,
         AP!Cr!Task, TaskCreation!Resting, AP!Cr!Resting, TaskCreation!NoneFits, AP!Cr!NoneFits,
         TaskCreation!Init, AP!Cr!Init, TaskCreation!Known, AP!Cr!Known, TaskCreation!Lost,
         AP!Cr!Lost, TaskCreation!RebuildRead, AP!Cr!RebuildRead, TaskCreation!RebuildWrite,
         AP!Cr!RebuildWrite, TaskCreation!At, AP!Cr!At, TaskCreation!Reads, AP!Cr!Reads,
         TaskCreation!Readable, AP!Cr!Readable, TaskCreation!Goto, AP!Cr!Goto, TaskCreation!Req,
         AP!Cr!Req, TaskCreation!Leave, AP!Cr!Leave, TaskCreation!Give, AP!Cr!Give,
         TaskCreation!Completed, AP!Cr!Completed, TaskCreation!Fault, AP!Cr!Fault,
         TaskCreation!createTask, AP!Cr!createTask, TaskCreation!TakeDepLock, AP!Cr!TakeDepLock,
         TaskCreation!TakeConfigLock, AP!Cr!TakeConfigLock, TaskCreation!Check, AP!Cr!Check,
         TaskCreation!Find, AP!Cr!Find, TaskCreation!Same, AP!Cr!Same, TaskCreation!Occupied,
         AP!Cr!Occupied, TaskCreation!Made, AP!Cr!Made, TaskCreation!CreateFile,
         AP!Cr!CreateFile, TaskCreation!AppendCreated, AP!Cr!AppendCreated,
         TaskCreation!CountTask, AP!Cr!CountTask, TaskCreation!CutShort, AP!Cr!CutShort,
         TaskCreation!Commit, AP!Cr!Commit, TaskCreation!Current, AP!Cr!Current,
         TaskCreation!Moved, AP!Cr!Moved, TaskCreation!Open, AP!Cr!Open, TaskCreation!Change,
         AP!Cr!Change, TaskCreation!Claim, AP!Cr!Claim, TaskCreation!Complete, AP!Cr!Complete,
         TaskCreation!Freed, AP!Cr!Freed, TaskCreation!Unblock, AP!Cr!Unblock,
         TaskCreation!Unlink, AP!Cr!Unlink, TaskCreation!Next, AP!Cr!Next,
         TaskCreation!CreatedOnce, AP!Cr!CreatedOnce, TaskCreation!WaitsForReason,
         AP!Cr!WaitsForReason, TaskCreation!Cardinality, AP!Cr!Cardinality, TaskCreation!Max,
         AP!Cr!Max

LEMMA SameNative ==
    /\ NativeTeam!Init <=> AP!Nt!Init
    /\ NativeTeam!Next <=> AP!Nt!Next
    /\ NativeTeam!NoneFits <=> AP!Nt!NoneFits
    /\ NativeTeam!NobodyLost <=> AP!Nt!NobodyLost
  BY ZenonT(60) DEF NativeTeam!Worker, AP!Nt!Worker, NativeTeam!Resting, AP!Nt!Resting,
         NativeTeam!Active, AP!Nt!Active, NativeTeam!NoneFits, AP!Nt!NoneFits, NativeTeam!Init,
         AP!Nt!Init, NativeTeam!At, AP!Nt!At, NativeTeam!Fault, AP!Nt!Fault, NativeTeam!Return,
         AP!Nt!Return, NativeTeam!Writing, AP!Nt!Writing, NativeTeam!Left, AP!Nt!Left,
         NativeTeam!Unchanged, AP!Nt!Unchanged, NativeTeam!Call, AP!Nt!Call,
         NativeTeam!SaveManifest, AP!Nt!SaveManifest, NativeTeam!Started, AP!Nt!Started,
         NativeTeam!Named, AP!Nt!Named, NativeTeam!Launch, AP!Nt!Launch, NativeTeam!StartFails,
         AP!Nt!StartFails, NativeTeam!LaunchSkipped, AP!Nt!LaunchSkipped, NativeTeam!NewNames,
         AP!Nt!NewNames, NativeTeam!Launched, AP!Nt!Launched, NativeTeam!Target, AP!Nt!Target,
         NativeTeam!Past, AP!Nt!Past, NativeTeam!AfterFailure, AP!Nt!AfterFailure,
         NativeTeam!CancelRun, AP!Nt!CancelRun, NativeTeam!CancelFails, AP!Nt!CancelFails,
         NativeTeam!ShutDown, AP!Nt!ShutDown, NativeTeam!Query, AP!Nt!Query, NativeTeam!Told,
         AP!Nt!Told, NativeTeam!Status, AP!Nt!Status, NativeTeam!Kill, AP!Nt!Kill,
         NativeTeam!RunEnds, AP!Nt!RunEnds, NativeTeam!Next, AP!Nt!Next, NativeTeam!Quiet,
         AP!Nt!Quiet, NativeTeam!NamedRuns, AP!Nt!NamedRuns, NativeTeam!Superseded,
         AP!Nt!Superseded, NativeTeam!NobodyLost, AP!Nt!NobodyLost

LEMMA SameRuntime ==
    /\ AgentRuntime!Init <=> AP!Ar!Init
    /\ AgentRuntime!Next <=> AP!Ar!Next
    /\ AgentRuntime!DisposedIsClosed <=> AP!Ar!DisposedIsClosed
  BY ZenonT(60) DEF AgentRuntime!Idle, AP!Ar!Idle, AgentRuntime!Ended, AP!Ar!Ended,
         AgentRuntime!Init, AP!Ar!Init, AgentRuntime!At, AP!Ar!At, AgentRuntime!Goto,
         AP!Ar!Goto, AgentRuntime!Return, AP!Ar!Return, AgentRuntime!Fault, AP!Ar!Fault,
         AgentRuntime!Busy, AP!Ar!Busy, AgentRuntime!Unchanged, AP!Ar!Unchanged,
         AgentRuntime!CreateAgent, AP!Ar!CreateAgent, AgentRuntime!AgentMade, AP!Ar!AgentMade,
         AgentRuntime!AgentRefused, AP!Ar!AgentRefused, AgentRuntime!Send, AP!Ar!Send,
         AgentRuntime!RunStarted, AP!Ar!RunStarted, AgentRuntime!SendFailed, AP!Ar!SendFailed,
         AgentRuntime!Wait, AP!Ar!Wait, AgentRuntime!Outcome, AP!Ar!Outcome,
         AgentRuntime!Waited, AP!Ar!Waited, AgentRuntime!WaitFailed, AP!Ar!WaitFailed,
         AgentRuntime!Cancel, AP!Ar!Cancel, AgentRuntime!RunEnds, AP!Ar!RunEnds,
         AgentRuntime!Close, AP!Ar!Close, AgentRuntime!Closed, AP!Ar!Closed,
         AgentRuntime!Dispose, AP!Ar!Dispose, AgentRuntime!Remaining, AP!Ar!Remaining,
         AgentRuntime!Sweep, AP!Ar!Sweep, AgentRuntime!Swept, AP!Ar!Swept,
         AgentRuntime!Disposed, AP!Ar!Disposed, AgentRuntime!Next, AP!Ar!Next,
         AgentRuntime!ClosedByOther, AP!Ar!ClosedByOther, AgentRuntime!DisposedIsClosed,
         AP!Ar!DisposedIsClosed, AgentRuntime!Cardinality, AP!Ar!Cardinality,
         AgentRuntime!Range, AP!Ar!Range

LEMMA SameContinuation ==
    /\ Continuation!Init <=> WP!Cn!Init
    /\ Continuation!Next <=> WP!Cn!Next
    /\ Continuation!NoneFits <=> WP!Cn!NoneFits
    /\ Continuation!GrantsBounded <=> WP!Cn!GrantsBounded
  BY ZenonT(60) DEF Continuation!Work, WP!Cn!Work, Continuation!NoneFits, WP!Cn!NoneFits,
         Continuation!Rest, WP!Cn!Rest, Continuation!Init, WP!Cn!Init, Continuation!Call,
         WP!Cn!Call, Continuation!StopHook, WP!Cn!StopHook, Continuation!ResponseHook,
         WP!Cn!ResponseHook, Continuation!SaveEvidence, WP!Cn!SaveEvidence,
         Continuation!Cancelled, WP!Cn!Cancelled, Continuation!Failures, WP!Cn!Failures,
         Continuation!Repeated, WP!Cn!Repeated, Continuation!NextAction, WP!Cn!NextAction,
         Continuation!Verdict, WP!Cn!Verdict, Continuation!Grant, WP!Cn!Grant,
         Continuation!Known, WP!Cn!Known, Continuation!Refuse, WP!Cn!Refuse,
         Continuation!Cancel, WP!Cn!Cancel, Continuation!EndWorkflow, WP!Cn!EndWorkflow,
         Continuation!GrantContinuation, WP!Cn!GrantContinuation, Continuation!HookEnds,
         WP!Cn!HookEnds, Continuation!ResumeRead, WP!Cn!ResumeRead, Continuation!ResumeWrite,
         WP!Cn!ResumeWrite, Continuation!Change, WP!Cn!Change, Continuation!Expire,
         WP!Cn!Expire, Continuation!Next, WP!Cn!Next, Continuation!Streak, WP!Cn!Streak,
         Continuation!GrantsBounded, WP!Cn!GrantsBounded

LEMMA SameHooks ==
    /\ HookDispatch!Init <=> WP!Hd!Init
    /\ HookDispatch!Next <=> WP!Hd!Next
    /\ HookDispatch!NoneFits <=> WP!Hd!NoneFits
    /\ HookDispatch!SafetyFirst <=> WP!Hd!SafetyFirst
  BY ZenonT(60) DEF HookDispatch!Ids, WP!Hd!Ids, HookDispatch!Id, WP!Hd!Id, HookDispatch!Event,
         WP!Hd!Event, HookDispatch!Handler, WP!Hd!Handler, HookDispatch!builtinHandlers,
         WP!Hd!builtinHandlers, HookDispatch!registerBuiltinHandlers,
         WP!Hd!registerBuiltinHandlers, HookDispatch!NoneFits, WP!Hd!NoneFits,
         HookDispatch!Registrable, WP!Hd!Registrable, HookDispatch!Input, WP!Hd!Input,
         HookDispatch!Unasked, WP!Hd!Unasked, HookDispatch!Absent, WP!Hd!Absent,
         HookDispatch!Init, WP!Hd!Init, HookDispatch!Overrides, WP!Hd!Overrides,
         HookDispatch!ClaimsTier, WP!Hd!ClaimsTier, HookDispatch!Register, WP!Hd!Register,
         HookDispatch!Reset, WP!Hd!Reset, HookDispatch!Position, WP!Hd!Position,
         HookDispatch!Before, WP!Hd!Before, HookDispatch!getOrderedHandlersForEvent,
         WP!Hd!getOrderedHandlersForEvent, HookDispatch!First, WP!Hd!First, HookDispatch!Return,
         WP!Hd!Return, HookDispatch!Asked, WP!Hd!Asked, HookDispatch!Onward, WP!Hd!Onward,
         HookDispatch!Begin, WP!Hd!Begin, HookDispatch!Safe, WP!Hd!Safe, HookDispatch!Ask,
         WP!Hd!Ask, HookDispatch!Pass, WP!Hd!Pass, HookDispatch!Deny, WP!Hd!Deny,
         HookDispatch!FailsClosed, WP!Hd!FailsClosed, HookDispatch!Failed, WP!Hd!Failed,
         HookDispatch!Throw, WP!Hd!Throw, HookDispatch!Timeout, WP!Hd!Timeout,
         HookDispatch!AnswerLate, WP!Hd!AnswerLate, HookDispatch!Finish, WP!Hd!Finish,
         HookDispatch!HostSpawn, WP!Hd!HostSpawn, HookDispatch!CliPrint, WP!Hd!CliPrint,
         HookDispatch!Audited, WP!Hd!Audited, HookDispatch!HostRead, WP!Hd!HostRead,
         HookDispatch!Next, WP!Hd!Next, HookDispatch!SafetyFirst, WP!Hd!SafetyFirst,
         HookDispatch!Range, WP!Hd!Range

-----------------------------------------------------------------------------
(* The part that runs.                                                     *)

\* What begins is a component; it stays the same one, and a step is a step of it.
LEMMA Moves ==
    /\ Init =>
           /\ part = "workflow" => Workflow!Init
           /\ part = "persist" => PersistLoop!Init
           /\ part = "team_init" => TeamInit!Init
           /\ part = "supervisor" => TeamSupervisor!Init
           /\ part = "mailbox" => Mailbox!Init
           /\ part = "creation" => TaskCreation!Init
           /\ part = "native" => NativeTeam!Init
           /\ part = "agents" => AgentRuntime!Init
           /\ part = "continuation" => Continuation!Init
           /\ part = "hooks" => HookDispatch!Init
    /\ [Next]_<<part, registers>> =>
           /\ part' = part
           /\ part = "workflow" => Workflow!Next \/ UNCHANGED registers
           /\ part = "persist" => PersistLoop!Next \/ UNCHANGED registers
           /\ part = "team_init" => TeamInit!Next \/ UNCHANGED registers
           /\ part = "supervisor" => TeamSupervisor!Next \/ UNCHANGED registers
           /\ part = "mailbox" => Mailbox!Next \/ UNCHANGED registers
           /\ part = "creation" => TaskCreation!Next \/ UNCHANGED registers
           /\ part = "native" => NativeTeam!Next \/ UNCHANGED registers
           /\ part = "agents" => AgentRuntime!Next \/ UNCHANGED registers
           /\ part = "continuation" => Continuation!Next \/ UNCHANGED registers
           /\ part = "hooks" => HookDispatch!Next \/ UNCHANGED registers
  BY DEF Init, JournalInit, InstallInit, WorkflowInit, CloudInit, TasksInit, PersistInit,
         ContinuationInit, CompactionInit, McpConfigInit, McpProbeInit, McpServeInit,
         MemoryInit, MailboxInit, OwnerInit, AtomicInit, SupervisorInit, TeamInitInit,
         RecoveryInit, TrackerInit, HooksInit, AgentsInit, NativeInit, AskInit,
         AutomationsInit, UlwInit, EventsInit, CreationInit, Next, JournalStep, InstallStep,
         WorkflowStep, CloudStep, TasksStep, PersistStep, ContinuationStep, CompactionStep,
         McpConfigStep, McpProbeStep, McpServeStep, MemoryStep, MailboxStep, OwnerStep,
         AtomicStep, SupervisorStep, TeamInitStep, RecoveryStep, TrackerStep, HooksStep,
         AgentsStep, NativeStep, AskStep, AutomationsStep, UlwStep, EventsStep, CreationStep

-----------------------------------------------------------------------------
(* Workflows.                                                              *)

WorkflowInv == part = "workflow" => WP!IInv

\* The plan of the instance is one.
LEMMA WorkflowFits == WP!Parameters
  <1>1. Workflow!NoneFits
    BY WorkflowAssumption
  <1>2. WP!StagesFit
    BY DEF WP!StagesFit, WP!Task, WP!Attempt
  <1> QED  BY <1>1, <1>2, SameWorkflow DEF WP!Parameters

LEMMA WorkflowInvariant ==
    /\ Init => WorkflowInv
    /\ WorkflowInv /\ [Next]_<<part, registers>> => WorkflowInv'
  BY Moves, SameWorkflow, WorkflowFits, WP!Initially, WP!StepKeeps DEF WorkflowInv,
     registers, WP!vars

\* However runners overlap, are killed and fail, every attempt of a task starts Cursor at most
\* once, recorded and in order, and one runner at most has Cursor at work (runWorkflow,
\* workflows/runner.ts, and WorkflowPersistenceStore, workflows/store.ts).
THEOREM StartsOnce == Spec => []InvokedOnce
  <1>1. WorkflowInv => InvokedOnce
    BY WorkflowFits, WP!OnceFollows, SameWorkflow DEF WorkflowInv, InvokedOnce
  <1> QED  BY <1>1, WorkflowInvariant, PTL DEF Spec

\* What runners read as fences, no write takes back.
LEMMA WorkflowFences ==
    ASSUME WorkflowInv, [Next]_<<part, registers>>, part = "workflow"
    PROVE  Workflow!RevisionFences
  <1>1. WP!IInv /\ [WP!Next]_WP!vars
    BY Moves, SameWorkflow DEF WorkflowInv, registers, WP!vars
  <1> QED  BY <1>1, WorkflowFits, WP!FencesFollow, SameWorkflow

-----------------------------------------------------------------------------
(* Persist loops.                                                          *)

PersistInv == part = "persist" => AP!PersistInv

LEMMA PersistFits == AP!PersistParameters
  BY PersistAssumption, SamePersist DEF AP!PersistParameters

LEMMA PersistInvariant ==
    /\ Init => PersistInv
    /\ PersistInv /\ [Next]_<<part, registers>> =>
         PersistInv' /\ (part = "persist" => PersistLoop!FollowupsBounded)
  <1>1. Init => PersistInv
    BY Moves, SamePersist, PersistFits, AP!PersistInitially DEF PersistInv
  <1>2. PersistInv /\ [Next]_<<part, registers>> =>
         PersistInv' /\ (part = "persist" => PersistLoop!FollowupsBounded)
    BY Moves, SamePersist, PersistFits, AP!PersistStepKeeps DEF PersistInv, registers, AP!vars
  <1> QED  BY <1>1, <1>2

\* What a fence reads never comes back: a workflow's revisions and lease generations only rise
\* (WorkflowPersistenceStore, workflows/store.ts), and a stop hook delivers only for the loop
\* that runs, within its budget (decidePersist, persist/decision.ts, and hooks/omcu-hook.mjs).
THEOREM Fences == Spec => FencesHold
  <1> DEFINE Kept == /\ part = "workflow" => Workflow!RevisionFences
                     /\ part = "persist" => PersistLoop!FollowupsBounded
  <1>1. WorkflowInv /\ PersistInv /\ [Next]_<<part, registers>> => [Kept]_registers
    BY WorkflowFences, PersistInvariant
  <1>2. Spec => [][Kept]_registers
    <2> HIDE DEF Kept
    <2> QED  BY <1>1, WorkflowInvariant, PersistInvariant, PTL DEF Spec
  <1> QED  BY <1>2 DEF FencesHold

-----------------------------------------------------------------------------
(* Teams.                                                                  *)

TeamInitInv == part = "team_init" => AP!TeamInitInv

LEMMA TeamInitInvariant ==
    /\ Init => TeamInitInv
    /\ TeamInitInv /\ [Next]_<<part, registers>> => TeamInitInv'
  BY Moves, SameTeamInit, TeamInitAssumption, AP!TeamInitInitially,
     AP!TeamInitStepKeeps DEF TeamInitInv, registers, AP!Ti!vars

LEMMA SupervisorFits == AP!SupervisorParameters
  BY SupervisorAssumption, SameSupervisor DEF AP!SupervisorParameters

SupervisorInv == part = "supervisor" => AP!SupervisorInv

LEMMA SupervisorInvariant ==
    /\ Init => SupervisorInv
    /\ SupervisorInv /\ [Next]_<<part, registers>> => SupervisorInv'
  BY Moves, SameSupervisor, SupervisorFits, AP!SupervisorInitially,
     AP!SupervisorStepKeeps DEF SupervisorInv, registers, AP!Ts!vars

MailInv == part = "mailbox" => AP!MailInv

LEMMA MailInvariant ==
    /\ Init => MailInv
    /\ MailInv /\ [Next]_<<part, registers>> => MailInv'
  BY Moves, SameMail, MailboxAssumption, AP!MailInitially, AP!MailStepKeeps DEF
     MailInv, registers, AP!Mb!vars

LEMMA CreationFits == AP!CreationParameters
  BY CreationAssumption, SameCreation DEF AP!CreationParameters

CreationInv == part = "creation" => AP!MakeInv

LEMMA CreationInvariant ==
    /\ Init => CreationInv
    /\ CreationInv /\ [Next]_<<part, registers>> => CreationInv'
  BY Moves, SameCreation, CreationFits, AP!CreationInitially, AP!CreationStepKeeps
     DEF CreationInv, registers, AP!Cr!vars

LEMMA NativeFits == AP!NativeParameters
  BY NativeAssumption, SameNative DEF AP!NativeParameters

NativeInv == part = "native" => AP!NativeInv

LEMMA NativeInvariant ==
    /\ Init => NativeInv
    /\ NativeInv /\ [Next]_<<part, registers>> => NativeInv'
  BY Moves, SameNative, NativeFits, AP!NativeInitially, AP!NativeStepKeeps DEF
     NativeInv, registers, AP!Nt!vars

RuntimeInv == part = "agents" => AP!RuntimeInv

LEMMA RuntimeInvariant ==
    /\ Init => RuntimeInv
    /\ RuntimeInv /\ [Next]_<<part, registers>> => RuntimeInv'
  BY Moves, SameRuntime, AP!RuntimeInitially, AP!RuntimeStepKeeps DEF RuntimeInv,
     registers, AP!Ar!vars

\* A message stays until it is marked (team/mailbox.ts), a stopped team is gone and alone
\* (team/supervisor.ts), its directory is whole (team/state-root.ts), a creation makes one task
\* (team/tasks.ts), and agents are cancelled and closed or said not to be (team/native-supervisor.ts and the
\* runtime of the Cursor SDK).
THEOREM TeamsAreSound == Spec => []TeamSound
  <1>1. TeamInitInv => (part = "team_init" => TeamInit!InitIsWhole)
    BY SameTeamInit, TeamInitAssumption, AP!TeamInitImplied DEF TeamInitInv
  <1>2. SupervisorInv => (part = "supervisor" => 
                     /\ TeamSupervisor!SignalsOwnGroups
                     /\ TeamSupervisor!StoppedIsGone
                     /\ TeamSupervisor!FailedStartLeavesNothing)
    BY SameSupervisor, SupervisorFits, AP!SupervisorImplied DEF SupervisorInv
  <1>3. MailInv => (part = "mailbox" => Mailbox!InboxKeepsPromises)
    BY SameMail, MailboxAssumption, AP!MailImplied DEF MailInv
  <1>4. CreationInv => (part = "creation" => TaskCreation!CreatedOnce /\ TaskCreation!WaitsForReason)
    BY SameCreation, CreationFits, AP!CreationImplied DEF CreationInv
  <1>5. NativeInv => (part = "native" => NativeTeam!NobodyLost)
    BY SameNative, NativeFits, AP!NativeImplied DEF NativeInv
  <1>6. RuntimeInv => (part = "agents" => AgentRuntime!DisposedIsClosed)
    BY SameRuntime, AP!RuntimeImplied DEF RuntimeInv
  <1>7. TeamInitInv /\ SupervisorInv /\ MailInv /\ CreationInv /\ NativeInv /\ RuntimeInv
           => TeamSound
    BY <1>1, <1>2, <1>3, <1>4, <1>5, <1>6 DEF TeamSound
  <1> QED  BY <1>7, TeamInitInvariant, SupervisorInvariant, MailInvariant, CreationInvariant,
              NativeInvariant, RuntimeInvariant, PTL DEF Spec

-----------------------------------------------------------------------------
(* Hooks.                                                                  *)

LEMMA ContinuationFits == WP!ContinuationParameters
  BY ContinuationAssumption, SameContinuation DEF WP!ContinuationParameters

ContinuationInv == part = "continuation" => WP!ContinuationInv

LEMMA ContinuationInvariant ==
    /\ Init => ContinuationInv
    /\ ContinuationInv /\ [Next]_<<part, registers>> => ContinuationInv'
  <1>1. Init => ContinuationInv
    BY Moves, SameContinuation, ContinuationFits, WP!ContinuationStarts DEF ContinuationInv
  <1>2. ContinuationInv /\ [Next]_<<part, registers>> => ContinuationInv'
    BY Moves, SameContinuation, ContinuationFits, WP!ContinuationKept
      DEF ContinuationInv, registers, WP!Cn!vars
  <1> QED  BY <1>1, <1>2

HooksInv == part = "hooks" => WP!DispatchInv

LEMMA HooksInvariant ==
    /\ Init => HooksInv
    /\ HooksInv /\ [Next]_<<part, registers>> => HooksInv'
  BY Moves, SameHooks, HooksAssumption, WP!HookInitially, WP!DispatchStepKeeps DEF
     HooksInv, registers, WP!Hd!vars

\* A workflow is continued within its budget and its failure policy (continuation/transaction.ts),
\* and what the safety rules of the registry refuse is not allowed (hooks/dispatcher.ts).
THEOREM HooksAreSound == Spec => []HooksSound
  <1>1. ContinuationInv => (part = "continuation" => Continuation!GrantsBounded)
    BY SameContinuation, ContinuationFits, WP!ContinuationImplied DEF ContinuationInv
  <1>2. HooksInv => (part = "hooks" => HookDispatch!SafetyFirst)
    BY SameHooks, HooksAssumption, WP!DispatchImplied DEF HooksInv
  <1>3. ContinuationInv /\ HooksInv => HooksSound
    BY <1>1, <1>2 DEF HooksSound
  <1> QED  BY <1>3, ContinuationInvariant, HooksInvariant, PTL DEF Spec
=============================================================================
