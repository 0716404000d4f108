-------------------------- MODULE SystemFileProofs --------------------------
(***************************************************************************)
(* What is proved of the components in ComponentProofs and InstallProofs,  *)
(* of the system they make, as in SystemAgentProofs.  Here the parts that  *)
(* keep files and give answers: cloud plans, the installation, recoveries, *)
(* checkpoints, what writers are told, and what goes across pipes.         *)
(***************************************************************************)
EXTENDS System, TLAPS

CP == INSTANCE ComponentProofs WITH
    name <- r3, residue <- r4, pc <- r5, ops <- r6, seen <- r7, evidence <- r8,
    expired <- r9, alive <- r11, crashes <- r12,
    Proc <- {}, Ino <- {}, NoIno <- x1, Free <- "free", Empty <- "empty", NoToken <- "none",
    MaxOps <- 0, MaxFailure <- 0, Orphans <- FALSE, Heartbeat <- FALSE,
    plan <- r1, actor <- r2, aborted <- r3, cloud <- r4, sent <- r5, ingested <- r6,
    shown <- r7, calls <- r8, overlap <- r9, faults <- r10,
    Actor <- Process, Task <- Item, Handoff <- {x1, x2}, MaxPlanCalls <- 2, MaxFault <- 1,
    immutable <- r1, current <- r2, checkpointLock <- r3, caller <- r4, fresh <- r5,
    checkpoints <- r6, kills <- r7,
    Caller <- Process, Payload <- {x1}, MaxCheckpoints <- 4, MaxKill <- 1,
    transcript <- r1, former <- r2, contents <- r3, ring <- r4, reader <- r5,
    copy <- r6, snapshot <- r7, answers <- r8, changes <- r9, recoveryFaults <- r10,
    Lines <- TranscriptLines, LineLimit <- 2, MaxLine <- 2, MaxTail <- 3,
    MaxSource <- 3, MaxChanges <- 1,
    owner <- r1, aside <- r2, guard <- r3, process <- r4, authority <- r5,
    created <- r6, ownerEdits <- r7, ownerFaults <- r8, MaxOwnerEdits <- 2,
    worktree <- r1, ulw <- r2, step <- r3, receipts <- r4, ids <- r5, ulwFaults <- r6,
    Worker <- Item, Id <- {x1, x2}, MaxRuns <- 2, MaxUlwFaults <- 2,
    automation <- r1, exports <- r2, manager <- r3, mixed <- r4, half <- r5,
    managerCalls <- r6, managerFaults <- r7, MaxManagerCalls <- 4,
    path <- r1, file <- r2, temp <- r3, writer <- r4, outcome <- r5, visible <- r6,
    clobbered <- r7, writeFaults <- r8, swaps <- r9,
    Writer <- Process, Dir <- Item, MaxSwap <- 1,
    config <- r1, receipt <- r2, launcher <- r3, mcpLock <- r4, mcp <- r5, chosen <- r6,
    calm <- r7, mcpCalls <- r8, edits <- r9, moves <- r10, mcpFaults <- r11,
    Launcher <- Item, Foreign <- {x1}, MaxMcpCalls <- 3, MaxEdits <- 1, MaxMoves <- 2

IP == INSTANCE InstallProofs WITH
    cli <- r1, pointer <- r2, receipts <- r3, stage <- r4, tmp <- r5, journal <- r6,
    project <- r7, pc <- r8, job <- r9, fate <- r10, txns <- r11, calls <- r12,
    faults <- r13, drifts <- r14,
    mode <- r1, asked <- r2, signal <- r3, child <- r4, pipes <- r5, code <- r6,
    limits <- r7, killer <- r8, ending <- r9, alike <- r10, verdict <- r11,
    artifact <- r12, ended <- r13,
    Provider <- Item,
    server <- r1, pipe <- r2, probing <- r3, probeTimer <- r4, force <- r5, report <- r6,
    loop <- r7, wrote <- r8, deserted <- r9,
    MaxLines <- 3,
    stdin <- r1, chunk <- r2, held <- r3, discarding <- r4, strict <- r5,
    initialized <- r6, writing <- r7, open <- r8, serving <- r9, replies <- r10,
    input <- r11,
    MaxLine <- 2, MaxInput <- 4

\* ComponentProofs is about the directory lock too: a lock that nobody asks for will do here.
LEMMA LockFits ==
    /\ /\ x1 \notin {}
       /\ "free" \notin CP!Token /\ "empty" \notin CP!Token /\ "none" \notin CP!Token
       /\ "free" # "empty" /\ "none" \notin {"free", "empty"}
    /\ /\ 0 \in Nat
       /\ 0 \in Nat
       /\ FALSE \in BOOLEAN /\ FALSE \in BOOLEAN
  BY DEF CP!Token

\* The proofs are about the same instances.
LEMMA SameCloud ==
    /\ CloudPlan!Init <=> CP!Cp!Init
    /\ CloudPlan!Next <=> CP!Cp!Next
    /\ CloudPlan!CompletedWasVerified <=> CP!Cp!CompletedWasVerified
  BY ZenonT(60) DEF CloudPlan!Rest, CP!Cp!Rest, CloudPlan!Init, CP!Cp!Init, CloudPlan!Done,
         CP!Cp!Done, CloudPlan!Busy, CP!Cp!Busy, CloudPlan!Execute, CP!Cp!Execute, CloudPlan!Ends,
         CP!Cp!Ends, CloudPlan!SkipWorker, CP!Cp!SkipWorker, CloudPlan!SendWorker,
         CP!Cp!SendWorker, CloudPlan!WorkerReturns, CP!Cp!WorkerReturns, CloudPlan!WorkerFails,
         CP!Cp!WorkerFails, CloudPlan!AllEnded, CP!Cp!AllEnded, CloudPlan!AnyFailed,
         CP!Cp!AnyFailed, CloudPlan!Write, CP!Cp!Write, CloudPlan!WorkersFailed,
         CP!Cp!WorkersFailed, CloudPlan!StartVerifier, CP!Cp!StartVerifier,
         CloudPlan!LateWhileVerifying, CP!Cp!LateWhileVerifying, CloudPlan!Verdict, CP!Cp!Verdict,
         CloudPlan!IngestLateHandoff, CP!Cp!IngestLateHandoff, CloudPlan!CancelRead,
         CP!Cp!CancelRead, CloudPlan!Cancellable, CP!Cp!Cancellable, CloudPlan!CancelRuns,
         CP!Cp!CancelRuns, CloudPlan!Abort, CP!Cp!Abort, CloudPlan!Kill, CP!Cp!Kill,
         CloudPlan!Next, CP!Cp!Next, CloudPlan!Cardinality, CP!Cp!Cardinality,
         CloudPlan!CompletedWasVerified, CP!Cp!CompletedWasVerified

LEMMA SameCheckpoints ==
    /\ Checkpoints!Init <=> CP!Ck!Init
    /\ Checkpoints!Next <=> CP!Ck!Next
    /\ Checkpoints!NoneFits <=> CP!Ck!NoneFits
    /\ Checkpoints!CheckpointsKept <=> CP!Ck!CheckpointsKept
  BY ZenonT(60) DEF Checkpoints!Rest, CP!Ck!Rest, Checkpoints!Init, CP!Ck!Init, Checkpoints!Begin,
         CP!Ck!Begin, Checkpoints!Command, CP!Ck!Command, Checkpoints!PreCompact,
         CP!Ck!PreCompact, Checkpoints!Goto, CP!Ck!Goto, Checkpoints!End, CP!Ck!End,
         Checkpoints!Locked, CP!Ck!Locked, Checkpoints!WriteImmutable, CP!Ck!WriteImmutable,
         Checkpoints!Pointer, CP!Ck!Pointer, Checkpoints!WritePointer, CP!Ck!WritePointer,
         Checkpoints!Kill, CP!Ck!Kill, Checkpoints!Next, CP!Ck!Next, Checkpoints!NoneFits,
         CP!Ck!NoneFits, Checkpoints!CheckpointsKept, CP!Ck!CheckpointsKept, Checkpoints!IsPrefix,
         CP!Ck!IsPrefix

LEMMA SameRecovery ==
    /\ Recovery!Init <=> CP!Rc!Init
    /\ Recovery!Next <=> CP!Rc!Next
    /\ Recovery!NoneFits <=> CP!Rc!NoneFits
    /\ Recovery!RecoveryIsTrue <=> CP!Rc!RecoveryIsTrue
    /\ Recovery!RecoveryIsImmutable <=> CP!Rc!RecoveryIsImmutable
  BY ZenonT(60) DEF Recovery!Content, CP!Rc!Content, Recovery!Init, CP!Rc!Init, Recovery!source,
         CP!Rc!source, Recovery!Bytes, CP!Rc!Bytes, Recovery!Parses, CP!Rc!Parses, Recovery!Ids,
         CP!Rc!Ids, Recovery!Cut, CP!Rc!Cut, Recovery!Goto, CP!Rc!Goto, Recovery!Answers,
         CP!Rc!Answers, Recovery!Fails, CP!Rc!Fails, Recovery!Opened, CP!Rc!Opened,
         Recovery!Unchanged, CP!Rc!Unchanged, Recovery!InMemory, CP!Rc!InMemory, Recovery!Spill,
         CP!Rc!Spill, Recovery!Push, CP!Rc!Push, Recovery!TailOf, CP!Rc!TailOf, Recovery!Open,
         CP!Rc!Open, Recovery!ReadLine, CP!Rc!ReadLine, Recovery!Missing, CP!Rc!Missing,
         Recovery!Truncated, CP!Rc!Truncated, Recovery!VerifyScan, CP!Rc!VerifyScan,
         Recovery!ScanPrefix, CP!Rc!ScanPrefix, Recovery!PrefixFails, CP!Rc!PrefixFails,
         Recovery!VerifyPrefix, CP!Rc!VerifyPrefix, Recovery!Verdict, CP!Rc!Verdict,
         Recovery!Given, CP!Rc!Given, Recovery!CopyIsMine, CP!Rc!CopyIsMine, Recovery!CreateCopy,
         CP!Rc!CreateCopy, Recovery!CopyRaced, CP!Rc!CopyRaced, Recovery!FillCopy, CP!Rc!FillCopy,
         Recovery!Readable, CP!Rc!Readable, Recovery!LookForSnapshot, CP!Rc!LookForSnapshot,
         Recovery!Sealed, CP!Rc!Sealed, Recovery!WriteSnapshot, CP!Rc!WriteSnapshot,
         Recovery!SealSnapshot, CP!Rc!SealSnapshot, Recovery!Kill, CP!Rc!Kill, Recovery!Change,
         CP!Rc!Change, Recovery!Next, CP!Rc!Next, Recovery!Min, CP!Rc!Min, Recovery!ToSet,
         CP!Rc!ToSet, Recovery!MapThenSumSet, CP!Rc!MapThenSumSet, Recovery!MapThenFoldSet,
         CP!Rc!MapThenFoldSet, Recovery!Copies, CP!Rc!Copies, Recovery!NoneFits, CP!Rc!NoneFits,
         Recovery!LastLines, CP!Rc!LastLines, Recovery!RecoveryIsTrue, CP!Rc!RecoveryIsTrue,
         Recovery!Max, CP!Rc!Max, Recovery!RecoveryIsImmutable, CP!Rc!RecoveryIsImmutable

LEMMA SameOwner ==
    /\ OwnerRecord!Init <=> CP!Ow!Init
    /\ OwnerRecord!Next <=> CP!Ow!Next
    /\ OwnerRecord!NoneFits <=> CP!Ow!NoneFits
    /\ OwnerRecord!AuthorityKept <=> CP!Ow!AuthorityKept
  BY ZenonT(60) DEF OwnerRecord!Idle, CP!Ow!Idle, OwnerRecord!Init, CP!Ow!Init, OwnerRecord!Valid,
         CP!Ow!Valid, OwnerRecord!Step, CP!Ow!Step, OwnerRecord!Leaves, CP!Ow!Leaves,
         OwnerRecord!Given, CP!Ow!Given, OwnerRecord!Begin, CP!Ow!Begin, OwnerRecord!Adopt,
         CP!Ow!Adopt, OwnerRecord!AdoptFails, CP!Ow!AdoptFails, OwnerRecord!Absent, CP!Ow!Absent,
         OwnerRecord!CreateRecord, CP!Ow!CreateRecord, OwnerRecord!AfterUncertain,
         CP!Ow!AfterUncertain, OwnerRecord!CreateUncertain, CP!Ow!CreateUncertain,
         OwnerRecord!Inspect, CP!Ow!Inspect, OwnerRecord!Confirm, CP!Ow!Confirm,
         OwnerRecord!MoveAside, CP!Ow!MoveAside, OwnerRecord!SameFile, CP!Ow!SameFile,
         OwnerRecord!Judge, CP!Ow!Judge, OwnerRecord!Kill, CP!Ow!Kill, OwnerRecord!UserEdits,
         CP!Ow!UserEdits, OwnerRecord!Next, CP!Ow!Next, OwnerRecord!Record, CP!Ow!Record,
         OwnerRecord!NoneFits, CP!Ow!NoneFits, OwnerRecord!AuthorityKept, CP!Ow!AuthorityKept

LEMMA SameUlw ==
    /\ Ulw!Init <=> CP!Ul!Init
    /\ Ulw!Next <=> CP!Ul!Next
    /\ Ulw!NoneFits <=> CP!Ul!NoneFits
    /\ Ulw!ReceiptsTrue <=> CP!Ul!ReceiptsTrue
  BY ZenonT(60) DEF Ulw!Init, CP!Ul!Init, Ulw!Fresh, CP!Ul!Fresh, Ulw!At, CP!Ul!At, Ulw!Goto,
         CP!Ul!Goto, Ulw!Here, CP!Ul!Here, Ulw!Put, CP!Ul!Put, Ulw!Fault, CP!Ul!Fault,
         Ulw!Unfaulted, CP!Ul!Unfaulted, Ulw!Run, CP!Ul!Run, Ulw!Receipt, CP!Ul!Receipt, Ulw!Add,
         CP!Ul!Add, Ulw!Invoke, CP!Ul!Invoke, Ulw!Retain, CP!Ul!Retain, Ulw!Unremoved,
         CP!Ul!Unremoved, Ulw!Cleanup, CP!Ul!Cleanup, Ulw!Finish, CP!Ul!Finish, Ulw!Kill,
         CP!Ul!Kill, Ulw!Next, CP!Ul!Next, Ulw!NoneFits, CP!Ul!NoneFits, Ulw!Kept, CP!Ul!Kept,
         Ulw!Last, CP!Ul!Last, Ulw!ReceiptsTrue, CP!Ul!ReceiptsTrue

LEMMA SameAutomation ==
    /\ Automations!Init <=> CP!Au!Init
    /\ Automations!Next <=> CP!Au!Next
    /\ Automations!ExportsAsTold <=> CP!Au!ExportsAsTold
  BY ZenonT(60) DEF Automations!Resting, CP!Au!Resting, Automations!Init, CP!Au!Init,
         Automations!Target, CP!Au!Target, Automations!At, CP!Au!At, Automations!Goto, CP!Au!Goto,
         Automations!Return, CP!Au!Return, Automations!Fault, CP!Au!Fault, Automations!Unfaulted,
         CP!Au!Unfaulted, Automations!Open, CP!Au!Open, Automations!Plan, CP!Au!Plan,
         Automations!Planned, CP!Au!Planned, Automations!Install, CP!Au!Install,
         Automations!Export, CP!Au!Export, Automations!Commit, CP!Au!Commit,
         Automations!WriteFails, CP!Au!WriteFails, Automations!Remove, CP!Au!Remove,
         Automations!Removable, CP!Au!Removable, Automations!RemoveExport, CP!Au!RemoveExport,
         Automations!Disable, CP!Au!Disable, Automations!Kill, CP!Au!Kill, Automations!Next,
         CP!Au!Next, Automations!ExportsAsTold, CP!Au!ExportsAsTold

LEMMA SameAtomic ==
    /\ AtomicFile!Init <=> CP!Af!Init
    /\ AtomicFile!Next <=> CP!Af!Next
    /\ AtomicFile!NoneFits <=> CP!Af!NoneFits
    /\ AtomicFile!OutcomesTrue <=> CP!Af!OutcomesTrue
    /\ AtomicFile!StaysInPlace <=> CP!Af!StaysInPlace
  BY ZenonT(60) DEF AtomicFile!Idle, CP!Af!Idle, AtomicFile!Init, CP!Af!Init, AtomicFile!vars,
         CP!Af!vars, AtomicFile!Goto, CP!Af!Goto, AtomicFile!Returns, CP!Af!Returns,
         AtomicFile!SecureFilePath, CP!Af!SecureFilePath, AtomicFile!Refuse, CP!Af!Refuse,
         AtomicFile!SameDirectory, CP!Af!SameDirectory, AtomicFile!StartHelper, CP!Af!StartHelper,
         AtomicFile!Sweepable, CP!Af!Sweepable, AtomicFile!CleanupOld, CP!Af!CleanupOld,
         AtomicFile!OpenTemp, CP!Af!OpenTemp, AtomicFile!WriteTemp, CP!Af!WriteTemp,
         AtomicFile!Publish, CP!Af!Publish, AtomicFile!NameFree, CP!Af!NameFree,
         AtomicFile!Commit, CP!Af!Commit, AtomicFile!UnlinkTemp, CP!Af!UnlinkTemp,
         AtomicFile!SyncDirectory, CP!Af!SyncDirectory, AtomicFile!HelperPc, CP!Af!HelperPc,
         AtomicFile!HelperFails, CP!Af!HelperFails, AtomicFile!Uncertain, CP!Af!Uncertain,
         AtomicFile!HelperKilled, CP!Af!HelperKilled, AtomicFile!Verdict, CP!Af!Verdict,
         AtomicFile!Told, CP!Af!Told, AtomicFile!CleanupTemp, CP!Af!CleanupTemp,
         AtomicFile!CleanupFails, CP!Af!CleanupFails, AtomicFile!ParentKilled, CP!Af!ParentKilled,
         AtomicFile!Swap, CP!Af!Swap, AtomicFile!DayPasses, CP!Af!DayPasses, AtomicFile!Finished,
         CP!Af!Finished, AtomicFile!Next, CP!Af!Next, AtomicFile!Outcome, CP!Af!Outcome,
         AtomicFile!NoneFits, CP!Af!NoneFits, AtomicFile!OutcomesTrue, CP!Af!OutcomesTrue,
         AtomicFile!StaysInPlace, CP!Af!StaysInPlace

LEMMA SameMcp ==
    /\ McpConfig!Init <=> CP!Mc!Init
    /\ McpConfig!Next <=> CP!Mc!Next
    /\ McpConfig!NoneFits <=> CP!Mc!NoneFits
    /\ McpConfig!OursApart <=> CP!Mc!OursApart
    /\ McpConfig!UserServerKept <=> CP!Mc!UserServerKept
  BY ZenonT(60) DEF McpConfig!Rest, CP!Mc!Rest, McpConfig!Init, CP!Mc!Init, McpConfig!counters,
         CP!Mc!counters, McpConfig!Goto, CP!Mc!Goto, McpConfig!End, CP!Mc!End, McpConfig!Owned,
         CP!Mc!Owned, McpConfig!Status, CP!Mc!Status, McpConfig!Call, CP!Mc!Call,
         McpConfig!InstallRead, CP!Mc!InstallRead, McpConfig!InstallCompare, CP!Mc!InstallCompare,
         McpConfig!WriteServer, CP!Mc!WriteServer, McpConfig!InstallTarget, CP!Mc!InstallTarget,
         McpConfig!Rollback, CP!Mc!Rollback, McpConfig!InstallReceipt, CP!Mc!InstallReceipt,
         McpConfig!InstallReceiptFails, CP!Mc!InstallReceiptFails, McpConfig!UninstallRead,
         CP!Mc!UninstallRead, McpConfig!UninstallCompare, CP!Mc!UninstallCompare,
         McpConfig!UninstallTarget, CP!Mc!UninstallTarget, McpConfig!UninstallReceipt,
         CP!Mc!UninstallReceipt, McpConfig!UninstallReceiptFails, CP!Mc!UninstallReceiptFails,
         McpConfig!RepairRead, CP!Mc!RepairRead, McpConfig!RepairTarget, CP!Mc!RepairTarget,
         McpConfig!RepairReceipt, CP!Mc!RepairReceipt, McpConfig!Idle, CP!Mc!Idle, McpConfig!Edit,
         CP!Mc!Edit, McpConfig!Move, CP!Mc!Move, McpConfig!Kill, CP!Mc!Kill, McpConfig!Next,
         CP!Mc!Next, McpConfig!Server, CP!Mc!Server, McpConfig!Receipt, CP!Mc!Receipt,
         McpConfig!NoneFits, CP!Mc!NoneFits, McpConfig!OursApart, CP!Mc!OursApart,
         McpConfig!UserServerKept, CP!Mc!UserServerKept

LEMMA SameInstall ==
    /\ InstallTransaction!Init <=> IP!Init
    /\ InstallTransaction!Next <=> IP!Next
    /\ InstallTransaction!NoneFits <=> IP!NoneFits
    /\ InstallTransaction!AtRest <=> IP!AtRest
    /\ InstallTransaction!TargetsKept <=> IP!TargetsKept
    /\ InstallTransaction!LinkRuns <=> IP!LinkRuns
    /\ InstallTransaction!AllOrNothing <=> IP!AllOrNothing
    /\ InstallTransaction!FailureRestores <=> IP!FailureRestores
    /\ InstallTransaction!ProjectKept <=> IP!ProjectKept
  BY ZenonT(60) DEF InstallTransaction!Txn, IP!Txn, InstallTransaction!Init, IP!Init,
         InstallTransaction!files, IP!files, InstallTransaction!bounds, IP!bounds,
         InstallTransaction!Readable, IP!Readable, InstallTransaction!Installable, IP!Installable,
         InstallTransaction!IsCurrent, IP!IsCurrent, InstallTransaction!Step, IP!Step,
         InstallTransaction!Begin, IP!Begin, InstallTransaction!Call, IP!Call,
         InstallTransaction!Return, IP!Return, InstallTransaction!AllowCleanup, IP!AllowCleanup,
         InstallTransaction!Committed, IP!Committed, InstallTransaction!ReconcileNone,
         IP!ReconcileNone, InstallTransaction!ReconcileRefused, IP!ReconcileRefused,
         InstallTransaction!ReconcileInstall, IP!ReconcileInstall,
         InstallTransaction!ReconcileUninstall, IP!ReconcileUninstall,
         InstallTransaction!RestoreCli, IP!RestoreCli, InstallTransaction!RestorePointer,
         IP!RestorePointer, InstallTransaction!OwnsProject, IP!OwnsProject,
         InstallTransaction!RestoreProject, IP!RestoreProject, InstallTransaction!RestoreRmdir,
         IP!RestoreRmdir, InstallTransaction!RestoreReceipt, IP!RestoreReceipt,
         InstallTransaction!Less, IP!Less, InstallTransaction!RestoreStage, IP!RestoreStage,
         InstallTransaction!ClearMarker, IP!ClearMarker, InstallTransaction!Unjournal,
         IP!Unjournal, InstallTransaction!Reconcile, IP!Reconcile, InstallTransaction!Journal,
         IP!Journal, InstallTransaction!InstallPlan, IP!InstallPlan, InstallTransaction!Copy,
         IP!Copy, InstallTransaction!Publish, IP!Publish, InstallTransaction!Digest, IP!Digest,
         InstallTransaction!WriteReceipt, IP!WriteReceipt, InstallTransaction!SealReceipt,
         IP!SealReceipt, InstallTransaction!Link, IP!Link, InstallTransaction!Mkdir, IP!Mkdir,
         InstallTransaction!WriteMarker, IP!WriteMarker, InstallTransaction!Doctor, IP!Doctor,
         InstallTransaction!WritePointer, IP!WritePointer, InstallTransaction!Error, IP!Error,
         InstallTransaction!Install, IP!Install, InstallTransaction!RollbackPlan, IP!RollbackPlan,
         InstallTransaction!Repair, IP!Repair, InstallTransaction!Collision, IP!Collision,
         InstallTransaction!UninstallPlan, IP!UninstallPlan, InstallTransaction!RemoveStage,
         IP!RemoveStage, InstallTransaction!RemoveRest, IP!RemoveRest,
         InstallTransaction!RemoveCli, IP!RemoveCli, InstallTransaction!RemoveProject,
         IP!RemoveProject, InstallTransaction!RemovePointer, IP!RemovePointer,
         InstallTransaction!Uninstall, IP!Uninstall, InstallTransaction!Retained, IP!Retained,
         InstallTransaction!PrunePlan, IP!PrunePlan, InstallTransaction!PruneStep, IP!PruneStep,
         InstallTransaction!OnStage, IP!OnStage, InstallTransaction!PruneStage, IP!PruneStage,
         InstallTransaction!PruneReceipt, IP!PruneReceipt, InstallTransaction!PruneNext,
         IP!PruneNext, InstallTransaction!PruneDone, IP!PruneDone, InstallTransaction!Prune,
         IP!Prune, InstallTransaction!Kill, IP!Kill, InstallTransaction!UseProject, IP!UseProject,
         InstallTransaction!Drift, IP!Drift, InstallTransaction!Next, IP!Next,
         InstallTransaction!Cardinality, IP!Cardinality, InstallTransaction!Target, IP!Target,
         InstallTransaction!Receipt, IP!Receipt, InstallTransaction!Installation, IP!Installation,
         InstallTransaction!Removal, IP!Removal, InstallTransaction!Steps, IP!Steps,
         InstallTransaction!Job, IP!Job, InstallTransaction!NoneFits, IP!NoneFits,
         InstallTransaction!AtRest, IP!AtRest, InstallTransaction!TargetsKept, IP!TargetsKept,
         InstallTransaction!LinkRuns, IP!LinkRuns, InstallTransaction!Effective, IP!Effective,
         InstallTransaction!AllOrNothing, IP!AllOrNothing, InstallTransaction!FailureRestores,
         IP!FailureRestores, InstallTransaction!ProjectKept, IP!ProjectKept

LEMMA SameServe ==
    /\ McpServe!Init <=> IP!Sv!Init
    /\ McpServe!Next <=> IP!Sv!Next
    /\ McpServe!RepliesInOrder <=> IP!Sv!RepliesInOrder
  BY ZenonT(60) DEF McpServe!Newline, IP!Sv!Newline, McpServe!Message, IP!Sv!Message,
         McpServe!NoWrite, IP!Sv!NoWrite, McpServe!Init, IP!Sv!Init, McpServe!Answer,
         IP!Sv!Answer, McpServe!Ready, IP!Sv!Ready, McpServe!Reply, IP!Sv!Reply,
         McpServe!ReadyAfter, IP!Sv!ReadyAfter, McpServe!Serve, IP!Sv!Serve, McpServe!Quiet,
         IP!Sv!Quiet, McpServe!Chunk, IP!Sv!Chunk, McpServe!Overlong, IP!Sv!Overlong,
         McpServe!LineEnd, IP!Sv!LineEnd, McpServe!Line, IP!Sv!Line, McpServe!Part, IP!Sv!Part,
         McpServe!EndOfInput, IP!Sv!EndOfInput, McpServe!Settles, IP!Sv!Settles, McpServe!Event,
         IP!Sv!Event, McpServe!Written, IP!Sv!Written, McpServe!Drain, IP!Sv!Drain,
         McpServe!Close, IP!Sv!Close, McpServe!Next, IP!Sv!Next, McpServe!LineEnds,
         IP!Sv!LineEnds, McpServe!LineAt, IP!Sv!LineAt, McpServe!ReplyAt, IP!Sv!ReplyAt,
         McpServe!Answered, IP!Sv!Answered, McpServe!RepliesInOrder, IP!Sv!RepliesInOrder,
         McpServe!Cardinality, IP!Sv!Cardinality, McpServe!SelectInSeq, IP!Sv!SelectInSeq,
         McpServe!Min, IP!Sv!Min

LEMMA SameProbe ==
    /\ McpProbe!Init <=> IP!Pb!Init
    /\ McpProbe!Next <=> IP!Pb!Next
    /\ McpProbe!ProbeTells <=> IP!Pb!ProbeTells
  BY ZenonT(60) DEF McpProbe!Line, IP!Pb!Line, McpProbe!Init, IP!Pb!Init, McpProbe!Waiting,
         IP!Pb!Waiting, McpProbe!Finish, IP!Pb!Finish, McpProbe!Spawn, IP!Pb!Spawn,
         McpProbe!SpawnFails, IP!Pb!SpawnFails, McpProbe!Write, IP!Pb!Write, McpProbe!Exit,
         IP!Pb!Exit, McpProbe!Expected, IP!Pb!Expected, McpProbe!Ignored, IP!Pb!Ignored,
         McpProbe!Initialized, IP!Pb!Initialized, McpProbe!Listed, IP!Pb!Listed,
         McpProbe!BadAnswer, IP!Pb!BadAnswer, McpProbe!Timeout, IP!Pb!Timeout, McpProbe!Ended,
         IP!Pb!Ended, McpProbe!ForceKill, IP!Pb!ForceKill, McpProbe!Gone, IP!Pb!Gone,
         McpProbe!Next, IP!Pb!Next, McpProbe!ProbeTells, IP!Pb!ProbeTells

LEMMA SameAsk ==
    /\ ProviderRun!Init <=> IP!Pr!Init
    /\ ProviderRun!Next <=> IP!Pr!Next
    /\ ProviderRun!NoneFits <=> IP!Pr!NoneFits
    /\ ProviderRun!AnswersHonest <=> IP!Pr!AnswersHonest
  BY ZenonT(60) DEF ProviderRun!NoneFits, IP!Pr!NoneFits, ProviderRun!Settled, IP!Pr!Settled,
         ProviderRun!Init, IP!Pr!Init, ProviderRun!Fixed, IP!Pr!Fixed, ProviderRun!Settle,
         IP!Pr!Settle, ProviderRun!ExecuteRefused, IP!Pr!ExecuteRefused, ProviderRun!Execute,
         IP!Pr!Execute, ProviderRun!Alive, IP!Pr!Alive, ProviderRun!KillerAfter,
         IP!Pr!KillerAfter, ProviderRun!GiveUp, IP!Pr!GiveUp, ProviderRun!Timeout,
         IP!Pr!Timeout, ProviderRun!Abort, IP!Pr!Abort, ProviderRun!Kill, IP!Pr!Kill,
         ProviderRun!Exit, IP!Pr!Exit, ProviderRun!ExitCode, IP!Pr!ExitCode, ProviderRun!Close,
         IP!Pr!Close, ProviderRun!Succeeded, IP!Pr!Succeeded, ProviderRun!VerdictOf,
         IP!Pr!VerdictOf, ProviderRun!Compare, IP!Pr!Compare, ProviderRun!End, IP!Pr!End,
         ProviderRun!Next, IP!Pr!Next, ProviderRun!AnswersHonest, IP!Pr!AnswersHonest,
         ProviderRun!Cardinality, IP!Pr!Cardinality

-----------------------------------------------------------------------------
(* The part that runs.                                                     *)

\* What begins is a component; it stays the same one, and a step is a step of it.
LEMMA Moves ==
    /\ Init =>
           /\ part = "cloud" => CloudPlan!Init
           /\ part = "install" => InstallTransaction!Init
           /\ part = "compaction" => Checkpoints!Init
           /\ part = "recovery" => Recovery!Init
           /\ part = "owner" => OwnerRecord!Init
           /\ part = "ulw" => Ulw!Init
           /\ part = "automations" => Automations!Init
           /\ part = "atomic" => AtomicFile!Init
           /\ part = "mcp_config" => McpConfig!Init
           /\ part = "mcp_serve" => McpServe!Init
           /\ part = "mcp_probe" => McpProbe!Init
           /\ part = "ask" => ProviderRun!Init
    /\ [Next]_<<part, registers>> =>
           /\ part' = part
           /\ part = "cloud" => CloudPlan!Next \/ UNCHANGED registers
           /\ part = "install" => InstallTransaction!Next \/ UNCHANGED registers
           /\ part = "compaction" => Checkpoints!Next \/ UNCHANGED registers
           /\ part = "recovery" => Recovery!Next \/ UNCHANGED registers
           /\ part = "owner" => OwnerRecord!Next \/ UNCHANGED registers
           /\ part = "ulw" => Ulw!Next \/ UNCHANGED registers
           /\ part = "automations" => Automations!Next \/ UNCHANGED registers
           /\ part = "atomic" => AtomicFile!Next \/ UNCHANGED registers
           /\ part = "mcp_config" => McpConfig!Next \/ UNCHANGED registers
           /\ part = "mcp_serve" => McpServe!Next \/ UNCHANGED registers
           /\ part = "mcp_probe" => McpProbe!Next \/ UNCHANGED registers
           /\ part = "ask" => ProviderRun!Next \/ UNCHANGED registers
  BY DEF Init, JournalInit, InstallInit, WorkflowInit, CloudInit, TasksInit, PersistInit,
         ContinuationInit, CompactionInit, McpConfigInit, McpProbeInit, McpServeInit,
         MemoryInit, MailboxInit, OwnerInit, AtomicInit, SupervisorInit, TeamInitInit,
         RecoveryInit, TrackerInit, HooksInit, AgentsInit, NativeInit, AskInit,
         AutomationsInit, UlwInit, EventsInit, CreationInit, Next, JournalStep, InstallStep,
         WorkflowStep, CloudStep, TasksStep, PersistStep, ContinuationStep, CompactionStep,
         McpConfigStep, McpProbeStep, McpServeStep, MemoryStep, MailboxStep, OwnerStep,
         AtomicStep, SupervisorStep, TeamInitStep, RecoveryStep, TrackerStep, HooksStep,
         AgentsStep, NativeStep, AskStep, AutomationsStep, UlwStep, EventsStep, CreationStep

-----------------------------------------------------------------------------
(* Cloud plans.                                                            *)

CloudInv == part = "cloud" => CP!CloudInv

LEMMA CloudInvariant ==
    /\ Init => CloudInv
    /\ CloudInv /\ [Next]_<<part, registers>> => CloudInv'
  BY Moves, SameCloud, LockFits, CP!CloudInitially, CP!CloudStepKeeps DEF CloudInv, registers,
     CP!Cp!vars

\* Unless calls overlapped, a cloud plan is not "completed" with a late handoff that the verifier
\* which passed has not seen (executePlan, cloud-orchestration/orchestrator.ts).
THEOREM Verified == Spec => []CompletedWasVerified
  <1>1. CloudInv => CompletedWasVerified
    BY SameCloud DEF CloudInv, CompletedWasVerified, CP!CloudInv
  <1> QED  BY <1>1, CloudInvariant, PTL DEF Spec

-----------------------------------------------------------------------------
(* The installation.                                                       *)

InstallInv == part = "install" => IP!IInv

LEMMA InstallFits == IP!Parameters
  BY InstallationAssumption, SameInstall DEF IP!Parameters

LEMMA InstallInvariant ==
    /\ Init => InstallInv
    /\ InstallInv /\ [Next]_<<part, registers>> => InstallInv'
  BY Moves, SameInstall, InstallFits, InstallAssumption, IP!Initially, IP!StepKeeps
     DEF InstallInv, registers, IP!vars, IP!files, IP!bounds

\* Between calls, wherever the last one was killed, pointer, receipts, link and stages agree, and
\* what is committed can be rolled back to (reconcileInstallTransaction, setup/lifecycle.ts).
THEOREM InstallKept == Spec => []InstallConsistent
  <1>1. InstallInv => InstallConsistent
    <2> SUFFICES ASSUME part = "install", IP!IInv
                 PROVE  IP!AtRest /\ IP!TargetsKept /\ IP!LinkRuns
      BY SameInstall DEF InstallInv, InstallConsistent
    <2>1. IP!LinkRuns
      BY InstallFits, InstallAssumption, IP!Runs
    <2> QED  BY <2>1 DEF IP!IInv, IP!Disk
  <1> QED  BY <1>1, InstallInvariant, PTL DEF Spec

LEMMA InstallSteps ==
    ASSUME InstallInv, InstallInv', [Next]_<<part, registers>>, part = "install"
    PROVE  /\ InstallTransaction!AllOrNothing
           /\ InstallTransaction!FailureRestores /\ InstallTransaction!ProjectKept
  <1>1. IP!IInv /\ [IP!Next]_IP!vars
    BY Moves, SameInstall DEF InstallInv, registers, IP!vars, IP!files, IP!bounds
  <1>2. IP!IInv'
    BY <1>1, InstallFits, InstallAssumption, IP!StepKeeps
  <1>3. IP!AllOrNothing
    BY <1>1, <1>2, InstallFits, InstallAssumption, IP!AllOrNothingStep
  <1>4. IP!FailureRestores /\ IP!ProjectKept
    BY <1>1, InstallFits, InstallAssumption, IP!FailureRestoresStep, IP!ProjectKeptStep
  <1> QED  BY <1>3, <1>4, SameInstall

\* What will be installed after the next reconciliation changes when a transaction or an uninstall
\* commits, at no kill or failure (installOrUpdateUnlocked and uninstallUnlocked).
THEOREM InstallCommits == Spec => AllOrNothing
  <1> DEFINE Kept == part = "install" => InstallTransaction!AllOrNothing
  <1>1. InstallInv /\ InstallInv' /\ [Next]_<<part, registers>> => [Kept]_registers
    BY InstallSteps
  <1>2. Spec => [][Kept]_registers
    <2> HIDE DEF Kept
    <2> QED  BY <1>1, InstallInvariant, PTL DEF Spec
  <1> QED  BY <1>2 DEF AllOrNothing

\* A call that fails before its commit restores link and pointer, and a .omcu that is not an empty
\* one of the installer's own stays (the catch of installOrUpdateUnlocked).
THEOREM InstallFails == Spec => FailureRestores
  <1> DEFINE Kept == part = "install" =>
                         InstallTransaction!FailureRestores /\ InstallTransaction!ProjectKept
  <1>1. InstallInv /\ InstallInv' /\ [Next]_<<part, registers>> => [Kept]_registers
    BY InstallSteps
  <1>2. Spec => [][Kept]_registers
    <2> HIDE DEF Kept
    <2> QED  BY <1>1, InstallInvariant, PTL DEF Spec
  <1> QED  BY <1>2 DEF FailureRestores

-----------------------------------------------------------------------------
(* Recoveries and checkpoints.                                             *)

RecoveryInv == part = "recovery" => CP!RecoveryInv

LEMMA RecoveryFits == CP!RecoveryParameters
  BY RecoveryAssumption, SameRecovery DEF CP!RecoveryParameters

LEMMA RecoveryInvariant ==
    /\ Init => RecoveryInv
    /\ RecoveryInv /\ [Next]_<<part, registers>> =>
         RecoveryInv' /\ (part = "recovery" => Recovery!RecoveryIsImmutable)
  <1>1. Init => RecoveryInv
    BY Moves, SameRecovery, RecoveryFits, LockFits, CP!RecoveryInitially DEF RecoveryInv
  <1>2. RecoveryInv /\ [Next]_<<part, registers>> =>
         RecoveryInv' /\ (part = "recovery" => Recovery!RecoveryIsImmutable)
    BY Moves, SameRecovery, RecoveryFits, LockFits, CP!RecoveryStepKeeps
      DEF RecoveryInv, registers, CP!Rc!vars, CP!Rc!source
  <1> QED  BY <1>1, <1>2

\* A recovery answers what the transcript was at one moment, and finds broken or missing links
\* where they are (recoverCursorSession, recovery/index.ts).
THEOREM Recovers == Spec => []RecoveryIsTrue
  <1>1. RecoveryInv => RecoveryIsTrue
    BY SameRecovery DEF RecoveryInv, RecoveryIsTrue, CP!RecoveryInv
  <1> QED  BY <1>1, RecoveryInvariant, PTL DEF Spec

CheckpointInv == part = "compaction" => CP!CheckpointInv

LEMMA CheckpointInvariant ==
    /\ Init => CheckpointInv
    /\ CheckpointInv /\ [Next]_<<part, registers>> =>
         CheckpointInv' /\ (part = "compaction" => Checkpoints!CheckpointsKept)
  <1>1. Init => CheckpointInv
    BY Moves, SameCheckpoints, CheckpointsAssumption, LockFits, CP!CheckpointInitially DEF CheckpointInv
  <1>2. CheckpointInv /\ [Next]_<<part, registers>> =>
         CheckpointInv' /\ (part = "compaction" => Checkpoints!CheckpointsKept)
    BY Moves, SameCheckpoints, CheckpointsAssumption, LockFits, CP!CheckpointStepKeeps
      DEF CheckpointInv, registers, CP!Ck!vars
  <1> QED  BY <1>1, <1>2

\* A checkpoint and a copy made for a recovery never change once whole (CompactionStore,
\* compaction/index.ts, and recoverCursorSession).
THEOREM Keeps == Spec => KeptForGood
  <1> DEFINE Kept == /\ part = "compaction" => Checkpoints!CheckpointsKept
                     /\ part = "recovery" => Recovery!RecoveryIsImmutable
  <1>1. RecoveryInv /\ CheckpointInv /\ [Next]_<<part, registers>> => [Kept]_registers
    BY RecoveryInvariant, CheckpointInvariant
  <1>2. Spec => [][Kept]_registers
    <2> HIDE DEF Kept
    <2> QED  BY <1>1, RecoveryInvariant, CheckpointInvariant, PTL DEF Spec
  <1> QED  BY <1>2 DEF KeptForGood

-----------------------------------------------------------------------------
(* What is told of writes.                                                 *)

OwnerInv == part = "owner" => CP!OwnerInv

LEMMA OwnerInvariant ==
    /\ Init => OwnerInv
    /\ OwnerInv /\ [Next]_<<part, registers>> => OwnerInv'
  BY Moves, SameOwner, OwnerAssumption, LockFits, CP!OwnerInitially, CP!OwnerStepKeeps DEF
     OwnerInv, registers, CP!Ow!vars

UlwInv == part = "ulw" => CP!UlwInv

LEMMA UlwInvariant ==
    /\ Init => UlwInv
    /\ UlwInv /\ [Next]_<<part, registers>> => UlwInv'
  BY Moves, SameUlw, UlwAssumption, LockFits, CP!UlwInitially, CP!UlwStepKeeps DEF UlwInv,
     registers, CP!Ul!vars

AutomationInv == part = "automations" => CP!AutomationInv

LEMMA AutomationInvariant ==
    /\ Init => AutomationInv
    /\ AutomationInv /\ [Next]_<<part, registers>> => AutomationInv'
  BY Moves, SameAutomation, LockFits, CP!AutomationInitially, CP!AutomationStepKeeps DEF
     AutomationInv, registers, CP!Au!vars

AtomicInv == part = "atomic" => CP!AtomicInv

LEMMA AtomicInvariant ==
    /\ Init => AtomicInv
    /\ AtomicInv /\ [Next]_<<part, registers>> => AtomicInv'
  BY Moves, SameAtomic, AtomicAssumption, LockFits, CP!AtomicInitially, CP!AtomicStepKeeps DEF
     AtomicInv, registers, CP!Af!vars

McpInv == part = "mcp_config" => CP!McpInv

LEMMA McpInvariant ==
    /\ Init => McpInv
    /\ McpInv /\ [Next]_<<part, registers>> => McpInv'
  BY Moves, SameMcp, McpAssumption, LockFits, CP!McpInitially, CP!McpStepKeeps DEF McpInv,
     registers, CP!Mc!vars, CP!Mc!counters

\* Writers are told the truth, though the directory be replaced and helpers killed (writeFile in
\* runtime/atomic.ts); an owner record gives authority to whom it names (state/authority.ts);
\* an automation (automations/manager.ts), a worktree (modes/ulw.ts) and the user's entry in
\* mcp.json (mcp/lifecycle.ts) are where their records say.
THEOREM WritesAsTold == Spec => []WritesTold
  <1>1. OwnerInv /\ UlwInv /\ AutomationInv /\ AtomicInv /\ McpInv => WritesTold
    BY SameOwner, LockFits, CP!OwnerImplied, SameUlw, CP!UlwImplied, SameAutomation,
       CP!AutomationImplied, SameAtomic, CP!AtomicImplied, McpAssumption, SameMcp,
       CP!McpImplied
       DEF OwnerInv, UlwInv, AutomationInv, AtomicInv, McpInv, WritesTold
  <1> QED  BY <1>1, OwnerInvariant, UlwInvariant, AutomationInvariant, AtomicInvariant,
              McpInvariant, PTL DEF Spec

-----------------------------------------------------------------------------
(* Across pipes.                                                           *)

LEMMA ServeFits == IP!ServeParameters
  BY DEF IP!ServeParameters

ServeInv == part = "mcp_serve" => IP!ServeInv

LEMMA ServeInvariant ==
    /\ Init => ServeInv
    /\ ServeInv /\ [Next]_<<part, registers>> => ServeInv'
    /\ ServeInv => (part = "mcp_serve" => McpServe!RepliesInOrder)
  BY ZenonT(30), Moves, SameServe, InstallAssumption, ServeFits, IP!ServeInductive DEF ServeInv,
     registers, IP!Sv!vars

ProbeInv == part = "mcp_probe" => IP!ProbeInv

LEMMA ProbeInvariant ==
    /\ Init => ProbeInv
    /\ ProbeInv /\ [Next]_<<part, registers>> => ProbeInv'
    /\ ProbeInv => (part = "mcp_probe" => McpProbe!ProbeTells)
  BY ZenonT(30), Moves, SameProbe, InstallAssumption, IP!ProbeInductive DEF ProbeInv, registers,
     IP!Pb!vars

AskInv == part = "ask" => IP!ProviderInv

LEMMA AskInvariant ==
    /\ Init => AskInv
    /\ AskInv /\ [Next]_<<part, registers>> => AskInv'
    /\ AskInv => (part = "ask" => ProviderRun!AnswersHonest)
  BY ZenonT(30), Moves, SameAsk, InstallAssumption, ProviderAssumption, IP!ProviderInductive DEF
     AskInv, registers, IP!Pr!vars

\* Every line a client sends is answered in its order (mcp/index.ts), a server is called healthy
\* only when it was (mcp/lifecycle.ts), and a provider's run is told for what it was (providers/).
THEOREM AnswersAreHonest == Spec => []AnswersHonest
  <1>1. ServeInv /\ ProbeInv /\ AskInv => AnswersHonest
    BY ServeInvariant, ProbeInvariant, AskInvariant DEF AnswersHonest
  <1> QED  BY <1>1, ServeInvariant, ProbeInvariant, AskInvariant, PTL DEF Spec
=============================================================================
