---------------------------- MODULE InstallProofs ----------------------------
(***************************************************************************)
(* Proofs about InstallTransaction, for any releases, links, transactions, *)
(* calls, kills, failures and changes of the link by hand.                 *)
(*                                                                         *)
(* The argument: transaction.json names a transaction that has not         *)
(* committed, with what was current and where the link led before it, or   *)
(* one that has.  Whatever is on disk is one or the other, at every step   *)
(* of a call or of a reconciliation, so that a kill leaves no third case   *)
(* to the next reconciliation; the pc says only how far it has come.       *)
(*                                                                         *)
(* After them, the proofs about ProviderRun, McpProbe and McpServe.        *)
(***************************************************************************)
EXTENDS InstallTransaction, FiniteSetTheorems, SequenceTheorems, WellFoundedInduction, TLAPS

Parameters == NoneFits

-----------------------------------------------------------------------------
(* What is on disk, whoever is at work.                                    *)

\* The link and the pointer agree on one installation, or on none.
Agree(link, n) == IF n = None THEN link \notin Release ELSE link = receipts[n].release

\* Transactions to come have left nothing; one that has not committed has a receipt
\* while its journal is there only.
TxnsFit ==
    /\ \A m \in Txn : m > txns => receipts[m] = None /\ fate[m] = "open"
    /\ \A m \in Txn : receipts[m] # None /\ fate[m] = "open" =>
          journal # None /\ journal.kind = "install" /\ journal.n = m

\* An installation or rollback that was begun.
Begun ==
    journal # None /\ journal.kind = "install" =>
        /\ journal.pointer # None => journal.pointer # journal.n /\ fate[journal.pointer] = "kept"
        /\ receipts[journal.n] # None => receipts[journal.n].release = journal.release
        /\ tmp \subseteq {journal.release}
        /\ ~ journal.existed => \A m \in Txn \ {journal.n} :
              fate[m] = "kept" => receipts[m].release # journal.release
        /\ drifts = 0 =>
              /\ Agree(journal.cli, journal.pointer)
              /\ ~ journal.existed => journal.cli # journal.release
        /\ \/ fate[journal.n] = "kept" /\ pointer = journal.n /\ cli = journal.release
           \/ /\ fate[journal.n] = "open" /\ pointer = journal.pointer
              /\ \/ cli = journal.cli
                 \/ cli = journal.release /\ stage[cli] = "whole"

\* An uninstall that was begun.
BegunRemoval ==
    journal # None /\ journal.kind = "uninstall" =>
        /\ Readable(journal.n) /\ tmp = {}
        /\ \A m \in Txn : fate[m] = "kept" => receipts[m].release # receipts[journal.n].release
        /\ cli \in {None, receipts[journal.n].release} /\ pointer \in {None, journal.n}

\* The marker in .omcu/ is of who made it.
MarkerFits == project.marker # None => project.maker = project.marker

-----------------------------------------------------------------------------
(* How far the call has come.                                              *)

Forward == {"copy", "publish", "digest", "receipt", "seal", "link", "mkdir", "marker", "doctor", "pointer"}
Backward == {"r_cli", "r_pointer", "r_project", "r_rmdir", "r_receipt", "r_stage"}
Removing == {"u_stage", "u_rest", "u_cli", "u_project", "u_pointer"}

Planning ==
    /\ pc \in {"plan", "prune"} => journal = None
    /\ pc = "plan" => job.then = "plan"
    /\ pc = "prune" => \A m \in Txn : fate[m] = "kept" => receipts[m].release \notin job.prune

GoingForward ==
    pc \in Forward =>
        /\ journal # None /\ journal.kind = "install" /\ fate[journal.n] = "open"
        /\ job.op \in {"install", "rollback"} /\ job.then = "ok"
        /\ job.n = journal.n /\ job.release = journal.release
        /\ pc \in {"copy", "publish"} => ~ journal.existed
        /\ pc # "publish" => tmp = {}
        /\ pc \in Forward \ {"copy", "publish", "digest"} => stage[journal.release] = "whole"
        /\ pc \in {"seal", "link", "mkdir", "marker", "doctor", "pointer"} => receipts[journal.n] # None
        /\ pc \in {"link", "mkdir", "marker", "doctor", "pointer"} => receipts[journal.n].sealed
        /\ pc \in {"mkdir", "marker", "doctor", "pointer"} => cli = journal.release
        /\ pc = "marker" => project.maker = journal.n

GoingBack ==
    pc \in Backward =>
        /\ journal # None /\ journal.kind = "install" /\ fate[journal.n] = "open"
        /\ job.then \in {"plan", "failed"} /\ tmp = {}
        /\ pc # "r_cli" => cli = journal.cli
        /\ pc = "r_rmdir" => project.maker = journal.n /\ project.marker = None
        /\ pc = "r_stage" => receipts[journal.n] = None

GoingAway ==
    pc \in Removing =>
        /\ journal # None /\ journal.kind = "uninstall" /\ job.then \in {"plan", "ok"}
        /\ pc \in {"u_project", "u_pointer"} => cli = None

\* What is left is to remove the journal.
Ending ==
    pc \in {"clear", "unjournal"} =>
        /\ journal # None /\ tmp = {}
        /\ pc = "clear" => journal.kind = "install" /\ fate[journal.n] = "kept"
        /\ journal.kind = "install" =>
              \/ fate[journal.n] = "kept"
              \/ cli = journal.cli /\ receipts[journal.n] = None
        /\ journal.kind = "uninstall" => cli = None /\ pointer = None

\* What a call remembers of what it found, and why it failed.
Remembered ==
    job # None =>
        /\ job.op = "install" => job.release \in Release
        /\ job.then = "plan" => job.why = None
        /\ job.then = "plan" /\ job.op \in {"install", "rollback"} => pc \in {"ok", "failed"} \/ txns < MaxTxn
        /\ job.op = "uninstall" => job.why = None
        /\ job.then = "failed" => job.op \in {"install", "rollback"}
        /\ job.then \in {"ok", "failed"} /\ job.op \in {"install", "rollback"} /\ pc \notin {"ok", "failed"} =>
              /\ journal # None /\ journal.kind = "install"
              /\ job.prior = <<journal.cli, journal.pointer>>
        /\ job.then = "failed" /\ pc \notin {"ok", "failed"} /\ job.why \notin {None, "clear", "unjournal"} =>
              fate[journal.n] = "open"
        /\ pc = "reconcile" => job.then \in {"plan", "failed"}

Disk == AtRest /\ TargetsKept /\ TxnsFit /\ Begun /\ BegunRemoval /\ MarkerFits
Control == Planning /\ GoingForward /\ GoingBack /\ GoingAway /\ Ending /\ Remembered

IInv == TypeOK /\ Disk /\ Control
-----------------------------------------------------------------------------
(* Types.                                                                  *)

LEMMA Markers ==
    ASSUME Parameters
    PROVE  /\ None \notin Release /\ None \notin Foreign /\ None \notin Txn /\ None # User
           /\ Release \cap Foreign = {} /\ Txn \subseteq Nat
  BY InstallAssumption DEF Parameters, NoneFits, Txn

LEMMA Shapes ==
    ASSUME Parameters, TypeOK
    PROVE  /\ journal # None =>
                \/ journal \in Installation /\ journal.kind = "install"
                \/ journal \in Removal /\ journal.kind = "uninstall"
           /\ journal # None => journal.n \in Txn
           /\ \A m \in Txn : receipts[m] # None => receipts[m] \in Receipt
           /\ pc # "idle" => job # None /\ job \in Job
  <1>1. journal # None => \/ journal \in Installation /\ journal.kind = "install"
                          \/ journal \in Removal /\ journal.kind = "uninstall"
    BY DEF TypeOK, Installation, Removal
  <1>2. journal # None => journal.n \in Txn
    BY <1>1 DEF Installation, Removal
  <1> QED  BY <1>1, <1>2 DEF TypeOK

\* What is on disk is judged by the disk.
OnDisk == <<files, fate, txns, drifts>>

LEMMA DiskStays ==
    ASSUME Disk, UNCHANGED OnDisk
    PROVE  Disk'
  BY DEF OnDisk, files, Disk, AtRest, TargetsKept, TxnsFit, Begun, BegunRemoval, MarkerFits,
         Installable, Readable, Agree

LEMMA Initially ==
    ASSUME Parameters, Init
    PROVE  IInv
  <1>1. TypeOK
    BY Markers, InstallAssumption DEF Init, TypeOK, Target, Steps, Txn
  <1>2. Disk
    BY Markers DEF Init, Disk, AtRest, TargetsKept, TxnsFit, Begun, BegunRemoval, MarkerFits
  <1>3. Control
    BY DEF Init, Control, Planning, GoingForward, GoingBack, GoingAway, Ending, Remembered, Forward,
           Backward, Removing
  <1> QED  BY <1>1, <1>2, <1>3 DEF IInv

-----------------------------------------------------------------------------
(* Calls.                                                                  *)

LEMMA BeginKeeps ==
    ASSUME Parameters, IInv, Call
    PROVE  IInv'
  <1>1. PICK op \in {"install", "rollback", "uninstall", "prune", "repair"}, v \in Release \cup {None},
             n \in Txn \cup {None}, init \in BOOLEAN :
          /\ Begin(op, v, n, init)
          /\ op = "install" => v \in Release
          /\ op \in {"install", "rollback"} => txns < MaxTxn
    BY DEF Call
  <1> DEFINE j == [op |-> op, release |-> v, n |-> n, init |-> init,
                   then |-> "plan", prune |-> {}, why |-> None, prior |-> <<>>]
  <1>2. pc' = "reconcile" /\ job' = j /\ UNCHANGED OnDisk /\ calls' \in 0..MaxCalls /\ UNCHANGED faults
    BY <1>1, InstallAssumption DEF Begin, IInv, TypeOK, OnDisk
  <1>3. j \in Job
    BY DEF Job
  <1>4. j # None
    BY <1>3 DEF Parameters, NoneFits
  <1>5. TypeOK'
    BY <1>2, <1>3, <1>4 DEF IInv, TypeOK, OnDisk, files, Steps
  <1>6. Disk'
    BY <1>2, DiskStays DEF IInv
  <1>7. Control'
    BY <1>1, <1>2 DEF Control, Planning, GoingForward, GoingBack, GoingAway, Ending, Remembered, Forward,
           Backward, Removing, OnDisk
  <1> QED  BY <1>5, <1>6, <1>7 DEF IInv

LEMMA ReturnKeeps ==
    ASSUME IInv, Return
    PROVE  IInv'
  <1>1. pc' = "idle" /\ job' = None /\ UNCHANGED OnDisk /\ UNCHANGED bounds
    BY DEF Return, OnDisk, bounds
  <1>2. TypeOK'
    BY <1>1 DEF IInv, TypeOK, OnDisk, files, Steps, bounds
  <1>3. Disk'
    BY <1>1, DiskStays DEF IInv
  <1>4. Control'
    BY <1>1 DEF Control, Planning, GoingForward, GoingBack, GoingAway, Ending, Remembered, Forward,
           Backward, Removing
  <1> QED  BY <1>2, <1>3, <1>4 DEF IInv

-----------------------------------------------------------------------------
(* The reconciliation of an installation or rollback.                      *)

\* A step that leaves the disk alone.
LEMMA StepTypes ==
    ASSUME Parameters, IInv, NEW from, NEW to \in Steps \ {"idle"}, Step(from, to)
    PROVE  /\ pc = from /\ pc' = to /\ UNCHANGED <<job, txns, bounds>>
           /\ (pc # "idle" => job # None)
           /\ (files' = files /\ fate' = fate => UNCHANGED OnDisk)
           /\ (pc # "idle" /\ files' = files /\ fate' = fate => TypeOK' /\ Disk')
  <1>1. pc = from /\ pc' = to /\ UNCHANGED <<job, txns, bounds>> /\ (pc # "idle" => job # None)
    BY Shapes DEF Step, IInv
  <1>2. files' = files /\ fate' = fate => UNCHANGED OnDisk
    BY <1>1 DEF OnDisk, bounds
  <1>3. pc # "idle" /\ files' = files /\ fate' = fate => TypeOK'
    BY <1>1 DEF IInv, TypeOK, files, bounds
  <1> QED  BY <1>1, <1>2, <1>3, DiskStays DEF IInv

LEMMA ReconcileNoneKeeps ==
    ASSUME Parameters, IInv, ReconcileNone
    PROVE  IInv'
  <1>1. pc = "reconcile" /\ journal = None /\ pc' = job.then /\ UNCHANGED <<files, job, fate, txns, bounds>>
    BY DEF ReconcileNone
  <1>2. job # None /\ job \in Job
    BY <1>1, Shapes DEF IInv
  <1>3. job.then = "plan" /\ pc' = "plan"
    BY <1>1, <1>2 DEF IInv, Control, Remembered, Job
  <1>4. TypeOK'
    BY <1>1, <1>2, <1>3 DEF IInv, TypeOK, files, Steps, bounds
  <1>5. Disk'
    BY <1>1, DiskStays DEF IInv, OnDisk, bounds
  <1>6. Control'
    BY <1>1, <1>2, <1>3 DEF IInv, Control, Planning, GoingForward, GoingBack, GoingAway, Ending, Remembered,
           Forward, Backward, Removing, files
  <1> QED  BY <1>4, <1>5, <1>6 DEF IInv

LEMMA ReconcileRefusedKeeps ==
    ASSUME Parameters, IInv, ReconcileRefused
    PROVE  IInv'
  <1>1. Step("reconcile", "failed") /\ UNCHANGED <<files, fate>>
    BY DEF ReconcileRefused
  <1>2. pc = "reconcile" /\ pc' = "failed" /\ UNCHANGED <<job, txns>> /\ TypeOK' /\ Disk'
    BY <1>1, StepTypes DEF Steps
  <1>3. Control'
    BY <1>1, <1>2 DEF IInv, Control, Planning, GoingForward, GoingBack, GoingAway, Ending, Remembered,
           Forward, Backward, Removing, files
  <1> QED  BY <1>2, <1>3 DEF IInv

LEMMA ReconcileInstallKeeps ==
    ASSUME Parameters, IInv, ReconcileInstall
    PROVE  IInv'
  <1>1. /\ pc = "reconcile" /\ journal # None /\ journal.kind = "install"
        /\ pc' = IF Committed THEN "clear" ELSE "r_cli"
        /\ tmp' = tmp \ {journal.release}
        /\ UNCHANGED <<cli, pointer, receipts, stage, journal, project, fate, job, txns, bounds>>
    BY DEF ReconcileInstall, Step
  <1>2. job # None /\ job \in Job /\ tmp' = {}
    BY <1>1, Shapes DEF IInv, Disk, Begun
  <1>3. journal \in Installation /\ journal.pointer # journal.n
    BY <1>1, Shapes, Markers DEF IInv, Disk, Begun
  <1>4. Committed <=> fate[journal.n] = "kept"
    BY <1>1, <1>3 DEF IInv, Disk, Begun, Committed
  <1>5. ~ Committed => fate[journal.n] = "open"
    BY <1>1, <1>3, <1>4 DEF IInv, Disk, Begun
  <1>6. TypeOK'
    BY <1>1, <1>2 DEF IInv, TypeOK, Steps, bounds
  <1>7. Disk'
    BY <1>1, <1>2 DEF IInv, Disk, AtRest, TargetsKept, TxnsFit, Begun, BegunRemoval, MarkerFits,
         Installable, Readable, Agree, bounds
  <1>8. Control'
    BY <1>1, <1>2, <1>4, <1>5 DEF IInv, Control, Planning, GoingForward, GoingBack, GoingAway, Ending, Remembered,
           Forward, Backward, Removing
  <1> QED  BY <1>6, <1>7, <1>8 DEF IInv

LEMMA ReconcileUninstallKeeps ==
    ASSUME Parameters, IInv, ReconcileUninstall
    PROVE  IInv'
  <1>1. journal # None /\ journal.kind = "uninstall" /\ Readable(journal.n)
    BY DEF ReconcileUninstall, IInv, Disk, BegunRemoval
  <1>2. Step("reconcile", "u_stage") /\ UNCHANGED <<files, fate>>
    BY <1>1 DEF ReconcileUninstall
  <1>3. pc = "reconcile" /\ pc' = "u_stage" /\ UNCHANGED <<job, txns>> /\ TypeOK' /\ Disk' /\ job # None
    BY <1>2, StepTypes DEF Steps
  <1>4. job.then = "plan"
    BY <1>1, <1>3, Shapes DEF IInv, Control, Remembered, Job
  <1>5. Control'
    BY <1>1, <1>2, <1>3, <1>4 DEF IInv, Control, Planning, GoingForward, GoingBack, GoingAway, Ending, Remembered,
           Forward, Backward, Removing, files
  <1> QED  BY <1>3, <1>5 DEF IInv

LEMMA RestoreCliKeeps ==
    ASSUME Parameters, IInv, RestoreCli
    PROVE  IInv'
  <1>1. /\ pc = "r_cli" /\ pc' = "r_pointer" /\ cli' = journal.cli
        /\ UNCHANGED <<pointer, receipts, stage, tmp, journal, project, fate, job, txns, bounds>>
    BY DEF RestoreCli, Step
  <1>2. /\ job # None /\ journal # None /\ journal.kind = "install" /\ journal \in Installation
        /\ fate[journal.n] = "open" /\ job.then \in {"plan", "failed"} /\ tmp = {}
    BY <1>1, Shapes DEF IInv, Control, GoingBack, Backward
  <1>3. TypeOK'
    BY <1>1, <1>2 DEF IInv, TypeOK, Steps, bounds, Installation
  <1>4. Disk'
    BY <1>1, <1>2 DEF IInv, Disk, AtRest, TargetsKept, TxnsFit, Begun, BegunRemoval, MarkerFits,
         Installable, Readable, Agree, bounds
  <1>5. Control'
    BY <1>1, <1>2 DEF IInv, Control, Planning, GoingForward, GoingBack, GoingAway, Ending, Remembered,
           Forward, Backward, Removing
  <1> QED  BY <1>3, <1>4, <1>5 DEF IInv

LEMMA RestorePointerKeeps ==
    ASSUME Parameters, IInv, RestorePointer
    PROVE  IInv'
  <1>1. /\ pc = "r_pointer" /\ pc' = "r_project" /\ pointer' = journal.pointer
        /\ UNCHANGED <<cli, receipts, stage, tmp, journal, project, fate, job, txns, bounds>>
    BY DEF RestorePointer, Step
  <1>2. /\ job # None /\ journal # None /\ journal.kind = "install" /\ journal \in Installation
        /\ fate[journal.n] = "open" /\ job.then \in {"plan", "failed"} /\ tmp = {} /\ cli = journal.cli
    BY <1>1, Shapes DEF IInv, Control, GoingBack, Backward
  <1>3. TypeOK'
    BY <1>1, <1>2 DEF IInv, TypeOK, Steps, bounds, Installation
  <1>4. Disk'
    BY <1>1, <1>2 DEF IInv, Disk, AtRest, TargetsKept, TxnsFit, Begun, BegunRemoval, MarkerFits,
         Installable, Readable, Agree, bounds
  <1>5. Control'
    BY <1>1, <1>2 DEF IInv, Control, Planning, GoingForward, GoingBack, GoingAway, Ending, Remembered,
           Forward, Backward, Removing
  <1> QED  BY <1>3, <1>4, <1>5 DEF IInv

\* The state of a reconciliation that goes back.
LEMMA AtBackward ==
    ASSUME Parameters, IInv, pc \in Backward
    PROVE  /\ job # None /\ journal # None /\ journal.kind = "install" /\ journal \in Installation
           /\ journal.n \in Txn /\ journal.release \in Release
           /\ fate[journal.n] = "open" /\ job.then \in {"plan", "failed"} /\ tmp = {}
           /\ pc # "r_cli" => cli = journal.cli
           /\ pointer = journal.pointer /\ pointer # journal.n
  <1>1. /\ journal # None /\ journal.kind = "install"
        /\ fate[journal.n] = "open" /\ job.then \in {"plan", "failed"} /\ tmp = {}
        /\ pc # "r_cli" => cli = journal.cli
    BY DEF IInv, Control, GoingBack
  <1>2. job # None /\ journal \in Installation /\ journal.n \in Txn
    BY <1>1, Shapes DEF IInv, Backward
  <1>3. journal.release \in Release
    BY <1>2 DEF Installation
  <1> QED  BY <1>1, <1>2, <1>3, Markers DEF IInv, Disk, Begun

\* A marker that proves a directory ours is of who made it.
LEMMA OursIsMade ==
    ASSUME Parameters, IInv, OwnsProject, journal.n \in Txn
    PROVE  project.maker = journal.n
  BY Markers DEF IInv, Disk, MarkerFits, OwnsProject

LEMMA RestoreProjectKeeps ==
    ASSUME Parameters, IInv, RestoreProject
    PROVE  IInv'
  <1> DEFINE owns == AllowCleanup /\ OwnsProject
  <1>1. /\ pc = "r_project" /\ pc' = IF owns /\ ~project.data THEN "r_rmdir" ELSE "r_receipt"
        /\ project' = IF owns THEN [project EXCEPT !.marker = None] ELSE project
        /\ UNCHANGED <<cli, pointer, receipts, stage, tmp, journal, fate, job, txns, bounds>>
    BY DEF RestoreProject, Step
  <1>2. /\ job # None /\ journal # None /\ journal.kind = "install" /\ journal.n \in Txn
        /\ fate[journal.n] = "open" /\ job.then \in {"plan", "failed"} /\ tmp = {} /\ cli = journal.cli
    BY <1>1, AtBackward DEF Backward
  <1>3. owns => project.maker = journal.n
    BY <1>2, OursIsMade
  <1> HIDE DEF owns
  <1>4. /\ project' \in [maker : Txn \cup {User, None}, data : BOOLEAN, marker : Txn \cup {None}]
        /\ project'.maker = project.maker /\ MarkerFits'
    BY <1>1 DEF IInv, TypeOK, Disk, MarkerFits
  <1>5. TypeOK'
    BY <1>1, <1>2, <1>4 DEF IInv, TypeOK, Steps, bounds
  <1>6. Disk'
    BY <1>1, <1>2, <1>4 DEF IInv, Disk, AtRest, TargetsKept, TxnsFit, Begun, BegunRemoval,
         Installable, Readable, Agree, bounds
  <1>7. Control'
    BY <1>1, <1>2, <1>3, <1>4 DEF IInv, Control, Planning, GoingForward, GoingBack, GoingAway, Ending, Remembered,
           Forward, Backward, Removing
  <1> QED  BY <1>5, <1>6, <1>7 DEF IInv

LEMMA RestoreRmdirKeeps ==
    ASSUME Parameters, IInv, RestoreRmdir
    PROVE  IInv'
  <1>1. /\ pc = "r_rmdir" /\ pc' = IF project.data THEN "failed" ELSE "r_receipt"
        /\ project' = IF project.data THEN project ELSE [project EXCEPT !.maker = None]
        /\ UNCHANGED <<cli, pointer, receipts, stage, tmp, journal, fate, job, txns, bounds>>
    BY DEF RestoreRmdir, Step
  <1>2. /\ job # None /\ journal # None /\ journal.kind = "install" /\ journal.n \in Txn
        /\ fate[journal.n] = "open" /\ job.then \in {"plan", "failed"} /\ tmp = {} /\ cli = journal.cli
    BY <1>1, AtBackward DEF Backward
  <1>3. /\ project' \in [maker : Txn \cup {User, None}, data : BOOLEAN, marker : Txn \cup {None}]
        /\ project'.marker = None
    BY <1>1 DEF IInv, TypeOK, Control, GoingBack, Backward
  <1>4. TypeOK'
    BY <1>1, <1>2, <1>3 DEF IInv, TypeOK, Steps, bounds
  <1>5. Disk'
    BY <1>1, <1>2, <1>3 DEF IInv, Disk, AtRest, TargetsKept, TxnsFit, Begun, BegunRemoval, MarkerFits,
         Installable, Readable, Agree, bounds
  <1>6. Control'
    BY <1>1, <1>2, <1>3 DEF IInv, Control, Planning, GoingForward, GoingBack, GoingAway, Ending, Remembered,
           Forward, Backward, Removing
  <1> QED  BY <1>4, <1>5, <1>6 DEF IInv

LEMMA RestoreReceiptKeeps ==
    ASSUME Parameters, IInv, RestoreReceipt
    PROVE  IInv'
  <1>1. /\ pc = "r_receipt" /\ pc' = "r_stage" /\ receipts' = [receipts EXCEPT ![journal.n] = None]
        /\ UNCHANGED <<cli, pointer, stage, tmp, journal, project, fate, job, txns, bounds>>
    BY DEF RestoreReceipt, Step
  <1>2. /\ job # None /\ journal # None /\ journal.kind = "install" /\ journal.n \in Txn
        /\ fate[journal.n] = "open" /\ job.then \in {"plan", "failed"} /\ tmp = {} /\ cli = journal.cli
        /\ pointer = journal.pointer /\ pointer # journal.n
    BY <1>1, AtBackward DEF Backward
  <1>3. /\ receipts' \in [Txn -> Receipt \cup {None}] /\ receipts'[journal.n] = None
        /\ \A m \in Txn : m # journal.n => receipts'[m] = receipts[m]
    BY <1>1, <1>2 DEF IInv, TypeOK
  <1>4. TypeOK'
    BY <1>1, <1>2, <1>3 DEF IInv, TypeOK, Steps, bounds
  <1>5. Disk'
    <2>1. AtRest' /\ BegunRemoval' /\ MarkerFits'
      BY <1>1, <1>2 DEF IInv, Disk, AtRest, BegunRemoval, MarkerFits
    <2>2. TargetsKept' /\ TxnsFit'
      BY <1>1, <1>2, <1>3 DEF IInv, Disk, TargetsKept, TxnsFit, Installable, Readable
    <2>3. Begun'
      BY <1>1, <1>2, <1>3, Shapes DEF IInv, Disk, Begun, Agree, Installation, bounds
    <2> QED  BY <2>1, <2>2, <2>3 DEF Disk
  <1>6. Control'
    BY <1>1, <1>2, <1>3 DEF IInv, Control, Planning, GoingForward, GoingBack, GoingAway, Ending, Remembered,
           Forward, Backward, Removing
  <1> QED  BY <1>4, <1>5, <1>6 DEF IInv

LEMMA RestoreStageKeeps ==
    ASSUME Parameters, IInv, RestoreStage
    PROVE  IInv'
  <1> DEFINE v == journal.release
             left == IF journal.existed THEN stage[v] ELSE Less(stage[v])
  <1>1. /\ pc = "r_stage" /\ pc' \in {"r_stage", "unjournal"} /\ stage' = [stage EXCEPT ![v] = left]
        /\ UNCHANGED <<cli, pointer, receipts, tmp, journal, project, fate, job, txns, bounds>>
    BY DEF RestoreStage, Step
  <1>2. /\ job # None /\ journal # None /\ journal.kind = "install" /\ journal.n \in Txn /\ v \in Release
        /\ fate[journal.n] = "open" /\ job.then \in {"plan", "failed"} /\ tmp = {} /\ cli = journal.cli
        /\ pointer = journal.pointer /\ receipts[journal.n] = None
    BY <1>1, AtBackward DEF Backward, IInv, Control, GoingBack
  <1>3. /\ stage' \in [Release -> {"absent", "partial", "whole"}]
        /\ \A w \in Release : w # v \/ journal.existed => stage'[w] = stage[w]
    BY <1>1, <1>2 DEF IInv, TypeOK, Less
  <1> HIDE DEF v, left
  <1>4. TypeOK'
    BY <1>1, <1>2, <1>3 DEF IInv, TypeOK, Steps, bounds
  <1>5. Disk'
    <2>1. AtRest' /\ BegunRemoval' /\ MarkerFits'
      BY <1>1, <1>2 DEF IInv, Disk, AtRest, BegunRemoval, MarkerFits
    <2>2. TargetsKept'
      <3> SUFFICES ASSUME NEW m \in Txn, fate[m] = "kept" PROVE Installable(m)'
        BY <1>1 DEF TargetsKept
      <3>1. Installable(m) /\ receipts[m] \in Receipt /\ m # journal.n
        BY <1>2, Shapes DEF IInv, Disk, TargetsKept, Installable, Readable
      <3>2. journal.existed \/ receipts[m].release # journal.release
        BY <1>2, <3>1 DEF IInv, Disk, Begun
      <3> QED  BY <1>1, <1>3, <3>1, <3>2 DEF Installable, Readable, Receipt, v
    <2>3. TxnsFit'
      BY <1>1 DEF IInv, Disk, TxnsFit
    <2>4. Begun'
      BY <1>1, <1>2 DEF IInv, Disk, Begun, Agree, bounds
    <2> QED  BY <2>1, <2>2, <2>3, <2>4 DEF Disk
  <1>6. Control'
    BY <1>1, <1>2, <1>3 DEF IInv, Control, Planning, GoingForward, GoingBack, GoingAway, Ending, Remembered,
           Forward, Backward, Removing
  <1> QED  BY <1>4, <1>5, <1>6 DEF IInv

-----------------------------------------------------------------------------
(* The end of every transaction.                                           *)

LEMMA ClearMarkerKeeps ==
    ASSUME Parameters, IInv, ClearMarker
    PROVE  IInv'
  <1>1. /\ pc = "clear" /\ pc' = "unjournal"
        /\ project' = IF OwnsProject THEN [project EXCEPT !.marker = None] ELSE project
        /\ UNCHANGED <<cli, pointer, receipts, stage, tmp, journal, fate, job, txns, bounds>>
    BY DEF ClearMarker, Step
  <1>2. job # None
    BY <1>1, Shapes DEF IInv
  <1>3. /\ project' \in [maker : Txn \cup {User, None}, data : BOOLEAN, marker : Txn \cup {None}]
        /\ project'.maker = project.maker /\ MarkerFits'
    BY <1>1 DEF IInv, TypeOK, Disk, MarkerFits
  <1>4. TypeOK'
    BY <1>1, <1>2, <1>3 DEF IInv, TypeOK, Steps, bounds
  <1>5. Disk'
    BY <1>1, <1>2, <1>3 DEF IInv, Disk, AtRest, TargetsKept, TxnsFit, Begun, BegunRemoval,
         Installable, Readable, Agree, bounds
  <1>6. Control'
    BY <1>1, <1>2 DEF IInv, Control, Planning, GoingForward, GoingBack, GoingAway, Ending, Remembered,
           Forward, Backward, Removing
  <1> QED  BY <1>4, <1>5, <1>6 DEF IInv

LEMMA UnjournalKeeps ==
    ASSUME Parameters, IInv, Unjournal
    PROVE  IInv'
  <1>1. /\ pc = "unjournal" /\ pc' = job.then /\ journal' = None
        /\ UNCHANGED <<cli, pointer, receipts, stage, tmp, project, job, fate, txns, bounds>>
    BY DEF Unjournal
  <1>2. job # None /\ job \in Job /\ job.then \in {"plan", "ok", "failed"}
    BY <1>1, Shapes DEF IInv, Job
  <1>3. journal # None /\ journal.n \in Txn /\ tmp = {}
    BY <1>1, Shapes DEF IInv, Control, Ending
  <1>4. TypeOK'
    BY <1>1, <1>2 DEF IInv, TypeOK, Steps, bounds
  <1>5. Disk'
    <2>1. TargetsKept' /\ Begun' /\ BegunRemoval' /\ MarkerFits'
      BY <1>1 DEF IInv, Disk, TargetsKept, Begun, BegunRemoval, MarkerFits, Installable, Readable
    <2>2. CASE journal.kind = "uninstall"
      <3>1. cli = None /\ pointer = None
        BY <1>1, <2>2 DEF IInv, Control, Ending
      <3>2. \A m \in Txn : receipts[m] # None => fate[m] # "open"
        BY <1>3, <2>2 DEF IInv, Disk, TxnsFit
      <3>3. AtRest'
        BY <1>1, <1>3, <3>1, <3>2, Markers DEF AtRest
      <3>4. TxnsFit'
        BY <1>1, <3>2 DEF IInv, Disk, TxnsFit
      <3> QED  BY <2>1, <3>3, <3>4 DEF Disk
    <2>3. CASE journal.kind = "install"
      <3>1. \A m \in Txn : receipts[m] # None => fate[m] # "open"
        BY <1>1, <1>3, <2>3 DEF IInv, Disk, TxnsFit, Control, Ending
      <3>2. pointer # None => pointer \in Txn /\ fate[pointer] = "kept"
        BY <1>3, <2>3 DEF IInv, TypeOK, Disk, Begun
      <3>3. drifts = 0 => Agree(cli, pointer)
        <4>1. CASE fate[journal.n] = "kept"
          <5>1. pointer = journal.n /\ cli = journal.release /\ receipts[journal.n] # None
            BY <1>3, <2>3, <4>1 DEF IInv, Disk, Begun, TargetsKept, Installable, Readable
          <5> QED  BY <1>3, <2>3, <5>1, Markers DEF IInv, Disk, Begun, Agree
        <4>2. CASE fate[journal.n] # "kept"
          BY <1>1, <1>3, <2>3, <4>2 DEF IInv, Disk, Begun, Control, Ending
        <4> QED  BY <4>1, <4>2
      <3>4. AtRest'
        BY <1>1, <1>3, <3>1, <3>2, <3>3, <2>1 DEF AtRest, Agree, TargetsKept, bounds
      <3>5. TxnsFit'
        BY <1>1, <3>1 DEF IInv, Disk, TxnsFit
      <3> QED  BY <2>1, <3>4, <3>5 DEF Disk
    <2> QED  BY <1>3, <2>2, <2>3, Shapes DEF IInv
  <1>6. Control'
    BY <1>1, <1>2 DEF IInv, Control, Planning, GoingForward, GoingBack, GoingAway, Ending, Remembered,
           Forward, Backward, Removing
  <1> QED  BY <1>4, <1>5, <1>6 DEF IInv

-----------------------------------------------------------------------------
(* An installation or rollback that goes forward.                          *)

LEMMA JournalKeeps ==
    ASSUME Parameters, IInv, pc = "plan", job.op \in {"install", "rollback"},
           NEW v \in Release, NEW own \in BOOLEAN, NEW existed \in BOOLEAN, Journal(v, own, existed),
           ~ existed => stage[v] = "absent",
           pc' \in {"copy", "digest", "receipt"},
           pc' = "copy" => ~ existed, pc' = "receipt" => stage[v] = "whole"
    PROVE  IInv'
  <1> DEFINE n == txns + 1
             jn == [kind |-> "install", n |-> n, release |-> v, cli |-> cli,
                    pointer |-> pointer, existed |-> existed, marker |-> own]
             j1 == [job EXCEPT !.n = n]
             j2 == [j1 EXCEPT !.release = v]
             j3 == [j2 EXCEPT !.then = "ok"]
             j4 == [j3 EXCEPT !.prior = <<cli, pointer>>]
  <1>1. /\ txns' = n /\ journal' = jn
        /\ UNCHANGED <<cli, pointer, receipts, stage, tmp, project, fate, bounds>>
    BY DEF Journal
  <1>2. job # None /\ job \in Job /\ journal = None /\ job.then = "plan" /\ job.why = None
    BY Shapes DEF IInv, Control, Planning, Remembered
  <1>3. txns \in Nat /\ txns < MaxTxn /\ MaxTxn \in Nat
    BY <1>2, InstallAssumption DEF IInv, TypeOK, Control, Remembered
  <1>4. n \in Txn /\ n > txns /\ n \in 0 .. MaxTxn
    BY <1>3 DEF Txn
  <1>5. cli \in Target /\ pointer \in Txn \cup {None}
    BY DEF IInv, TypeOK
  <1>6. jn \in Installation
    BY <1>4, <1>5 DEF Installation
  <1>7. jn # None
    BY <1>6 DEF Parameters, NoneFits
  <1>8. job' = j4
    BY <1>1 DEF Journal
  <1>9. /\ j4 \in Job /\ j4.op = job.op /\ j4.n = n /\ j4.release = v /\ j4.then = "ok"
        /\ j4.why = None /\ j4.prior = <<cli, pointer>>
    <2>1. /\ j1 \in Job /\ j1.op = job.op /\ j1.n = n /\ j1.why = None
      BY <1>2, <1>4 DEF Job
    <2> HIDE DEF j1
    <2>2. /\ j2 \in Job /\ j2.op = job.op /\ j2.n = n /\ j2.why = None /\ j2.release = v
      BY <2>1 DEF Job
    <2> HIDE DEF j2
    <2>3. /\ j3 \in Job /\ j3.op = job.op /\ j3.n = n /\ j3.why = None /\ j3.release = v /\ j3.then = "ok"
      BY <2>2 DEF Job
    <2> HIDE DEF j3
    <2> QED  BY <1>5, <2>3 DEF Job
  <1> HIDE DEF j4
  <1>10. j4 # None
    BY <1>9 DEF Parameters, NoneFits
  <1>11. receipts[n] = None /\ fate[n] = "open" /\ pointer # n
    BY <1>2, <1>4, Markers DEF IInv, Disk, TxnsFit, AtRest
  <1>12. \A m \in Txn : fate[m] = "kept" => receipts[m] \in Receipt /\ stage[receipts[m].release] = "whole"
    BY Shapes DEF IInv, Disk, TargetsKept, Installable, Readable
  <1>13. TypeOK'
    BY <1>1, <1>2, <1>4, <1>6, <1>7, <1>8, <1>9, <1>10 DEF IInv, TypeOK, Steps, bounds
  <1>14. Disk'
    <2>1. AtRest' /\ TargetsKept' /\ BegunRemoval' /\ MarkerFits'
      BY <1>1, <1>7 DEF IInv, Disk, AtRest, TargetsKept, BegunRemoval, MarkerFits, Installable, Readable
    <2>2. TxnsFit'
      <3>1. \A m \in Txn : receipts[m] # None => fate[m] # "open"
        BY <1>2 DEF IInv, Disk, AtRest
      <3>2. \A m \in Txn : m > n => m > txns
        BY <1>3 DEF Txn
      <3> QED  BY <1>1, <3>1, <3>2 DEF IInv, Disk, TxnsFit
    <2>3. Begun'
      <3>1. /\ tmp = {} /\ (pointer # None => fate[pointer] = "kept")
            /\ drifts = 0 => Agree(cli, pointer)
        BY <1>2 DEF IInv, Disk, AtRest, Agree
      <3>2. ~ existed => \A m \in Txn : fate[m] = "kept" => receipts[m].release # v
        BY <1>12
      <3>3. drifts = 0 /\ ~ existed => cli # v
        BY <1>5, <1>12, <3>1 DEF Agree
      <3> QED  BY <1>1, <1>11, <3>1, <3>2, <3>3 DEF Begun, Agree, bounds
    <2> QED  BY <2>1, <2>2, <2>3 DEF Disk
  <1>15. Control'
    <2>1. tmp = {}
      BY <1>2 DEF IInv, Disk, AtRest
    <2> QED
      BY <1>1, <1>7, <1>8, <1>9, <1>11, <2>1 DEF Control, Planning, GoingForward, GoingBack, GoingAway,
             Ending, Remembered, Forward, Backward, Removing
  <1> QED  BY <1>13, <1>14, <1>15 DEF IInv

\* A call that ends, with nothing changed.
LEMMA EndKeeps ==
    ASSUME Parameters, IInv, pc # "idle", pc' \in {"ok", "failed"},
           UNCHANGED <<files, job, fate, txns, bounds>>
    PROVE  IInv'
  <1>1. job # None
    BY Shapes DEF IInv
  <1>2. TypeOK'
    BY <1>1 DEF IInv, TypeOK, Steps, files, bounds
  <1>3. Disk'
    BY DiskStays DEF IInv, OnDisk, bounds
  <1>4. Control'
    BY DEF IInv, Control, Planning, GoingForward, GoingBack, GoingAway,
           Ending, Remembered, Forward, Backward, Removing
  <1> QED  BY <1>2, <1>3, <1>4 DEF IInv

LEMMA InstallPlanKeeps ==
    ASSUME Parameters, IInv, InstallPlan
    PROVE  IInv'
  <1> DEFINE v == job.release
             existed == stage[v] # "absent"
             own == job.init /\ project.maker = None
  <1>1. pc = "plan" /\ job.op = "install"
    BY DEF InstallPlan
  <1>2. job # None /\ job \in Job /\ v \in Release /\ own \in BOOLEAN
    BY <1>1, Shapes DEF IInv, Control, Remembered, Job
  <1>3. CASE IsCurrent(v)
    BY <1>1, <1>3, EndKeeps DEF InstallPlan
  <1>4. CASE ~ IsCurrent(v)
    <2>1. pc' = (IF existed THEN "digest" ELSE "copy") /\ Journal(v, own, existed)
      BY <1>1, <1>4 DEF InstallPlan
    <2> HIDE DEF v, own
    <2> QED  BY <1>1, <1>2, <2>1, JournalKeeps
  <1> QED  BY <1>3, <1>4

LEMMA RollbackPlanKeeps ==
    ASSUME Parameters, IInv, RollbackPlan
    PROVE  IInv'
  <1> DEFINE v == receipts[job.n].release
  <1>1. pc = "plan" /\ job.op = "rollback"
    BY DEF RollbackPlan
  <1>2. job # None /\ job \in Job /\ job.n \in Txn \cup {None}
    BY <1>1, Shapes DEF IInv, Job
  <1>3. CASE pc' = "receipt" /\ Installable(job.n) /\ Journal(v, FALSE, TRUE)
    <2>1. v \in Release /\ stage[v] = "whole"
      BY <1>2, <1>3, Shapes DEF IInv, Installable, Readable, Receipt
    <2> HIDE DEF v
    <2> QED  BY <1>1, <1>3, <2>1, JournalKeeps
  <1>4. CASE pc' \in {"ok", "failed"} /\ UNCHANGED <<files, job, fate, txns, bounds>>
    BY <1>1, <1>4, EndKeeps
  <1> QED  BY <1>3, <1>4 DEF RollbackPlan

\* The state of a call that goes forward.
LEMMA AtForward ==
    ASSUME Parameters, IInv, pc \in Forward
    PROVE  /\ job # None /\ job \in Job /\ journal # None
           /\ journal.kind = "install" /\ journal \in Installation
           /\ journal.n \in Txn /\ journal.release \in Release /\ journal.n = txns
           /\ fate[journal.n] = "open" /\ job.op \in {"install", "rollback"} /\ job.then = "ok"
           /\ job.n = journal.n /\ job.release = journal.release
           /\ (pc # "publish" => tmp = {})
           /\ pointer = journal.pointer /\ pointer # journal.n
           /\ job.prior = <<journal.cli, journal.pointer>>
  <1>1. /\ journal # None /\ journal.kind = "install" /\ fate[journal.n] = "open"
        /\ job.op \in {"install", "rollback"} /\ job.then = "ok"
        /\ job.n = journal.n /\ job.release = journal.release
        /\ (pc # "publish" => tmp = {})
    BY DEF IInv, Control, GoingForward
  <1>2. job # None /\ job \in Job /\ journal \in Installation /\ journal.n \in Txn
    BY <1>1, Shapes DEF IInv, Forward
  <1>3. journal.release \in Release
    BY <1>2 DEF Installation
  <1>4. pointer = journal.pointer /\ pointer # journal.n
    BY <1>1, <1>2, Markers DEF IInv, Disk, Begun
  <1>5. job.prior = <<journal.cli, journal.pointer>>
    BY <1>1, <1>2 DEF IInv, Control, Remembered, Forward
  <1>6. journal.n = txns
    BY <1>1 DEF IInv, TypeOK
  <1> QED  BY <1>1, <1>2, <1>3, <1>4, <1>5, <1>6

LEMMA CopyKeeps ==
    ASSUME Parameters, IInv, Copy
    PROVE  IInv'
  <1>1. /\ pc = "copy" /\ pc' = "publish" /\ tmp' = tmp \cup {job.release}
        /\ UNCHANGED <<cli, pointer, receipts, stage, journal, project, fate, job, txns, bounds>>
    BY DEF Copy, Step
  <1>2. /\ job # None /\ journal # None /\ journal.kind = "install" /\ job.release = journal.release
        /\ journal.release \in Release /\ tmp' = {journal.release}
    BY <1>1, AtForward DEF Forward
  <1>3. TypeOK'
    BY <1>1, <1>2 DEF IInv, TypeOK, Steps, bounds
  <1>4. Disk'
    BY <1>1, <1>2 DEF IInv, Disk, AtRest, TargetsKept, TxnsFit, Begun, BegunRemoval, MarkerFits,
         Installable, Readable, Agree, bounds
  <1>5. Control'
    BY <1>1, <1>2 DEF IInv, Control, Planning, GoingForward, GoingBack, GoingAway, Ending, Remembered,
           Forward, Backward, Removing
  <1> QED  BY <1>3, <1>4, <1>5 DEF IInv

LEMMA PublishKeeps ==
    ASSUME Parameters, IInv, Publish
    PROVE  IInv'
  <1>1. /\ pc = "publish" /\ pc' = "receipt"
        /\ stage' = [stage EXCEPT ![job.release] = "whole"] /\ tmp' = tmp \ {job.release}
        /\ UNCHANGED <<cli, pointer, receipts, journal, project, fate, job, txns, bounds>>
    BY DEF Publish, Step
  <1>2. /\ job # None /\ journal # None /\ journal.kind = "install" /\ job.release = journal.release
        /\ journal.release \in Release
    BY <1>1, AtForward DEF Forward
  <1>3. /\ tmp' = {} /\ stage'[journal.release] = "whole"
        /\ stage' \in [Release -> {"absent", "partial", "whole"}]
        /\ \A w \in Release : stage[w] = "whole" => stage'[w] = "whole"
    BY <1>1, <1>2 DEF IInv, TypeOK, Disk, Begun
  <1>4. TypeOK'
    BY <1>1, <1>2, <1>3 DEF IInv, TypeOK, Steps, bounds
  <1>5. Disk'
    <2>1. AtRest' /\ BegunRemoval' /\ MarkerFits' /\ TxnsFit'
      BY <1>1, <1>2 DEF IInv, Disk, AtRest, BegunRemoval, MarkerFits, TxnsFit
    <2>2. TargetsKept'
      <3> SUFFICES ASSUME NEW m \in Txn, fate[m] = "kept" PROVE Installable(m)'
        BY <1>1 DEF TargetsKept
      <3>1. Installable(m) /\ receipts[m] \in Receipt
        BY Shapes DEF IInv, Disk, TargetsKept, Installable, Readable
      <3> QED  BY <1>1, <1>3, <3>1 DEF Installable, Readable, Receipt
    <2>3. Begun'
      BY <1>1, <1>2, <1>3 DEF IInv, Disk, Begun, Agree, bounds
    <2> QED  BY <2>1, <2>2, <2>3 DEF Disk
  <1>6. Control'
    BY <1>1, <1>2, <1>3 DEF IInv, Control, Planning, GoingForward, GoingBack, GoingAway, Ending, Remembered,
           Forward, Backward, Removing
  <1> QED  BY <1>4, <1>5, <1>6 DEF IInv

\* Steps that only look.
LEMMA LookKeeps ==
    ASSUME Parameters, IInv, Digest \/ Doctor
    PROVE  IInv'
  <1>1. /\ \/ pc = "digest" /\ pc' = "receipt" /\ stage[job.release] = "whole"
           \/ pc = "doctor" /\ pc' = "pointer"
        /\ UNCHANGED <<files, fate, job, txns, bounds>>
    BY DEF Digest, Doctor, Step
  <1>2. /\ job # None /\ journal # None /\ journal.kind = "install" /\ job.release = journal.release
    BY <1>1, AtForward DEF Forward
  <1>3. TypeOK'
    BY <1>1, <1>2 DEF IInv, TypeOK, Steps, files, bounds
  <1>4. Disk'
    BY <1>1, DiskStays DEF IInv, OnDisk, bounds
  <1>5. Control'
    BY <1>1, <1>2 DEF IInv, Control, Planning, GoingForward, GoingBack, GoingAway, Ending, Remembered,
           Forward, Backward, Removing, files
  <1> QED  BY <1>3, <1>4, <1>5 DEF IInv

\* A write to the receipt of the transaction.
LEMMA ReceiptWritten ==
    ASSUME Parameters, IInv, pc \in Forward, NEW r \in Receipt, r.release = journal.release,
           receipts' = [receipts EXCEPT ![journal.n] = r],
           UNCHANGED <<cli, pointer, stage, tmp, journal, project, fate, txns, bounds>>
    PROVE  /\ receipts' \in [Txn -> Receipt \cup {None}] /\ Disk'
           /\ receipts'[journal.n] = r /\ receipts'[journal.n] # None
  <1>1. /\ journal # None /\ journal.kind = "install" /\ journal.n \in Txn /\ journal.n = txns
        /\ fate[journal.n] = "open" /\ pointer = journal.pointer /\ pointer # journal.n
        /\ journal.pointer \in Txn \cup {None}
    BY AtForward DEF Installation
  <1>2. /\ receipts' \in [Txn -> Receipt \cup {None}] /\ receipts'[journal.n] = r
        /\ \A m \in Txn : m # journal.n => receipts'[m] = receipts[m]
    BY <1>1 DEF IInv, TypeOK
  <1>3. r # None
    BY DEF Parameters, NoneFits
  <1>4. AtRest' /\ BegunRemoval' /\ MarkerFits'
    BY <1>1 DEF IInv, Disk, AtRest, BegunRemoval, MarkerFits
  <1>5. TargetsKept'
    BY <1>1, <1>2 DEF IInv, Disk, TargetsKept, Installable, Readable
  <1>6. TxnsFit'
    <2>1. \A m \in Txn : m > txns => m # journal.n
      BY <1>1, Markers DEF IInv, TypeOK
    <2> QED  BY <1>1, <1>2, <2>1 DEF IInv, Disk, TxnsFit
  <1>7. Begun'
    BY <1>1, <1>2 DEF IInv, Disk, Begun, Agree, bounds
  <1> QED  BY <1>2, <1>3, <1>4, <1>5, <1>6, <1>7 DEF Disk

LEMMA WriteReceiptKeeps ==
    ASSUME Parameters, IInv, WriteReceipt
    PROVE  IInv'
  <1> DEFINE r == [release |-> job.release, sealed |-> FALSE, project |-> journal.marker]
  <1>1. /\ pc = "receipt" /\ pc' = "seal" /\ receipts' = [receipts EXCEPT ![job.n] = r]
        /\ UNCHANGED <<cli, pointer, stage, tmp, journal, project, fate, job, txns, bounds>>
    BY DEF WriteReceipt, Step
  <1>2. /\ job # None /\ journal # None /\ journal.kind = "install" /\ journal \in Installation
        /\ job.release = journal.release /\ journal.release \in Release /\ job.n = journal.n
    BY <1>1, AtForward DEF Forward
  <1>3. r \in Receipt /\ r.release = journal.release
    BY <1>2 DEF Receipt, Installation
  <1> HIDE DEF r
  <1>4. /\ receipts' \in [Txn -> Receipt \cup {None}] /\ Disk' /\ receipts'[journal.n] # None
    BY <1>1, <1>2, <1>3, ReceiptWritten DEF Forward
  <1>5. TypeOK'
    BY <1>1, <1>2, <1>4 DEF IInv, TypeOK, Steps, bounds
  <1>6. Control'
    BY <1>1, <1>2, <1>4 DEF IInv, Control, Planning, GoingForward, GoingBack, GoingAway, Ending, Remembered,
           Forward, Backward, Removing
  <1> QED  BY <1>4, <1>5, <1>6 DEF IInv

LEMMA SealReceiptKeeps ==
    ASSUME Parameters, IInv, SealReceipt
    PROVE  IInv'
  <1> DEFINE r == [receipts[journal.n] EXCEPT !.sealed = TRUE]
  <1>1. /\ pc = "seal" /\ pc' = "link" /\ receipts' = [receipts EXCEPT ![job.n].sealed = TRUE]
        /\ UNCHANGED <<cli, pointer, stage, tmp, journal, project, fate, job, txns, bounds>>
    BY DEF SealReceipt, Step
  <1>2. /\ job # None /\ journal # None /\ journal.kind = "install" /\ journal.n \in Txn
        /\ job.release = journal.release /\ job.n = journal.n
    BY <1>1, AtForward DEF Forward
  <1>3. receipts[journal.n] # None /\ receipts[journal.n] \in Receipt
        /\ receipts[journal.n].release = journal.release
    BY <1>1, <1>2, Shapes DEF IInv, Disk, Begun, Control, GoingForward, Forward
  <1>4. r \in Receipt /\ r.release = journal.release /\ r.sealed
    BY <1>3 DEF Receipt
  <1>5. receipts' = [receipts EXCEPT ![journal.n] = r]
    BY <1>1, <1>2 DEF IInv, TypeOK
  <1> HIDE DEF r
  <1>6. /\ receipts' \in [Txn -> Receipt \cup {None}] /\ Disk'
        /\ receipts'[journal.n] # None /\ receipts'[journal.n].sealed
    BY <1>1, <1>2, <1>4, <1>5, ReceiptWritten DEF Forward
  <1>7. TypeOK'
    BY <1>1, <1>2, <1>6 DEF IInv, TypeOK, Steps, bounds
  <1>8. Control'
    BY <1>1, <1>2, <1>6 DEF IInv, Control, Planning, GoingForward, GoingBack, GoingAway, Ending, Remembered,
           Forward, Backward, Removing
  <1> QED  BY <1>6, <1>7, <1>8 DEF IInv

LEMMA LinkKeeps ==
    ASSUME Parameters, IInv, Link
    PROVE  IInv'
  <1>1. /\ pc = "link" /\ pc' \in {"mkdir", "doctor"} /\ cli' = job.release
        /\ UNCHANGED <<pointer, receipts, stage, tmp, journal, project, fate, job, txns, bounds>>
    BY DEF Link, Step
  <1>2. /\ job # None /\ journal # None /\ journal.kind = "install"
        /\ job.release = journal.release /\ journal.release \in Release
        /\ fate[journal.n] = "open" /\ pointer = journal.pointer
    BY <1>1, AtForward DEF Forward
  <1>3. stage[journal.release] = "whole"
    BY <1>1, <1>2 DEF IInv, Control, GoingForward, Forward
  <1>4. TypeOK'
    BY <1>1, <1>2 DEF IInv, TypeOK, Steps, bounds, Target
  <1>5. Disk'
    BY <1>1, <1>2, <1>3 DEF IInv, Disk, AtRest, TargetsKept, TxnsFit, Begun, BegunRemoval, MarkerFits,
         Installable, Readable, Agree, bounds
  <1>6. Control'
    BY <1>1, <1>2 DEF IInv, Control, Planning, GoingForward, GoingBack, GoingAway, Ending, Remembered,
           Forward, Backward, Removing
  <1> QED  BY <1>4, <1>5, <1>6 DEF IInv

LEMMA MkdirKeeps ==
    ASSUME Parameters, IInv, Mkdir
    PROVE  IInv'
  <1>1. /\ project.maker = None /\ pc = "mkdir" /\ pc' = "marker"
        /\ project' = [project EXCEPT !.maker = job.n]
        /\ UNCHANGED <<cli, pointer, receipts, stage, tmp, journal, fate, job, txns, bounds>>
    BY DEF Mkdir, Step
  <1>2. /\ job # None /\ journal # None /\ journal.kind = "install"
        /\ job.release = journal.release /\ job.n = journal.n /\ journal.n \in Txn
    BY <1>1, AtForward DEF Forward
  <1>3. project.marker = None
    BY <1>1, Markers DEF IInv, TypeOK, Disk, MarkerFits
  <1>4. /\ project' \in [maker : Txn \cup {User, None}, data : BOOLEAN, marker : Txn \cup {None}]
        /\ project'.maker = journal.n /\ project'.marker = None
    BY <1>1, <1>2, <1>3 DEF IInv, TypeOK
  <1>5. TypeOK'
    BY <1>1, <1>2, <1>4 DEF IInv, TypeOK, Steps, bounds
  <1>6. Disk'
    BY <1>1, <1>2, <1>4 DEF IInv, Disk, AtRest, TargetsKept, TxnsFit, Begun, BegunRemoval, MarkerFits,
         Installable, Readable, Agree, bounds
  <1>7. Control'
    BY <1>1, <1>2, <1>4 DEF IInv, Control, Planning, GoingForward, GoingBack, GoingAway, Ending, Remembered,
           Forward, Backward, Removing
  <1> QED  BY <1>5, <1>6, <1>7 DEF IInv

LEMMA WriteMarkerKeeps ==
    ASSUME Parameters, IInv, WriteMarker
    PROVE  IInv'
  <1>1. /\ pc = "marker" /\ pc' = "doctor" /\ project' = [project EXCEPT !.marker = job.n]
        /\ UNCHANGED <<cli, pointer, receipts, stage, tmp, journal, fate, job, txns, bounds>>
    BY DEF WriteMarker, Step
  <1>2. /\ job # None /\ journal # None /\ journal.kind = "install"
        /\ job.release = journal.release /\ job.n = journal.n /\ journal.n \in Txn
        /\ project.maker = journal.n
    BY <1>1, AtForward DEF Forward, IInv, Control, GoingForward
  <1>3. /\ project' \in [maker : Txn \cup {User, None}, data : BOOLEAN, marker : Txn \cup {None}]
        /\ MarkerFits'
    BY <1>1, <1>2 DEF IInv, TypeOK, MarkerFits
  <1>4. TypeOK'
    BY <1>1, <1>2, <1>3 DEF IInv, TypeOK, Steps, bounds
  <1>5. Disk'
    BY <1>1, <1>2, <1>3 DEF IInv, Disk, AtRest, TargetsKept, TxnsFit, Begun, BegunRemoval,
         Installable, Readable, Agree, bounds
  <1>6. Control'
    BY <1>1, <1>2 DEF IInv, Control, Planning, GoingForward, GoingBack, GoingAway, Ending, Remembered,
           Forward, Backward, Removing
  <1> QED  BY <1>4, <1>5, <1>6 DEF IInv

\* The moment of commitment.
LEMMA WritePointerKeeps ==
    ASSUME Parameters, IInv, WritePointer
    PROVE  IInv'
  <1>1. /\ pc = "pointer" /\ pc' = IF job.op = "install" THEN "clear" ELSE "unjournal"
        /\ pointer' = job.n /\ fate' = [fate EXCEPT ![job.n] = "kept"]
        /\ UNCHANGED <<cli, receipts, stage, tmp, journal, project, job, txns, bounds>>
    BY DEF WritePointer, Step
  <1>2. /\ job # None /\ journal # None /\ journal.kind = "install" /\ tmp = {}
        /\ job.release = journal.release /\ job.n = journal.n /\ journal.n \in Txn /\ journal.n = txns
        /\ fate[journal.n] = "open" /\ job.then = "ok"
    BY <1>1, AtForward DEF Forward
  <1>3. /\ receipts[journal.n] # None /\ receipts[journal.n].release = journal.release
        /\ receipts[journal.n].sealed /\ stage[journal.release] = "whole" /\ cli = journal.release
    BY <1>1, <1>2 DEF IInv, Control, GoingForward, Forward, Disk, Begun
  <1>4. /\ fate' \in [Txn -> {"open", "kept", "dropped"}] /\ fate'[journal.n] = "kept"
        /\ \A m \in Txn : m # journal.n => fate'[m] = fate[m]
    BY <1>1, <1>2 DEF IInv, TypeOK
  <1>5. TypeOK'
    BY <1>1, <1>2, <1>4 DEF IInv, TypeOK, Steps, bounds
  <1>6. Disk'
    <2>1. AtRest' /\ BegunRemoval' /\ MarkerFits'
      BY <1>1, <1>2 DEF IInv, Disk, AtRest, BegunRemoval, MarkerFits
    <2>2. TargetsKept'
      BY <1>1, <1>2, <1>3, <1>4, Markers DEF IInv, Disk, TargetsKept, Installable, Readable
    <2>3. TxnsFit'
      <3>1. \A m \in Txn : m > txns => m # journal.n
        BY <1>2, Markers DEF IInv, TypeOK
      <3> QED  BY <1>1, <1>2, <1>4, <3>1 DEF IInv, Disk, TxnsFit
    <2>4. Begun'
      BY <1>1, <1>2, <1>3, <1>4, Shapes DEF IInv, Disk, Begun, Agree, bounds, Installation
    <2> QED  BY <2>1, <2>2, <2>3, <2>4 DEF Disk
  <1>7. Control'
    BY <1>1, <1>2, <1>4 DEF IInv, Control, Planning, GoingForward, GoingBack, GoingAway, Ending, Remembered,
           Forward, Backward, Removing
  <1> QED  BY <1>5, <1>6, <1>7 DEF IInv

LEMMA ErrorKeeps ==
    ASSUME Parameters, IInv, Error
    PROVE  IInv'
  <1> DEFINE j1 == [job EXCEPT !.then = "failed"]
             j2 == [j1 EXCEPT !.why = pc]
  <1>1. /\ pc \in Forward \cup {"clear", "unjournal"} /\ pc' = "reconcile"
        /\ job.op \in {"install", "rollback"} /\ job.then = "ok" /\ job' = j2
        /\ UNCHANGED <<files, fate, txns, calls, drifts>> /\ faults' \in 0..MaxFault
    BY InstallAssumption DEF Error, Forward, IInv, TypeOK
  <1>2. job # None /\ job \in Job /\ journal # None /\ journal.kind = "install"
        /\ job.prior = <<journal.cli, journal.pointer>>
    BY <1>1, Shapes DEF IInv, Control, Remembered, Forward
  <1>3. pc \in Forward => fate[journal.n] = "open"
    BY AtForward
  <1>4. /\ j2 \in Job /\ j2.op = job.op /\ j2.then = "failed" /\ j2.why = pc /\ j2.prior = job.prior
        /\ j2.release = job.release
    <2>1. /\ j1 \in Job /\ j1.op = job.op /\ j1.then = "failed" /\ j1.prior = job.prior
          /\ j1.release = job.release
      BY <1>2 DEF Job
    <2> HIDE DEF j1
    <2>2. pc \in Steps
      BY DEF IInv, TypeOK
    <2> QED  BY <2>1, <2>2 DEF Job
  <1> HIDE DEF j2
  <1>5. j2 # None
    BY <1>4 DEF Parameters, NoneFits
  <1>6. TypeOK'
    BY <1>1, <1>4, <1>5 DEF IInv, TypeOK, Steps, files
  <1>7. Disk'
    BY <1>1, DiskStays DEF IInv, OnDisk
  <1>8. Control'
    BY <1>1, <1>2, <1>3, <1>4 DEF IInv, Control, Planning, GoingForward, GoingBack, GoingAway, Ending, Remembered,
           Forward, Backward, Removing, files
  <1> QED  BY <1>6, <1>7, <1>8 DEF IInv

LEMMA RepairKeeps ==
    ASSUME Parameters, IInv, Repair
    PROVE  IInv'
  <1>1. /\ pc = "plan" /\ pc' \in {"ok", "failed"}
        /\ cli' = IF Installable(pointer) THEN receipts[pointer].release ELSE cli
        /\ UNCHANGED <<pointer, receipts, stage, tmp, journal, project, fate, job, txns, bounds>>
    BY DEF Repair, Step
  <1>2. job # None /\ journal = None
    BY <1>1, Shapes DEF IInv, Control, Planning
  <1>3. Installable(pointer) => pointer \in Txn /\ receipts[pointer].release \in Release
    BY Shapes DEF IInv, TypeOK, Installable, Readable, Receipt
  <1>4. TypeOK'
    BY <1>1, <1>2, <1>3 DEF IInv, TypeOK, Steps, bounds, Target
  <1>5. Disk'
    <2>1. AtRest'
      BY <1>1, <1>2, <1>3, Markers DEF IInv, Disk, AtRest, Installable, Readable, bounds
    <2> QED  BY <1>1, <1>2, <2>1 DEF IInv, Disk, TargetsKept, TxnsFit, Begun, BegunRemoval, MarkerFits,
         Installable, Readable
  <1>6. Control'
    BY <1>1, <1>2 DEF IInv, Control, Planning, GoingForward, GoingBack, GoingAway, Ending, Remembered,
           Forward, Backward, Removing
  <1> QED  BY <1>4, <1>5, <1>6 DEF IInv

-----------------------------------------------------------------------------
(* An uninstall.                                                           *)

LEMMA UninstallPlanKeeps ==
    ASSUME Parameters, IInv, UninstallPlan
    PROVE  IInv'
  <1>1. pc = "plan" /\ job.op = "uninstall"
    BY DEF UninstallPlan
  <1>2. /\ job # None /\ job \in Job /\ job.n \in Txn \cup {None} /\ journal = None
        /\ job.then = "plan" /\ job.why = None
    BY <1>1, Shapes DEF IInv, Job, Control, Planning, Remembered
  <1>3. CASE Readable(job.n) /\ ~ Collision(job.n)
    <2> DEFINE n == job.n
               v == receipts[n].release
               rn == [kind |-> "uninstall", n |-> n, purge |-> job.init]
               j == [job EXCEPT !.then = "ok"]
    <2>1. /\ pc' = "u_stage" /\ job' = j /\ journal' = rn
          /\ fate' = [m \in Txn |-> IF Readable(m) /\ receipts[m].release = v THEN "dropped" ELSE fate[m]]
          /\ UNCHANGED <<cli, pointer, receipts, stage, tmp, project, txns, bounds>>
      BY <1>3 DEF UninstallPlan
    <2>2. n \in Txn /\ cli \in {None, v} /\ pointer \in {None, n}
      BY <1>2, <1>3 DEF Collision, Readable
    <2>3. rn \in Removal
      BY <1>2, <2>2 DEF Removal, Job
    <2>4. rn # None
      BY <2>3 DEF Parameters, NoneFits
    <2>5. j \in Job /\ j.op = "uninstall" /\ j.then = "ok" /\ j.why = None
      BY <1>1, <1>2 DEF Job
    <2> HIDE DEF j
    <2>6. j # None
      BY <2>5 DEF Parameters, NoneFits
    <2>7. /\ fate' \in [Txn -> {"open", "kept", "dropped"}]
          /\ \A m \in Txn : fate'[m] = fate[m] \/ (fate'[m] = "dropped" /\ Readable(m))
          /\ \A m \in Txn : fate'[m] = "kept" => ~ (Readable(m) /\ receipts[m].release = v)
      BY <2>1 DEF IInv, TypeOK
    <2>8. TypeOK'
      BY <2>1, <2>3, <2>4, <2>5, <2>6, <2>7 DEF IInv, TypeOK, Steps, bounds, Removal
    <2>9. Disk'
      <3>1. \A m \in Txn : receipts[m] # None => fate[m] # "open"
        BY <1>2 DEF IInv, Disk, AtRest
      <3>2. AtRest' /\ Begun' /\ MarkerFits'
        BY <2>1, <2>4 DEF IInv, Disk, AtRest, Begun, MarkerFits
      <3>3. TargetsKept'
        BY <2>1, <2>7 DEF IInv, Disk, TargetsKept, Installable, Readable
      <3>4. TxnsFit'
        <4>1. \A m \in Txn : receipts[m] # None => fate'[m] # "open"
          BY <2>7, <3>1
        <4>2. \A m \in Txn : m > txns => receipts[m] = None /\ fate'[m] = "open"
          BY <2>7 DEF IInv, Disk, TxnsFit, Readable
        <4> QED  BY <2>1, <4>1, <4>2 DEF TxnsFit
      <3>5. BegunRemoval'
        <4>1. tmp = {}
          BY <1>2 DEF IInv, Disk, AtRest
        <4>2. \A m \in Txn : fate'[m] = "kept" => receipts[m].release # v
          BY <2>7 DEF IInv, Disk, TargetsKept, Installable
        <4> QED  BY <1>3, <2>1, <2>2, <4>1, <4>2 DEF BegunRemoval, Readable
      <3> QED  BY <3>2, <3>3, <3>4, <3>5 DEF Disk
    <2>10. Control'
      BY <2>1, <2>4, <2>5 DEF Control, Planning, GoingForward, GoingBack, GoingAway, Ending, Remembered,
           Forward, Backward, Removing
    <2> QED  BY <2>8, <2>9, <2>10 DEF IInv
  <1>4. CASE ~ (Readable(job.n) /\ ~ Collision(job.n))
    <2>1. pc' \in {"ok", "failed"} /\ UNCHANGED <<files, job, fate, txns, bounds>>
      BY <1>4 DEF UninstallPlan
    <2> QED  BY <1>1, <2>1, EndKeeps
  <1> QED  BY <1>3, <1>4

\* The state of a removal.
LEMMA AtRemoving ==
    ASSUME Parameters, IInv, pc \in Removing
    PROVE  /\ job # None /\ journal # None /\ journal.kind = "uninstall" /\ journal.n \in Txn
           /\ job.then \in {"plan", "ok"} /\ tmp = {}
           /\ (pc \in {"u_project", "u_pointer"} => cli = None)
           /\ receipts[journal.n] \in Receipt /\ receipts[journal.n].release \in Release
           /\ cli \in {None, receipts[journal.n].release} /\ pointer \in {None, journal.n}
           /\ \A m \in Txn : fate[m] = "kept" => receipts[m].release # receipts[journal.n].release
  <1>1. /\ journal # None /\ journal.kind = "uninstall" /\ job.then \in {"plan", "ok"}
        /\ (pc \in {"u_project", "u_pointer"} => cli = None)
    BY DEF IInv, Control, GoingAway
  <1>2. job # None /\ journal.n \in Txn
    BY <1>1, Shapes DEF IInv, Removing
  <1>3. /\ tmp = {} /\ cli \in {None, receipts[journal.n].release} /\ pointer \in {None, journal.n}
        /\ receipts[journal.n] \in Receipt
        /\ \A m \in Txn : fate[m] = "kept" => receipts[m].release # receipts[journal.n].release
    BY <1>1, <1>2, Shapes DEF IInv, Disk, BegunRemoval, Readable
  <1> QED  BY <1>1, <1>2, <1>3 DEF Receipt

\* The files of a stage go.
LEMMA StageGone ==
    ASSUME Parameters, IInv, NEW v \in Release, NEW s \in {"absent", "partial"},
           stage' = [stage EXCEPT ![v] = s], journal = None \/ journal.kind = "uninstall",
           \A m \in Txn : fate[m] = "kept" => receipts[m].release # v,
           UNCHANGED <<cli, pointer, receipts, tmp, journal, project, fate, txns, bounds>>
    PROVE  stage' \in [Release -> {"absent", "partial", "whole"}] /\ Disk'
  <1>1. /\ stage' \in [Release -> {"absent", "partial", "whole"}]
        /\ \A w \in Release : w # v => stage'[w] = stage[w]
    BY DEF IInv, TypeOK
  <1>2. TargetsKept'
    <2> SUFFICES ASSUME NEW m \in Txn, fate[m] = "kept" PROVE Installable(m)'
      BY DEF TargetsKept
    <2>1. Installable(m) /\ receipts[m] \in Receipt
      BY Shapes DEF IInv, Disk, TargetsKept, Installable, Readable
    <2> QED  BY <1>1, <2>1 DEF Installable, Readable, Receipt
  <1>3. AtRest'
    BY <1>2 DEF IInv, TypeOK, Disk, AtRest, TargetsKept, bounds
  <1>4. TxnsFit' /\ Begun' /\ BegunRemoval' /\ MarkerFits'
    BY DEF IInv, Disk, TxnsFit, Begun, BegunRemoval, MarkerFits, Readable
  <1> QED  BY <1>1, <1>2, <1>3, <1>4 DEF Disk

LEMMA RemoveStageKeeps ==
    ASSUME Parameters, IInv, RemoveStage \/ RemoveRest
    PROVE  IInv'
  <1> DEFINE v == receipts[journal.n].release
  <1>1. /\ \/ pc = "u_stage" /\ pc' \in {"u_rest", "u_cli"}
           \/ pc = "u_rest" /\ pc' = "u_cli"
        /\ UNCHANGED <<cli, pointer, receipts, tmp, journal, project, fate, job, txns, bounds>>
    BY DEF RemoveStage, RemoveRest, Step
  <1>2. \/ stage' = stage
        \/ stage' = [stage EXCEPT ![v] = "partial"]
        \/ stage' = [stage EXCEPT ![v] = "absent"]
    BY DEF RemoveStage, RemoveRest
  <1>3. /\ job # None /\ journal # None /\ journal.kind = "uninstall" /\ v \in Release
        /\ job.then \in {"plan", "ok"}
        /\ \A m \in Txn : fate[m] = "kept" => receipts[m].release # v
    BY <1>1, AtRemoving DEF Removing
  <1> HIDE DEF v
  <1>4. stage' \in [Release -> {"absent", "partial", "whole"}] /\ Disk'
    <2>1. CASE stage' = stage
      <3>1. UNCHANGED OnDisk
        BY <1>1, <2>1 DEF OnDisk, files, bounds
      <3> QED  BY <2>1, <3>1, DiskStays DEF IInv, TypeOK
    <2>2. CASE stage' # stage
      BY <1>1, <1>2, <1>3, <2>2, StageGone
    <2> QED  BY <2>1, <2>2
  <1>5. TypeOK'
    BY <1>1, <1>3, <1>4 DEF IInv, TypeOK, Steps, bounds
  <1>6. Control'
    BY <1>1, <1>3 DEF IInv, Control, Planning, GoingForward, GoingBack, GoingAway, Ending, Remembered,
           Forward, Backward, Removing
  <1> QED  BY <1>4, <1>5, <1>6 DEF IInv

LEMMA RemoveCliKeeps ==
    ASSUME Parameters, IInv, RemoveCli
    PROVE  IInv'
  <1>1. /\ pc = "u_cli" /\ pc' = "u_project"
        /\ cli' = IF cli = receipts[journal.n].release THEN None ELSE cli
        /\ UNCHANGED <<pointer, receipts, stage, tmp, journal, project, fate, job, txns, bounds>>
    BY DEF RemoveCli, Step
  <1>2. /\ job # None /\ journal # None /\ journal.kind = "uninstall" /\ job.then \in {"plan", "ok"}
        /\ cli' = None
    BY <1>1, AtRemoving DEF Removing
  <1>3. TypeOK'
    BY <1>1, <1>2 DEF IInv, TypeOK, Steps, bounds, Target
  <1>4. Disk'
    BY <1>1, <1>2 DEF IInv, Disk, AtRest, TargetsKept, TxnsFit, Begun, BegunRemoval, MarkerFits,
         Installable, Readable
  <1>5. Control'
    BY <1>1, <1>2 DEF IInv, Control, Planning, GoingForward, GoingBack, GoingAway, Ending, Remembered,
           Forward, Backward, Removing
  <1> QED  BY <1>3, <1>4, <1>5 DEF IInv

LEMMA RemoveProjectKeeps ==
    ASSUME Parameters, IInv, RemoveProject
    PROVE  IInv'
  <1>1. /\ pc = "u_project" /\ pc' = "u_pointer"
        /\ project' = project \/ (project.marker = None /\ project' = [project EXCEPT !.maker = None])
        /\ UNCHANGED <<cli, pointer, receipts, stage, tmp, journal, fate, job, txns, bounds>>
    BY DEF RemoveProject, Step
  <1>2. /\ job # None /\ journal # None /\ journal.kind = "uninstall" /\ job.then \in {"plan", "ok"}
        /\ cli = None
    BY <1>1, AtRemoving DEF Removing
  <1>3. /\ project' \in [maker : Txn \cup {User, None}, data : BOOLEAN, marker : Txn \cup {None}]
        /\ MarkerFits'
    BY <1>1 DEF IInv, TypeOK, Disk, MarkerFits
  <1>4. TypeOK'
    BY <1>1, <1>2, <1>3 DEF IInv, TypeOK, Steps, bounds
  <1>5. Disk'
    BY <1>1, <1>2, <1>3 DEF IInv, Disk, AtRest, TargetsKept, TxnsFit, Begun, BegunRemoval,
         Installable, Readable
  <1>6. Control'
    BY <1>1, <1>2 DEF IInv, Control, Planning, GoingForward, GoingBack, GoingAway, Ending, Remembered,
           Forward, Backward, Removing
  <1> QED  BY <1>4, <1>5, <1>6 DEF IInv

LEMMA RemovePointerKeeps ==
    ASSUME Parameters, IInv, RemovePointer
    PROVE  IInv'
  <1>1. /\ pc = "u_pointer" /\ pc' = "unjournal"
        /\ pointer' = IF pointer = journal.n THEN None ELSE pointer
        /\ UNCHANGED <<cli, receipts, stage, tmp, journal, project, fate, job, txns, bounds>>
    BY DEF RemovePointer, Step
  <1>2. /\ job # None /\ journal # None /\ journal.kind = "uninstall" /\ job.then \in {"plan", "ok"}
        /\ cli = None /\ pointer' = None /\ tmp = {}
    BY <1>1, AtRemoving DEF Removing
  <1>3. TypeOK'
    BY <1>1, <1>2 DEF IInv, TypeOK, Steps, bounds
  <1>4. Disk'
    BY <1>1, <1>2 DEF IInv, Disk, AtRest, TargetsKept, TxnsFit, Begun, BegunRemoval, MarkerFits,
         Installable, Readable
  <1>5. Control'
    BY <1>1, <1>2 DEF IInv, Control, Planning, GoingForward, GoingBack, GoingAway, Ending, Remembered,
           Forward, Backward, Removing
  <1> QED  BY <1>3, <1>4, <1>5 DEF IInv

-----------------------------------------------------------------------------
(* A prune.                                                                *)

LEMMA PrunePlanKeeps ==
    ASSUME Parameters, IInv, PrunePlan
    PROVE  IInv'
  <1>1. PICK unused \in SUBSET Release :
          /\ job' = [job EXCEPT !.prune = unused]
          /\ fate' = [n \in Txn |-> IF Readable(n) /\ receipts[n].release \in unused
                                    THEN "dropped" ELSE fate[n]]
          /\ Readable(pointer) => receipts[pointer].release \notin unused
    <2>1. PICK mcp \in SUBSET Release, keep \in Keep :
         LET referenced == {receipts[n].release : n \in Retained(keep)} \cup mcp
                             \cup (IF Readable(pointer) THEN {receipts[pointer].release} ELSE {})
             unused == {v \in Release \ referenced :
                          \E n \in Txn : Installable(n) /\ receipts[n].release = v}
         IN  /\ job' = [job EXCEPT !.prune = unused]
             /\ fate' = [n \in Txn |-> IF Readable(n) /\ receipts[n].release \in unused
                                       THEN "dropped" ELSE fate[n]]
      BY DEF PrunePlan
    <2> DEFINE retained == {receipts[n].release : n \in Retained(keep)}
               referenced == retained \cup mcp
                               \cup (IF Readable(pointer) THEN {receipts[pointer].release} ELSE {})
               unused == {v \in Release \ referenced :
                            \E n \in Txn : Installable(n) /\ receipts[n].release = v}
    <2>2. /\ job' = [job EXCEPT !.prune = unused]
          /\ fate' = [n \in Txn |-> IF Readable(n) /\ receipts[n].release \in unused
                                    THEN "dropped" ELSE fate[n]]
      BY <2>1
    <2> HIDE DEF retained
    <2>3. unused \in SUBSET Release /\ (Readable(pointer) => receipts[pointer].release \notin unused)
      OBVIOUS
    <2> HIDE DEF unused
    <2> QED  BY <2>2, <2>3
  <1>2. /\ pc = "plan" /\ job.op = "prune" /\ pc' = "prune" /\ tmp' = {}
        /\ UNCHANGED <<cli, pointer, receipts, stage, journal, project, txns, bounds>>
    BY DEF PrunePlan
  <1>3. job # None /\ job \in Job /\ journal = None /\ job.then = "plan" /\ job.why = None
    BY <1>2, Shapes DEF IInv, Control, Planning, Remembered
  <1> DEFINE j == [job EXCEPT !.prune = unused]
  <1>4. /\ j \in Job /\ j.op = "prune" /\ j.then = "plan" /\ j.why = None /\ j.prune = unused
        /\ j.release = job.release
    BY <1>2, <1>3 DEF Job
  <1>5. job' = j
    BY <1>1
  <1> HIDE DEF j
  <1>6. j # None
    BY <1>4 DEF Parameters, NoneFits
  <1>7. /\ fate' \in [Txn -> {"open", "kept", "dropped"}]
        /\ \A m \in Txn : \/ fate'[m] = fate[m]
                          \/ fate'[m] = "dropped" /\ Readable(m) /\ receipts[m].release \in unused
        /\ \A m \in Txn : fate'[m] = "kept" => ~ (Readable(m) /\ receipts[m].release \in unused)
    BY <1>1 DEF IInv, TypeOK
  <1>8. TypeOK'
    BY <1>2, <1>4, <1>5, <1>6, <1>7 DEF IInv, TypeOK, Steps, bounds
  <1>9. Disk'
    <2>1. \A m \in Txn : receipts[m] # None => fate[m] # "open" /\ fate'[m] # "open"
      BY <1>3, <1>7 DEF IInv, Disk, AtRest
    <2>2. TargetsKept'
      BY <1>2, <1>7 DEF IInv, Disk, TargetsKept, Installable, Readable
    <2>3. pointer # None => fate'[pointer] = "kept"
      BY <1>1, <1>3, <1>7 DEF IInv, TypeOK, Disk, AtRest
    <2>4. AtRest'
      BY <1>2, <1>3, <2>1, <2>2, <2>3 DEF IInv, TypeOK, Disk, AtRest, TargetsKept, bounds
    <2>5. TxnsFit'
      <3>1. \A m \in Txn : m > txns => receipts[m] = None /\ fate'[m] = "open"
        BY <1>7 DEF IInv, Disk, TxnsFit, Readable
      <3> QED  BY <1>2, <2>1, <3>1 DEF TxnsFit
    <2>6. Begun' /\ BegunRemoval' /\ MarkerFits'
      BY <1>2, <1>3 DEF IInv, Disk, Begun, BegunRemoval, MarkerFits
    <2> QED  BY <2>2, <2>4, <2>5, <2>6 DEF Disk
  <1>10. Control'
    <2>1. \A m \in Txn : fate'[m] = "kept" => receipts[m].release \notin unused
      BY <1>7 DEF IInv, Disk, TargetsKept, Installable
    <2> QED
      BY <1>2, <1>3, <1>4, <1>5, <2>1 DEF Control, Planning, GoingForward, GoingBack, GoingAway, Ending,
         Remembered, Forward, Backward, Removing
  <1> QED  BY <1>8, <1>9, <1>10 DEF IInv

\* The state of a prune.
LEMMA AtPrune ==
    ASSUME Parameters, IInv, pc = "prune"
    PROVE  /\ job # None /\ job \in Job /\ job.prune \in SUBSET Release /\ journal = None
           /\ \A m \in Txn : fate[m] = "kept" => receipts[m].release \notin job.prune
  BY Shapes DEF IInv, Control, Planning, Job

LEMMA PruneStageKeeps ==
    ASSUME Parameters, IInv, NEW v \in Release, PruneStage(v)
    PROVE  IInv'
  <1>1. /\ pc = "prune" /\ v \in job.prune /\ stage' = [stage EXCEPT ![v] = Less(stage[v])]
        /\ UNCHANGED <<cli, pointer, receipts, tmp, journal, project, fate, pc, job, txns, bounds>>
    BY DEF PruneStage, PruneStep
  <1>2. journal = None /\ \A m \in Txn : fate[m] = "kept" => receipts[m].release # v
    BY <1>1, AtPrune
  <1>3. Less(stage[v]) \in {"absent", "partial"}
    BY DEF Less
  <1>4. stage' \in [Release -> {"absent", "partial", "whole"}] /\ Disk'
    BY <1>1, <1>2, <1>3, StageGone
  <1>5. TypeOK'
    BY <1>1, <1>4 DEF IInv, TypeOK, bounds
  <1>6. Control'
    BY <1>1 DEF IInv, Control, Planning, GoingForward, GoingBack, GoingAway, Ending, Remembered,
           Forward, Backward, Removing
  <1> QED  BY <1>4, <1>5, <1>6 DEF IInv

LEMMA PruneReceiptKeeps ==
    ASSUME Parameters, IInv, NEW v \in Release, PruneReceipt(v)
    PROVE  IInv'
  <1>1. /\ pc = "prune" /\ v \in job.prune
        /\ UNCHANGED <<cli, pointer, stage, tmp, journal, project, fate, pc, job, txns, bounds>>
    BY DEF PruneReceipt, PruneStep
  <1>2. PICK n \in Txn : /\ receipts[n] # None /\ receipts[n].release = v
                         /\ receipts' = [receipts EXCEPT ![n] = None]
    BY DEF PruneReceipt, OnStage
  <1>3. journal = None /\ fate[n] # "kept"
    BY <1>1, <1>2, AtPrune
  <1>4. /\ receipts' \in [Txn -> Receipt \cup {None}] /\ receipts'[n] = None
        /\ \A m \in Txn : m # n => receipts'[m] = receipts[m]
    BY <1>2 DEF IInv, TypeOK
  <1>5. TypeOK'
    BY <1>1, <1>4 DEF IInv, TypeOK, bounds
  <1>6. Disk'
    <2>1. TargetsKept' /\ TxnsFit'
      BY <1>1, <1>3, <1>4 DEF IInv, Disk, TargetsKept, TxnsFit, Installable, Readable
    <2>2. AtRest'
      BY <1>1, <1>3, <1>4, <2>1 DEF IInv, TypeOK, Disk, AtRest, TargetsKept, bounds
    <2>3. Begun' /\ BegunRemoval' /\ MarkerFits'
      BY <1>1, <1>3 DEF IInv, Disk, Begun, BegunRemoval, MarkerFits
    <2> QED  BY <2>1, <2>2, <2>3 DEF Disk
  <1>7. Control'
    BY <1>1, <1>3, <1>4 DEF IInv, Control, Planning, GoingForward, GoingBack, GoingAway, Ending, Remembered,
           Forward, Backward, Removing
  <1> QED  BY <1>5, <1>6, <1>7 DEF IInv

LEMMA PruneNextKeeps ==
    ASSUME Parameters, IInv, NEW v \in Release, PruneNext(v)
    PROVE  IInv'
  <1> DEFINE j == [job EXCEPT !.prune = @ \ {v}]
  <1>1. /\ pc = "prune" /\ job' = j
        /\ UNCHANGED <<cli, pointer, receipts, stage, tmp, journal, project, fate, pc, txns, bounds>>
    BY DEF PruneNext, PruneStep
  <1>2. job # None /\ job \in Job
    BY <1>1, AtPrune
  <1>3. /\ j \in Job /\ j.op = job.op /\ j.then = job.then /\ j.why = job.why /\ j.release = job.release
        /\ j.prior = job.prior /\ j.prune \subseteq job.prune
    BY <1>2 DEF Job
  <1> HIDE DEF j
  <1>4. j # None
    BY <1>3 DEF Parameters, NoneFits
  <1>5. TypeOK'
    BY <1>1, <1>3, <1>4 DEF IInv, TypeOK, bounds
  <1>6. Disk'
    BY <1>1, DiskStays DEF IInv, OnDisk, files, bounds
  <1>7. Control'
    BY <1>1, <1>2, <1>3 DEF IInv, Control, Planning, GoingForward, GoingBack, GoingAway, Ending, Remembered,
           Forward, Backward, Removing
  <1> QED  BY <1>5, <1>6, <1>7 DEF IInv

-----------------------------------------------------------------------------
(* Around a call.                                                          *)

LEMMA KillKeeps ==
    ASSUME Parameters, IInv, Kill
    PROVE  IInv'
  <1>1. /\ pc' = "idle" /\ job' = None /\ faults' \in 0..MaxFault
        /\ UNCHANGED <<files, fate, txns, calls, drifts>>
    BY InstallAssumption DEF Kill, IInv, TypeOK
  <1>2. TypeOK'
    BY <1>1 DEF IInv, TypeOK, Steps, files
  <1>3. Disk'
    BY <1>1, DiskStays DEF IInv, OnDisk
  <1>4. Control'
    BY <1>1 DEF Control, Planning, GoingForward, GoingBack, GoingAway, Ending, Remembered, Forward,
           Backward, Removing
  <1> QED  BY <1>2, <1>3, <1>4 DEF IInv

LEMMA UseProjectKeeps ==
    ASSUME Parameters, IInv, UseProject
    PROVE  IInv'
  <1>1. PICK data \in BOOLEAN :
          project' = [project EXCEPT !.data = data, !.maker = IF @ = None THEN User ELSE @]
    BY DEF UseProject
  <1>2. UNCHANGED <<cli, pointer, receipts, stage, tmp, journal, pc, job, fate, txns, bounds>>
    BY DEF UseProject
  <1>3. /\ project' \in [maker : Txn \cup {User, None}, data : BOOLEAN, marker : Txn \cup {None}]
        /\ project'.marker = project.marker
        /\ project.maker # None => project'.maker = project.maker
    <2> DEFINE d == [project EXCEPT !.data = data]
               m == IF project.maker = None THEN User ELSE project.maker
    <2>1. /\ d \in [maker : Txn \cup {User, None}, data : BOOLEAN, marker : Txn \cup {None}]
          /\ d.marker = project.marker /\ d.maker = project.maker
      BY DEF IInv, TypeOK
    <2>2. project' = [d EXCEPT !.maker = m]
      BY <1>1
    <2> HIDE DEF d
    <2> QED  BY <2>1, <2>2
  <1>4. TypeOK'
    BY <1>2, <1>3 DEF IInv, TypeOK, bounds
  <1>5. Disk'
    BY <1>2, <1>3, Markers DEF IInv, TypeOK, Disk, AtRest, TargetsKept, TxnsFit, Begun, BegunRemoval, MarkerFits,
         Installable, Readable, Agree, bounds
  <1>6. Control'
    <2>1. journal # None => journal.n # None
      BY Shapes, Markers DEF IInv
    <2> QED
      BY <1>2, <1>3, <2>1 DEF IInv, Control, Planning, GoingForward, GoingBack, GoingAway, Ending, Remembered,
         Forward, Backward, Removing
  <1> QED  BY <1>4, <1>5, <1>6 DEF IInv

LEMMA DriftKeeps ==
    ASSUME Parameters, IInv, Drift
    PROVE  IInv'
  <1>1. /\ pc = "idle" /\ journal = None /\ cli' \in Target
        /\ drifts' = drifts + 1 /\ drifts' \in 0..MaxDrift /\ drifts' # 0
        /\ UNCHANGED <<pointer, receipts, stage, tmp, journal, project, pc, job, fate, txns, calls, faults>>
    BY InstallAssumption DEF Drift, IInv, TypeOK, Target
  <1>2. TypeOK'
    BY <1>1 DEF IInv, TypeOK
  <1>3. Disk'
    BY <1>1 DEF IInv, Disk, AtRest, TargetsKept, TxnsFit, Begun, BegunRemoval, MarkerFits,
         Installable, Readable
  <1>4. Control'
    BY <1>1 DEF IInv, TypeOK, Control, Planning, GoingForward, GoingBack, GoingAway, Ending, Remembered, Forward,
           Backward, Removing
  <1> QED  BY <1>2, <1>3, <1>4 DEF IInv

LEMMA StutterKeeps ==
    ASSUME IInv, UNCHANGED vars
    PROVE  IInv'
  <1>1. TypeOK'
    BY DEF IInv, TypeOK, vars, files, bounds
  <1>2. Disk'
    BY DiskStays DEF IInv, vars, bounds, OnDisk
  <1>3. Control'
    BY DEF IInv, Control, Planning, GoingForward, GoingBack, GoingAway, Ending, Remembered, Forward,
           Backward, Removing, vars, files
  <1> QED  BY <1>1, <1>2, <1>3 DEF IInv

-----------------------------------------------------------------------------
(* The invariant.                                                          *)

LEMMA ReconcileKeeps ==
    ASSUME Parameters, IInv, Reconcile
    PROVE  IInv'
  <1>1. CASE ReconcileNone \/ ReconcileRefused \/ ReconcileInstall \/ ReconcileUninstall
    BY <1>1, ReconcileNoneKeeps, ReconcileRefusedKeeps, ReconcileInstallKeeps, ReconcileUninstallKeeps
  <1>2. CASE RestoreCli \/ RestorePointer \/ RestoreProject \/ RestoreRmdir
    BY <1>2, RestoreCliKeeps, RestorePointerKeeps, RestoreProjectKeeps, RestoreRmdirKeeps
  <1>3. CASE RestoreReceipt \/ RestoreStage \/ ClearMarker \/ Unjournal
    BY <1>3, RestoreReceiptKeeps, RestoreStageKeeps, ClearMarkerKeeps, UnjournalKeeps
  <1> QED  BY <1>1, <1>2, <1>3 DEF Reconcile

LEMMA InstallKeeps ==
    ASSUME Parameters, IInv, Install
    PROVE  IInv'
  <1>1. CASE InstallPlan \/ Copy \/ Publish \/ Digest \/ Doctor
    BY <1>1, InstallPlanKeeps, CopyKeeps, PublishKeeps, LookKeeps
  <1>2. CASE WriteReceipt \/ SealReceipt \/ Link \/ Mkdir
    BY <1>2, WriteReceiptKeeps, SealReceiptKeeps, LinkKeeps, MkdirKeeps
  <1>3. CASE WriteMarker \/ WritePointer \/ Error
    BY <1>3, WriteMarkerKeeps, WritePointerKeeps, ErrorKeeps
  <1> QED  BY <1>1, <1>2, <1>3 DEF Install

LEMMA UninstallKeeps ==
    ASSUME Parameters, IInv, Uninstall
    PROVE  IInv'
  BY UninstallPlanKeeps, RemoveStageKeeps, RemoveCliKeeps, RemoveProjectKeeps, RemovePointerKeeps
     DEF Uninstall

LEMMA PruneKeeps ==
    ASSUME Parameters, IInv, Prune
    PROVE  IInv'
  <1>1. CASE PrunePlan
    BY <1>1, PrunePlanKeeps
  <1>2. CASE PruneDone
    BY <1>2, EndKeeps DEF PruneDone
  <1>3. ASSUME NEW v \in Release, PruneStage(v) \/ PruneReceipt(v) \/ PruneNext(v)
        PROVE  IInv'
    BY <1>3, PruneStageKeeps, PruneReceiptKeeps, PruneNextKeeps
  <1> QED  BY <1>1, <1>2, <1>3 DEF Prune

LEMMA StepKeeps ==
    ASSUME Parameters, IInv, [Next]_vars
    PROVE  IInv'
  <1>1. CASE Call \/ Return \/ Reconcile \/ Install
    BY <1>1, BeginKeeps, ReturnKeeps, ReconcileKeeps, InstallKeeps
  <1>2. CASE RollbackPlan \/ Repair \/ Uninstall \/ Prune
    BY <1>2, RollbackPlanKeeps, RepairKeeps, UninstallKeeps, PruneKeeps
  <1>3. CASE Kill \/ UseProject \/ Drift \/ UNCHANGED vars
    BY <1>3, KillKeeps, UseProjectKeeps, DriftKeeps, StutterKeeps
  <1> QED  BY <1>1, <1>2, <1>3 DEF Next

\* The link runs because what it leads to is kept, or was before the transaction.
LEMMA Runs ==
    ASSUME Parameters, IInv
    PROVE  LinkRuns
  <1> SUFFICES ASSUME cli \in Release, drifts = 0, journal # None => journal.kind = "install"
               PROVE  stage[cli] = "whole"
    BY DEF LinkRuns
  <1>1. CASE journal = None
    BY <1>1 DEF IInv, Disk, AtRest, Installable
  <1>2. CASE journal # None
    <2>1. journal.kind = "install" /\ journal \in Installation /\ journal.n \in Txn
      BY <1>2, Shapes DEF IInv
    <2>2. CASE fate[journal.n] = "kept" /\ pointer = journal.n /\ cli = journal.release
      <3>1. Installable(journal.n)
        BY <2>1, <2>2 DEF IInv, Disk, TargetsKept
      <3>2. receipts[journal.n].release = cli
        BY <1>2, <2>1, <2>2, <3>1 DEF IInv, Disk, Begun, Installable, Readable
      <3> QED  BY <3>1, <3>2 DEF Installable
    <2>3. CASE cli = journal.cli
      <3>1. Agree(cli, journal.pointer)
        BY <1>2, <2>1, <2>3 DEF IInv, Disk, Begun
      <3>2. journal.pointer \in Txn /\ receipts[journal.pointer].release = cli
        BY <2>1, <3>1 DEF Agree, Installation
      <3>3. fate[journal.pointer] = "kept"
        BY <1>2, <2>1, <3>2, Markers DEF IInv, Disk, Begun
      <3>4. Installable(journal.pointer)
        BY <3>2, <3>3 DEF IInv, Disk, TargetsKept
      <3> QED  BY <3>2, <3>4 DEF Installable
    <2> QED  BY <1>2, <2>1, <2>2, <2>3 DEF IInv, Disk, Begun
  <1> QED  BY <1>1, <1>2

-----------------------------------------------------------------------------
(* What will be installed.                                                 *)

\* The journal and the fate of its transaction say it.
Saying ==
    IF journal = None THEN pointer
    ELSE IF journal.kind = "uninstall" THEN None
    ELSE IF fate[journal.n] = "kept" THEN journal.n ELSE journal.pointer

LEMMA Recorded ==
    Parameters /\ IInv => Effective = Saying
  <1> SUFFICES ASSUME Parameters, IInv
               PROVE  Effective = Saying
    OBVIOUS
  <1>1. CASE journal = None
    BY <1>1 DEF Effective, Saying
  <1>2. CASE journal # None /\ journal.kind = "uninstall"
    BY <1>2 DEF Effective, Saying
  <1>3. CASE journal # None /\ journal.kind = "install"
    <2>1. journal.pointer # journal.n
      BY <1>3, Shapes, Markers DEF IInv, Disk, Begun
    <2>2. Committed <=> fate[journal.n] = "kept"
      BY <1>3, <2>1 DEF IInv, Disk, Begun, Committed
    <2> QED  BY <1>3, <2>2 DEF Effective, Saying
  <1> QED  BY <1>1, <1>2, <1>3, Shapes DEF IInv

\* A step that leaves the journal and fates alone does not change it.
LEMMA Quiet ==
    ASSUME Parameters, IInv, IInv', UNCHANGED <<journal, fate>>, journal = None => pointer' = pointer
    PROVE  Effective' = Effective
  <1>1. Effective = Saying
    BY Recorded
  <1>2. Parameters /\ IInv' => (Effective = Saying)'
    BY Recorded, PTL
  <1> QED  BY <1>1, <1>2 DEF Saying

\* The steps that change the journal or a fate.
Turning == InstallPlan \/ RollbackPlan \/ UninstallPlan \/ WritePointer \/ Unjournal \/ PrunePlan

\* No other step changes what is current at rest.
LEMMA Turns ==
    ASSUME Parameters, IInv, [Next]_vars, ~ Turning
    PROVE  UNCHANGED <<journal, fate>> /\ (journal = None => pointer' = pointer)
  <1>1. CASE Call \/ Return \/ Kill \/ UseProject \/ Drift \/ Repair \/ UNCHANGED vars
    BY <1>1 DEF Call, Begin, Return, Kill, UseProject, Drift, Repair, Step, vars, files
  <1>2. CASE Reconcile
    <2>1. RestorePointer => journal # None
      BY AtBackward DEF RestorePointer, Step, Backward
    <2> QED  BY <1>2, <2>1 DEF Turning, Reconcile, ReconcileNone, ReconcileRefused, ReconcileInstall,
               ReconcileUninstall, RestoreCli, RestorePointer, RestoreProject, RestoreRmdir,
               RestoreReceipt, RestoreStage, ClearMarker, files
  <1>3. CASE Install
    BY <1>3 DEF Turning, Install, Copy, Publish, Digest, WriteReceipt, SealReceipt, Link, Mkdir,
          WriteMarker, Doctor, Error, files
  <1>4. CASE Uninstall
    <2>1. RemovePointer => journal # None
      BY AtRemoving DEF RemovePointer, Step, Removing
    <2> QED  BY <1>4, <2>1 DEF Turning, Uninstall, RemoveStage, RemoveRest, RemoveCli, RemoveProject,
               RemovePointer
  <1>5. CASE Prune
    BY <1>5 DEF Turning, Prune, PruneDone, PruneStage, PruneReceipt, PruneNext, PruneStep, files
  <1> QED  BY <1>1, <1>2, <1>3, <1>4, <1>5 DEF Next, Turning

LEMMA Said ==
    ASSUME Parameters, IInv, IInv'
    PROVE  Effective = Saying /\ Effective' = Saying'
  <1>1. Effective = Saying
    BY Recorded
  <1>2. Parameters /\ IInv' => (Effective = Saying)'
    BY Recorded, PTL
  <1> QED  BY <1>1, <1>2

\* A new journal names what is current as what to go back to.
LEMMA JournalSays ==
    ASSUME Parameters, IInv, journal = None, NEW v, NEW own, NEW existed, Journal(v, own, existed),
           txns' \in Txn
    PROVE  Saying' = Saying
  <1>1. /\ txns' = txns + 1 /\ UNCHANGED <<fate, pointer>>
        /\ journal' = [kind |-> "install", n |-> txns', release |-> v, cli |-> cli,
                       pointer |-> pointer, existed |-> existed, marker |-> own]
    BY DEF Journal
  <1>2. fate[txns'] = "open"
    BY <1>1 DEF IInv, TypeOK, Disk, TxnsFit, Txn
  <1>3. journal'.kind = "install" /\ journal'.n = txns' /\ journal'.pointer = pointer
    BY <1>1
  <1>4. Saying' = pointer
    BY <1>1, <1>2, <1>3 DEF Saying
  <1> QED  BY <1>4 DEF Saying

LEMMA AllOrNothingStep ==
    ASSUME Parameters, IInv, IInv', [Next]_vars
    PROVE  AllOrNothing
  <1> USE Said
  <1>1. CASE ~ Turning
    BY <1>1, Turns, Quiet DEF AllOrNothing
  <1>2. CASE WritePointer
    <2>1. /\ pc = "pointer" /\ journal' = journal /\ journal # None /\ journal.kind = "install"
          /\ job.n = journal.n /\ journal.n \in Txn /\ fate' = [fate EXCEPT ![journal.n] = "kept"]
      BY <1>2, AtForward DEF WritePointer, Step, Forward
    <2>2. fate'[journal.n] = "kept"
      BY <2>1 DEF IInv, TypeOK
    <2>3. Saying' = job.n
      BY <2>1, <2>2 DEF Saying
    <2> QED  BY <2>1, <2>3 DEF AllOrNothing
  <1>3. CASE Unjournal
    <2>1. pc = "unjournal" /\ journal' = None /\ UNCHANGED <<cli, pointer>> /\ journal # None
      BY <1>3 DEF Unjournal, IInv, Control, Ending
    <2>2. Saying' = pointer
      BY <2>1 DEF Saying
    <2>3. CASE journal.kind = "uninstall"
      BY <2>1, <2>2, <2>3 DEF IInv, Control, Ending, Saying, AllOrNothing
    <2>4. CASE journal.kind = "install"
      BY <2>1, <2>2, <2>4, Markers DEF IInv, Disk, Begun, Saying, AllOrNothing
    <2> QED  BY <2>1, <2>3, <2>4, Shapes DEF IInv
  <1>4. CASE UninstallPlan
    <2>1. pc = "plan" /\ job.op = "uninstall"
      BY <1>4 DEF UninstallPlan
    <2>2. CASE UNCHANGED <<files, job, fate, txns, bounds>>
      BY <2>2 DEF files, Saying, AllOrNothing
    <2>3. CASE pc' = "u_stage" /\ journal' = [kind |-> "uninstall", n |-> job.n, purge |-> job.init]
      <3>1. journal' # None
        BY <2>3 DEF IInv, Control, GoingAway, Removing
      <3>2. Saying' = None
        BY <2>3, <3>1 DEF Saying
      <3> QED  BY <2>1, <3>2 DEF AllOrNothing
    <2> QED  BY <1>4, <2>2, <2>3 DEF UninstallPlan
  <1>5. CASE PrunePlan
    <2>1. UNCHANGED <<journal, pointer>> /\ journal = None
      BY <1>5 DEF PrunePlan, IInv, Control, Planning
    <2> QED  BY <2>1 DEF Saying, AllOrNothing
  <1>6. CASE InstallPlan \/ RollbackPlan
    <2>1. journal = None
      BY <1>6 DEF InstallPlan, RollbackPlan, IInv, Control, Planning
    <2>2. CASE UNCHANGED <<files, job, fate, txns, bounds>>
      BY <2>2 DEF files, Saying, AllOrNothing
    <2>3. ASSUME NEW v, NEW own, NEW existed, Journal(v, own, existed)
          PROVE  AllOrNothing
      <3>1. txns' \in Txn
        BY <2>3 DEF Journal, IInv, TypeOK, Txn
      <3> QED  BY <2>1, <2>3, <3>1, JournalSays DEF AllOrNothing
    <2> QED  BY <1>6, <2>2, <2>3 DEF InstallPlan, RollbackPlan
  <1> QED  BY <1>1, <1>2, <1>3, <1>4, <1>5, <1>6 DEF Turning

-----------------------------------------------------------------------------
(* What a failure leaves.                                                  *)

\* A call that failed while it carried out its plan holds what it found, and is about to
\* go back to it.
LEMMA Failing ==
    ASSUME IInv, job # None, job.why \notin {None, "clear", "unjournal"}, pc \notin {"ok", "failed"}
    PROVE  /\ job.then # "plan"
           /\ job.then = "failed" => fate[journal.n] = "open" /\ job.prior = <<journal.cli, journal.pointer>>
  BY DEF IInv, Control, Remembered

\* The steps at which a call fails.
LEMMA Fails ==
    ASSUME Parameters, IInv, [Next]_vars, pc # "failed", pc' = "failed"
    PROVE  /\ UNCHANGED <<cli, pointer, job>> /\ job # None /\ pc # "ok"
           /\ \/ job.then = "plan"
              \/ /\ job.then = "failed"
                 /\ \/ journal.cli \in Foreign \/ fate[journal.n] # "open"
                    \/ <<cli, pointer>> = <<journal.cli, journal.pointer>>
  <1> DEFINE Done == \/ journal.cli \in Foreign \/ fate[journal.n] # "open"
                     \/ <<cli, pointer>> = <<journal.cli, journal.pointer>>
             Goal == /\ UNCHANGED <<cli, pointer, job>> /\ job # None /\ pc # "ok"
                     /\ job.then = "plan" \/ (job.then = "failed" /\ Done)
  <1> SUFFICES Goal
    OBVIOUS
  <1>1. CASE Reconcile
    <2>1. CASE ReconcileNone
      <3>1. pc = "reconcile" /\ journal = None /\ UNCHANGED <<files, job>> /\ job # None
        BY <2>1, Shapes DEF ReconcileNone, IInv
      <3>2. job.then = "plan"
        BY <3>1 DEF IInv, Control, Remembered
      <3> QED  BY <3>1, <3>2 DEF files
    <2>2. CASE ReconcileRefused
      <3>1. pc = "reconcile" /\ journal.cli \in Foreign /\ UNCHANGED <<files, job>> /\ job # None
        BY <2>2, Shapes DEF ReconcileRefused, Step, IInv
      <3>2. job.then \in {"plan", "failed"}
        BY <3>1 DEF IInv, Control, Remembered
      <3> QED  BY <3>1, <3>2 DEF files
    <2>3. CASE RestoreRmdir
      <3>1. pc = "r_rmdir" /\ UNCHANGED <<cli, pointer, job>> /\ job # None
        BY <2>3, Shapes DEF RestoreRmdir, Step, IInv
      <3>2. job.then \in {"plan", "failed"} /\ cli = journal.cli /\ pointer = journal.pointer
        BY <3>1, AtBackward DEF Backward
      <3> QED  BY <3>1, <3>2
    <2>4. CASE Unjournal
      <3>1. pc = "unjournal" /\ job.then = "failed" /\ UNCHANGED <<cli, pointer, job>> /\ job # None
        BY <2>4, Shapes DEF Unjournal, IInv
      <3>2. job.op \in {"install", "rollback"}
        BY <3>1 DEF IInv, Control, Remembered
      <3>3. journal # None /\ journal.kind = "install"
        BY <3>1, <3>2 DEF IInv, Control, Remembered
      <3>4. fate[journal.n] = "open" => cli = journal.cli /\ pointer = journal.pointer
        BY <3>1, <3>3 DEF IInv, Disk, Begun, Control, Ending
      <3> QED  BY <3>1, <3>4
    <2>5. ~ ReconcileUninstall
      BY DEF ReconcileUninstall, Step, IInv, Disk, BegunRemoval
    <2>6. ~ ReconcileInstall /\ ~ RestoreCli /\ ~ RestorePointer /\ ~ RestoreProject
      BY DEF ReconcileInstall, RestoreCli, RestorePointer, RestoreProject, Step
    <2>7. ~ RestoreReceipt /\ ~ RestoreStage /\ ~ ClearMarker
      BY DEF RestoreReceipt, RestoreStage, ClearMarker, Step
    <2> QED  BY <1>1, <2>1, <2>2, <2>3, <2>4, <2>5, <2>6, <2>7 DEF Reconcile
  <1>2. CASE RollbackPlan \/ Repair \/ UninstallPlan
    <2>1. pc = "plan" /\ job # None /\ UNCHANGED job /\ UNCHANGED pointer
      BY <1>2, Shapes DEF RollbackPlan, Repair, UninstallPlan, Step, files, IInv
    <2>2. UNCHANGED cli
      BY <1>2 DEF RollbackPlan, Repair, UninstallPlan, Step, files
    <2>3. job.then = "plan"
      BY <2>1 DEF IInv, Control, Planning
    <2> QED  BY <2>1, <2>2, <2>3
  <1>3. ~ Call /\ ~ Return /\ ~ Kill /\ ~ UseProject /\ ~ Drift /\ ~ UNCHANGED vars
    BY DEF Call, Begin, Return, Kill, UseProject, Drift, vars
  <1>4. ~ Install
    BY DEF Install, InstallPlan, Copy, Publish, Digest, WriteReceipt, SealReceipt, Link, Mkdir,
           WriteMarker, Doctor, WritePointer, Error, Step
  <1>5. ~ Prune
    BY DEF Prune, PrunePlan, PruneDone, PruneStage, PruneReceipt, PruneNext, PruneStep
  <1>6. Uninstall => UninstallPlan
    BY DEF Uninstall, RemoveStage, RemoveRest, RemoveCli, RemoveProject, RemovePointer, Step
  <1> QED  BY <1>1, <1>2, <1>3, <1>4, <1>5, <1>6 DEF Next

LEMMA FailureRestoresStep ==
    ASSUME Parameters, IInv, [Next]_vars
    PROVE  FailureRestores
  <1> SUFFICES ASSUME pc # "failed", pc' = "failed", job'.why \notin {None, "clear", "unjournal"}
               PROVE  job'.prior[1] \in Foreign \/ <<cli', pointer'>> = job'.prior
    BY DEF FailureRestores
  <1>1. /\ UNCHANGED <<cli, pointer, job>> /\ job # None /\ pc # "ok"
        /\ \/ job.then = "plan"
           \/ /\ job.then = "failed"
              /\ \/ journal.cli \in Foreign \/ fate[journal.n] # "open"
                 \/ <<cli, pointer>> = <<journal.cli, journal.pointer>>
    BY Fails
  <1>2. fate[journal.n] = "open" /\ job.prior = <<journal.cli, journal.pointer>> /\ job.then = "failed"
    BY <1>1, Failing
  <1> QED  BY <1>1, <1>2

LEMMA ProjectKeptStep ==
    ASSUME Parameters, IInv, [Next]_vars
    PROVE  ProjectKept
  <1> DEFINE Made == project'.maker = project.maker
  <1>1. CASE Reconcile
    <2>1. RestoreRmdir => ProjectKept
      <3> SUFFICES ASSUME RestoreRmdir, project.maker # None, project'.maker # project.maker
                   PROVE  ~ project.data /\ project.maker # User
        BY DEF ProjectKept
      <3>1. pc = "r_rmdir" /\ ~ project.data
        BY DEF RestoreRmdir, Step
      <3>2. project.maker = journal.n /\ journal.n \in Txn
        BY <3>1, AtBackward DEF IInv, Control, GoingBack, Backward
      <3> QED  BY <3>1, <3>2, InstallAssumption DEF Txn
    <2>2. RestoreProject \/ ClearMarker => Made
      BY DEF RestoreProject, ClearMarker, IInv, TypeOK
    <2>3. Reconcile => RestoreRmdir \/ RestoreProject \/ ClearMarker \/ UNCHANGED project
      BY DEF Reconcile, ReconcileNone, ReconcileRefused, ReconcileInstall, ReconcileUninstall, RestoreCli,
             RestorePointer, RestoreReceipt, RestoreStage, Unjournal, files
    <2> QED  BY <1>1, <2>1, <2>2, <2>3 DEF ProjectKept
  <1>2. CASE Install
    <2>1. Mkdir => project.maker = None
      BY DEF Mkdir
    <2>2. WriteMarker => Made
      BY DEF WriteMarker, IInv, TypeOK
    <2>3. Install => Mkdir \/ WriteMarker \/ UNCHANGED project
      BY DEF Install, InstallPlan, Journal, Copy, Publish, Digest, WriteReceipt, SealReceipt, Link,
             Doctor, WritePointer, Error, files
    <2> QED  BY <1>2, <2>1, <2>2, <2>3 DEF ProjectKept
  <1>3. CASE Uninstall
    <2>1. RemoveProject => ProjectKept
      BY DEF RemoveProject, Step, ProjectKept
    <2>2. Uninstall => RemoveProject \/ UNCHANGED project
      BY DEF Uninstall, UninstallPlan, RemoveStage, RemoveRest, RemoveCli, RemovePointer, files
    <2> QED  BY <1>3, <2>1, <2>2 DEF ProjectKept
  <1>4. CASE UseProject
    BY <1>4 DEF UseProject, ProjectKept, IInv, TypeOK
  <1>5. CASE Call \/ Return \/ RollbackPlan \/ Repair \/ Prune \/ Kill \/ Drift \/ UNCHANGED vars
    BY <1>5 DEF Call, Begin, Return, RollbackPlan, Journal, Repair, Prune, PrunePlan, PruneDone, PruneStage,
          PruneReceipt, PruneNext, PruneStep, Kill, Drift, vars, files, ProjectKept
  <1> QED  BY <1>1, <1>2, <1>3, <1>4, <1>5 DEF Next

-----------------------------------------------------------------------------
(* What is proved.                                                         *)

LEMMA Invariance == ASSUME Parameters PROVE Spec => []IInv
  <1>1. IInv /\ [Next]_vars => IInv'
    BY StepKeeps
  <1> QED  BY <1>1, Initially, PTL DEF Spec

\* Files and calls keep their types; an installation's journal is the newest transaction's.
THEOREM TypeCorrect == ASSUME Parameters PROVE Spec => []TypeOK
  <1>1. IInv => TypeOK
    BY DEF IInv
  <1> QED  BY <1>1, Invariance, PTL

\* Wherever a call is killed or fails: at rest current.json and the link agree on one whole
\* installation, a committed transaction stays a target to roll back to until prune or uninstall
\* gives it up, and the link leads to a whole stage except during an uninstall
\* (reconcileInstallTransaction, setup/lifecycle.ts).
THEOREM Consistent == ASSUME Parameters PROVE Spec => [](AtRest /\ TargetsKept /\ LinkRuns)
  <1>1. IInv => AtRest /\ TargetsKept /\ LinkRuns
    BY Runs DEF IInv, Disk
  <1> QED  BY <1>1, Invariance, PTL

\* What will be installed once everything is reconciled changes only when a transaction writes
\* current.json and when an uninstall writes its journal (installOrUpdateUnlocked,
\* rollbackInstallationUnlocked, uninstallUnlocked).
THEOREM CommitsAtOnce == ASSUME Parameters PROVE Spec => [][AllOrNothing]_vars
  <1>1. IInv /\ IInv' /\ [Next]_vars => AllOrNothing
    BY AllOrNothingStep
  <1> QED  BY <1>1, Invariance, PTL DEF Spec

\* A call that failed before its commit leaves link and pointer as it found them, unless the link
\* led elsewhere (the catch of installOrUpdateUnlocked), and nothing but an empty .omcu of its own
\* is removed before --purge asks for more (removeTransactionOwnedProjectState).
THEOREM FailureLeavesNothing ==
    ASSUME Parameters PROVE Spec => [][FailureRestores /\ ProjectKept]_vars
  <1>1. IInv /\ [Next]_vars => FailureRestores /\ ProjectKept
    BY FailureRestoresStep, ProjectKeptStep
  <1> QED  BY <1>1, Invariance, PTL DEF Spec

-----------------------------------------------------------------------------
(* Programs on the other end of a pipe: the providers that "ask" starts    *)
(* (Pr), the server that setup probes (Pb) and the MCP server itself (Sv). *)

CONSTANTS Provider, MaxLines, MaxLine, MaxInput

VARIABLES
    mode, asked, signal, child, pipes, code, limits, killer, ending, alike, verdict, artifact, ended,
    server, pipe, probing, probeTimer, force, report, loop, wrote, deserted,
    stdin, chunk, held, discarding, strict, initialized, writing, open, serving, replies, input

Pr == INSTANCE ProviderRun WITH process <- child, timer <- limits, outcome <- ending
Pb == INSTANCE McpProbe WITH stage <- probing, timer <- probeTimer
Sv == INSTANCE McpServe

-----------------------------------------------------------------------------
(* ProviderRun.  What is told of a provider stays as it was when its child *)
(* had ended; a child that was given up has its killer before it.          *)

\* What is known of a provider, whatever is asked.
Provided(p) ==
    /\ ending[p] = "success" => child[p] = "exited" /\ code[p] = 0
    /\ Pr!Settled(p) /\ Pr!Alive(p) => killer[p] = "armed"

ProviderInv ==
    /\ DOMAIN ending = Provider /\ DOMAIN child = Provider /\ DOMAIN killer = Provider
    /\ DOMAIN code = Provider /\ asked \subseteq Provider
    /\ \A p \in Provider: Provided(p)
    /\ verdict \in {None, "full_consensus", "divergent", "partial_consensus", "failed"}
    /\ verdict # None => \A p \in asked: Pr!Settled(p)
    /\ verdict \in {"full_consensus", "divergent"} => \A p \in asked: child[p] = "exited" /\ code[p] = 0
    /\ verdict = "failed" => \A p \in asked: ending[p] # "success"
    /\ artifact \in {None, verdict}

\* A step of one provider that lets it be told truly, and takes back nothing of what was told.
LEMMA ProviderGoes ==
    ASSUME Pr!NoneFits, ProviderInv, NEW p \in Provider,
           DOMAIN ending' = Provider, DOMAIN child' = Provider, DOMAIN killer' = Provider, DOMAIN code' = Provider,
           \A q \in Provider: q # p => /\ ending'[q] = ending[q] /\ child'[q] = child[q]
                                      /\ killer'[q] = killer[q] /\ code'[q] = code[q],
           asked' = asked, verdict' = verdict, artifact' = artifact,
           Provided(p)',
           Pr!Settled(p) => Pr!Settled(p)' /\ (ending'[p] = "success" => ending[p] = "success"),
           child[p] = "exited" => child'[p] = "exited" /\ code'[p] = code[p]
    PROVE  ProviderInv'
  <1>1. ASSUME NEW q \in Provider PROVE Provided(q)'
    <2>1. CASE q = p
      BY <2>1
    <2>2. CASE q # p
      BY <2>2 DEF ProviderInv, Provided, Pr!Settled, Pr!Alive
    <2>  QED  BY <2>1, <2>2
  <1>2. ASSUME NEW q \in asked
        PROVE  /\ Pr!Settled(q) => Pr!Settled(q)' /\ (ending'[q] = "success" => ending[q] = "success")
               /\ child[q] = "exited" => child'[q] = "exited" /\ code'[q] = code[q]
    BY DEF ProviderInv, Pr!Settled
  <1>3. verdict # None => \A q \in asked: Pr!Settled(q)'
    BY <1>2 DEF ProviderInv
  <1>4. verdict \in {"full_consensus", "divergent"} => \A q \in asked: child'[q] = "exited" /\ code'[q] = 0
    BY <1>2 DEF ProviderInv
  <1>5. verdict = "failed" => \A q \in asked: ending'[q] # "success"
    <2>2. ASSUME verdict = "failed", NEW q \in asked PROVE ending'[q] # "success"
      <3>1. ending[q] # "success"
        BY <2>2 DEF ProviderInv
      <3>2. CASE Pr!Settled(q)
        BY <1>2, <3>1, <3>2
      <3>3. CASE ~ Pr!Settled(q)
        BY <2>2, <3>3 DEF ProviderInv, Pr!NoneFits
      <3>  QED  BY <3>2, <3>3
    <2>  QED  BY <2>2
  <1>  QED  BY <1>1, <1>3, <1>4, <1>5 DEF ProviderInv

LEMMA ProviderStarts == ASSUME Pr!NoneFits, Pr!Init PROVE ProviderInv
  BY DEF Pr!Init, Pr!NoneFits, ProviderInv, Provided, Pr!Settled, Pr!Alive

LEMMA ProviderActs ==
    ASSUME Pr!NoneFits, ProviderInv, NEW p \in Provider,
           \/ Pr!ExecuteRefused(p) \/ Pr!Execute(p) \/ Pr!Timeout(p) \/ Pr!Abort(p) \/ Pr!Kill(p)
           \/ Pr!Exit(p) \/ Pr!Close(p)
    PROVE  ProviderInv'
  <1>1. /\ DOMAIN ending = Provider /\ DOMAIN child = Provider /\ DOMAIN killer = Provider
        /\ DOMAIN code = Provider /\ Provided(p)
    BY DEF ProviderInv
  <1>2. asked' = asked /\ verdict' = verdict /\ artifact' = artifact
    BY DEF Pr!ExecuteRefused, Pr!Execute, Pr!Timeout, Pr!Abort, Pr!Kill, Pr!Exit, Pr!Close, Pr!Fixed
  <1>3. ASSUME NEW o, o \in {"timeout", "aborted"}, Pr!GiveUp(p, o) PROVE ProviderInv'
    <2>1. /\ ending' = [ending EXCEPT ![p] = o] /\ killer' = [killer EXCEPT ![p] = "armed"] /\ code' = code
          /\ child' = [child EXCEPT ![p] = IF @ = "obedient" THEN "ending" ELSE @]
      BY <1>3 DEF Pr!GiveUp, Pr!Settle, Pr!KillerAfter
    <2>2. /\ ending'[p] = o /\ killer'[p] = "armed" /\ code'[p] = code[p]
          /\ child'[p] = child[p] \/ child[p] = "obedient"
      BY <1>1, <2>1
    <2>3. Provided(p)' /\ Pr!Settled(p)'
      BY <1>3, <2>2 DEF Provided, Pr!Settled, Pr!NoneFits
    <2>4. child[p] = "exited" => child'[p] = "exited"
      BY <2>2
    <2>  QED  BY <1>1, <1>2, <1>3, <2>1, <2>2, <2>3, <2>4, ProviderGoes
  <1>4. CASE Pr!ExecuteRefused(p)
    <2>1. /\ ending' = [ending EXCEPT ![p] = "failed"] /\ killer' = killer /\ code' = code /\ child' = child
          /\ child[p] = "none" /\ ~ Pr!Settled(p)
      BY <1>4 DEF Pr!ExecuteRefused, Pr!Settle
    <2>2. Provided(p)'
      BY <1>1, <2>1 DEF Provided, Pr!Settled, Pr!Alive
    <2>  QED  BY <1>1, <1>2, <2>1, <2>2, ProviderGoes
  <1>5. CASE Pr!Execute(p)
    <2>1. PICK kind \in {"obedient", "stubborn"}: child' = [child EXCEPT ![p] = kind]
      BY <1>5 DEF Pr!Execute
    <2>2. ending' = ending /\ killer' = killer /\ code' = code /\ child[p] = "none" /\ ~ Pr!Settled(p)
      BY <1>5 DEF Pr!Execute
    <2>3. Provided(p)'
      BY <1>1, <2>1, <2>2 DEF Provided, Pr!Settled, Pr!NoneFits
    <2>4. child[p] # "exited"
      BY <2>2
    <2>  QED  BY <1>1, <1>2, <2>1, <2>2, <2>3, <2>4, ProviderGoes
  <1>6. CASE Pr!Timeout(p)
    BY <1>3, <1>6 DEF Pr!Timeout
  <1>7. CASE Pr!Abort(p)
    <2>1. CASE child[p] # "none" /\ ~ Pr!Settled(p)
      BY <1>3, <1>7, <2>1 DEF Pr!Abort
    <2>2. CASE ~ (child[p] # "none" /\ ~ Pr!Settled(p))
      <3>1. ending' = ending /\ killer' = killer /\ code' = code /\ child' = child
        BY <1>7, <2>2 DEF Pr!Abort
      <3>2. Provided(p)' /\ (Pr!Settled(p) => Pr!Settled(p)')
        BY <1>1, <3>1 DEF Provided, Pr!Settled, Pr!Alive
      <3>  QED  BY <1>1, <1>2, <3>1, <3>2, ProviderGoes
    <2>  QED  BY <2>1, <2>2
  <1>8. CASE Pr!Kill(p)
    <2>1. /\ ending' = ending /\ killer' = [killer EXCEPT ![p] = "fired"] /\ code' = code
          /\ child' = [child EXCEPT ![p] = IF Pr!Alive(p) \/ @ = "ending" THEN "killed" ELSE @]
      BY <1>8 DEF Pr!Kill
    <2>2. child'[p] = IF Pr!Alive(p) \/ child[p] = "ending" THEN "killed" ELSE child[p]
      BY <1>1, <2>1
    <2>3. child[p] = "exited" => child'[p] = "exited" /\ code'[p] = code[p]
      BY <2>1, <2>2 DEF Pr!Alive
    <2>4. ~ Pr!Alive(p)'
      BY <2>2 DEF Pr!Alive
    <2>5. Provided(p)' /\ (Pr!Settled(p) => Pr!Settled(p)')
      BY <1>1, <2>1, <2>3, <2>4 DEF Provided, Pr!Settled
    <2>  QED  BY <1>1, <1>2, <2>1, <2>3, <2>5, ProviderGoes
  <1>9. CASE Pr!Exit(p)
    <2>1. /\ ending' = ending /\ killer' = killer /\ child' = [child EXCEPT ![p] = "exited"]
          /\ child[p] # "exited" /\ \E c: code' = [code EXCEPT ![p] = c]
      BY <1>9 DEF Pr!Exit
    <2>2. Provided(p)' /\ (Pr!Settled(p) => Pr!Settled(p)')
      BY <1>1, <2>1 DEF Provided, Pr!Settled, Pr!Alive
    <2>  QED  BY <1>1, <1>2, <2>1, <2>2, ProviderGoes
  <1>10. CASE Pr!Close(p)
    <2>1. killer' = killer /\ child' = child /\ code' = code /\ child[p] = "exited"
      BY <1>10 DEF Pr!Close
    <2>2. CASE Pr!Settled(p)
      <3>1. ending' = ending
        BY <1>10, <2>2 DEF Pr!Close
      <3>2. Provided(p)' /\ (Pr!Settled(p) => Pr!Settled(p)')
        BY <1>1, <2>1, <3>1 DEF Provided, Pr!Settled, Pr!Alive
      <3>  QED  BY <1>1, <1>2, <2>1, <3>1, <3>2, ProviderGoes
    <2>3. CASE ~ Pr!Settled(p)
      <3>1. ending' = [ending EXCEPT ![p] = IF Pr!ExitCode(code[p]) = 0 THEN "success" ELSE "failed"]
        BY <1>10, <2>3 DEF Pr!Close, Pr!Settle
      <3>2. ending'[p] = "success" => code[p] = 0
        BY <1>1, <3>1 DEF Pr!ExitCode
      <3>3. Provided(p)'
        BY <1>1, <2>1, <3>2 DEF Provided, Pr!Alive
      <3>  QED  BY <1>1, <1>2, <2>1, <2>3, <3>1, <3>3, ProviderGoes
    <2>  QED  BY <2>2, <2>3
  <1>  QED  BY <1>4, <1>5, <1>6, <1>7, <1>8, <1>9, <1>10

LEMMA ProviderCompares == ASSUME Pr!NoneFits, ProviderInv, Pr!Compare PROVE ProviderInv'
  <1>1. /\ ending' = ending /\ child' = child /\ killer' = killer /\ code' = code /\ asked' = asked
        /\ verdict' = Pr!VerdictOf(Pr!Succeeded) /\ artifact' \in {None, verdict'}
        /\ \A p \in asked: Pr!Settled(p)
    BY DEF Pr!Compare
  <1>2. \A p \in Provider: Provided(p)'
    BY <1>1 DEF ProviderInv, Provided, Pr!Settled, Pr!Alive
  <1>3. verdict' \in {"full_consensus", "divergent", "partial_consensus", "failed"}
    BY <1>1 DEF Pr!VerdictOf
  <1>4. verdict' \in {"full_consensus", "divergent"} => \A p \in asked: child[p] = "exited" /\ code[p] = 0
    BY <1>1 DEF Pr!VerdictOf, Pr!Succeeded, ProviderInv, Provided
  <1>5. verdict' = "failed" => \A p \in asked: ending[p] # "success"
    BY <1>1 DEF Pr!VerdictOf, Pr!Succeeded
  <1>6. \A p \in asked: Pr!Settled(p)'
    BY <1>1 DEF Pr!Settled
  <1>  QED  BY <1>1, <1>2, <1>3, <1>4, <1>5, <1>6 DEF ProviderInv

LEMMA ProviderStepKeeps == ASSUME Pr!NoneFits, ProviderInv, [Pr!Next]_Pr!vars PROVE ProviderInv'
  <1>1. CASE Pr!End \/ UNCHANGED Pr!vars
    <2>1. /\ ending' = ending /\ child' = child /\ killer' = killer /\ code' = code /\ asked' = asked
          /\ verdict' = verdict /\ artifact' = artifact
      BY <1>1 DEF Pr!End, Pr!vars
    <2>2. \A p \in Provider: Provided(p)' /\ (Pr!Settled(p) <=> Pr!Settled(p)')
      BY <2>1 DEF ProviderInv, Provided, Pr!Settled, Pr!Alive
    <2>  QED  BY <2>1, <2>2 DEF ProviderInv
  <1>  QED  BY <1>1, ProviderActs, ProviderCompares DEF Pr!Next

LEMMA ProviderImplied == ASSUME Pr!NoneFits, ProviderInv PROVE Pr!AnswersHonest
  BY DEF ProviderInv, Provided, Pr!AnswersHonest

LEMMA ProviderInductive ==
    ASSUME Pr!NoneFits
    PROVE  /\ Pr!Init => ProviderInv
           /\ ProviderInv /\ [Pr!Next]_(Pr!vars) => ProviderInv'
           /\ ProviderInv => Pr!AnswersHonest
  BY ProviderStarts, ProviderStepKeeps, ProviderImplied

\* ProviderRun: success is told of a child that ended with 0 and only of such, a comparison
\* counts each provider for what it did, and a child that was given up is killed unless it ended.
THEOREM ProvidersToldTruly == ASSUME Pr!NoneFits PROVE Pr!Spec => []Pr!AnswersHonest
  BY ProviderInductive, PTL DEF Pr!Spec

-----------------------------------------------------------------------------
(* McpProbe.  Until there is a report, the pipe holds what was written     *)
(* last; who waits after it waits for a server that was told to end.       *)

Well(i) == [id |-> i, good |-> TRUE]

\* How many lines were read.
Heard == Len(wrote) - Len(pipe)

Listening ==
    /\ Len(pipe) <= Len(wrote)
    /\ \A i \in 1 .. Len(pipe): pipe[i] = wrote[Heard + i]
    /\ probing = "waiting_tools" => \E i \in 1 .. Heard: wrote[i] = Well(1)
    /\ probeTimer = TRUE /\ force = FALSE
    /\ server = "exited" => deserted
    /\ server # "killed"
    /\ loop \in {"waiting", "gone"}

Reported ==
    /\ report = "ok" => \E i, j \in DOMAIN wrote: i < j /\ wrote[i] = Well(1) /\ wrote[j] = Well(2)
    /\ loop = "waiting" => server \in {"up", "exited"} /\ (server = "up" => force)
    /\ loop = "answered" => server # "up"
    /\ loop # "gone"

ProbeInv ==
    /\ wrote \in Seq(Pb!Line) /\ pipe \in Seq(Pb!Line)
    /\ server \in {"none", "up", "exited", "killed"}
    /\ loop \in {"waiting", "answered", "gone"}
    /\ report = "none" => Listening
    /\ report # "none" => Reported
    /\ loop = "gone" => deserted /\ server = "exited"

LEMMA ProbeStarts == ASSUME Pb!Init PROVE ProbeInv
  <1>1. wrote = <<>> /\ pipe = <<>> /\ <<>> \in Seq(Pb!Line) /\ Len(<<>>) = 0
    BY EmptySeq DEF Pb!Init
  <1>  QED  BY <1>1 DEF Pb!Init, ProbeInv, Listening

LEMMA ProbeFinishes ==
    ASSUME ProbeInv, report = "none", loop = "waiting", NEW r \in {"ok", "failed", "timeout"}, Pb!Finish(r),
           server' = server, wrote' = wrote, deserted' = deserted, pipe' \in Seq(Pb!Line),
           r = "ok" => \E i, j \in DOMAIN wrote: i < j /\ wrote[i] = Well(1) /\ wrote[j] = Well(2)
    PROVE  ProbeInv'
  <1>1. report' = r /\ force' = (server = "up") /\ loop' = IF server = "up" THEN "waiting" ELSE "answered"
    BY DEF Pb!Finish
  <1>2. Reported'
    BY <1>1 DEF Reported, Well
  <1>  QED  BY <1>1, <1>2 DEF ProbeInv

\* A line that is read was the next to be read.
LEMMA NextLine ==
    ASSUME ProbeInv, report = "none", pipe # <<>>
    PROVE  /\ Head(pipe) \in Pb!Line /\ Heard + 1 \in DOMAIN wrote /\ wrote[Heard + 1] = Head(pipe)
           /\ Tail(pipe) \in Seq(Pb!Line) /\ Len(Tail(pipe)) = Len(pipe) - 1
           /\ \A i \in 1 .. Len(Tail(pipe)): Tail(pipe)[i] = pipe[i + 1]
           /\ Len(pipe) \in Nat \ {0} /\ Len(wrote) \in Nat /\ Heard \in Nat
  <1>1. Len(pipe) \in Nat \ {0} /\ Len(wrote) \in Nat /\ Len(pipe) <= Len(wrote)
    BY LenProperties, EmptySeq DEF ProbeInv, Listening
  <1>2. Head(pipe) = pipe[1] /\ pipe[1] \in Pb!Line
    BY <1>1, ElementOfSeq DEF ProbeInv
  <1>3. Heard \in Nat /\ Heard + 1 \in DOMAIN wrote
    BY <1>1, LenProperties DEF Heard, ProbeInv
  <1>4. wrote[Heard + 1] = pipe[1]
    BY <1>1 DEF ProbeInv, Listening
  <1>5. /\ Tail(pipe) \in Seq(Pb!Line) /\ Len(Tail(pipe)) = Len(pipe) - 1
        /\ \A i \in 1 .. Len(Tail(pipe)): Tail(pipe)[i] = pipe[i + 1]
    BY <1>1, HeadTailProperties DEF ProbeInv
  <1>  QED  BY <1>1, <1>2, <1>3, <1>4, <1>5

\* A line is read and nothing is reported.
LEMMA ProbeReads ==
    ASSUME ProbeInv, report = "none", pipe # <<>>, pipe' = Tail(pipe), wrote' = wrote,
           server' = server, probeTimer' = probeTimer, force' = force, report' = report, loop' = loop,
           deserted' = deserted,
           probing' # probing => Head(pipe) = Well(1)
    PROVE  ProbeInv'
  <1>1. /\ Heard + 1 \in DOMAIN wrote /\ wrote[Heard + 1] = Head(pipe)
        /\ Tail(pipe) \in Seq(Pb!Line) /\ Len(Tail(pipe)) = Len(pipe) - 1
        /\ \A i \in 1 .. Len(Tail(pipe)): Tail(pipe)[i] = pipe[i + 1]
        /\ Len(pipe) \in Nat \ {0} /\ Len(wrote) \in Nat /\ Heard \in Nat
    BY NextLine
  <1>2. Heard' = Heard + 1
    BY <1>1 DEF Heard
  <1>3. \A i \in 1 .. Len(pipe'): pipe'[i] = wrote[Heard + 1 + i]
    <2>1. ASSUME NEW i \in 1 .. Len(pipe') PROVE pipe'[i] = wrote[Heard + 1 + i]
      <3>1. i + 1 \in 1 .. Len(pipe) /\ pipe'[i] = pipe[i + 1] /\ Heard + (i + 1) = Heard + 1 + i
        BY <1>1
      <3>  QED  BY <3>1 DEF ProbeInv, Listening
    <2>  QED  BY <2>1
  <1>4. probing' = "waiting_tools" => \E i \in 1 .. Heard + 1: wrote[i] = Well(1)
    <2>1. CASE probing' = probing
      BY <1>1, <2>1 DEF ProbeInv, Listening
    <2>2. CASE probing' # probing
      BY <1>1, <2>2
    <2>  QED  BY <2>1, <2>2
  <1>5. Listening'
    <2>1. Len(pipe') <= Len(wrote)
      BY <1>1 DEF ProbeInv, Listening
    <2>2. (probing = "waiting_tools" => \E i \in 1 .. Heard: wrote[i] = Well(1))'
      BY <1>2, <1>4 DEF Well
    <2>  QED  BY <1>2, <1>3, <2>1, <2>2 DEF ProbeInv, Listening
  <1>  QED  BY <1>1, <1>5 DEF ProbeInv

LEMMA ProbeWrites == ASSUME ProbeInv, Pb!Write PROVE ProbeInv'
  <1>1. PICK l \in Pb!Line: wrote' = Append(wrote, l) /\ pipe' = IF report = "none" THEN Append(pipe, l) ELSE pipe
    BY DEF Pb!Write
  <1>2. /\ server' = server /\ probing' = probing /\ probeTimer' = probeTimer /\ force' = force
        /\ report' = report /\ loop' = loop /\ deserted' = deserted
    BY DEF Pb!Write
  <1>3. /\ wrote' \in Seq(Pb!Line) /\ Len(wrote') = Len(wrote) + 1 /\ Len(wrote) \in Nat
        /\ wrote'[Len(wrote) + 1] = l /\ \A i \in 1 .. Len(wrote): wrote'[i] = wrote[i]
        /\ DOMAIN wrote = 1 .. Len(wrote) /\ DOMAIN wrote' = 1 .. Len(wrote')
    BY <1>1, AppendProperties, LenProperties DEF ProbeInv
  <1>4. CASE report = "none"
    <2>1. /\ pipe' \in Seq(Pb!Line) /\ Len(pipe') = Len(pipe) + 1 /\ Len(pipe) \in Nat
          /\ pipe'[Len(pipe) + 1] = l /\ \A i \in 1 .. Len(pipe): pipe'[i] = pipe[i]
      BY <1>1, <1>4, AppendProperties, LenProperties DEF ProbeInv
    <2>2. Heard' = Heard /\ Heard \in Nat /\ Len(pipe) <= Len(wrote)
      BY <1>3, <1>4, <2>1 DEF Heard, ProbeInv, Listening
    <2>3. ASSUME NEW i \in 1 .. Len(pipe') PROVE pipe'[i] = wrote'[Heard + i]
      <3>1. CASE i = Len(pipe) + 1
        BY <1>3, <2>1, <3>1 DEF Heard
      <3>2. CASE i # Len(pipe) + 1
        <4>1. i \in 1 .. Len(pipe) /\ Heard + i \in 1 .. Len(wrote)
          BY <1>3, <2>1, <2>2, <3>2 DEF Heard
        <4>  QED  BY <1>3, <1>4, <2>1, <4>1 DEF ProbeInv, Listening
      <3>  QED  BY <3>1, <3>2
    <2>4. probing = "waiting_tools" => \E i \in 1 .. Heard: wrote'[i] = Well(1)
      <3>1. \A i \in 1 .. Heard: wrote'[i] = wrote[i]
        BY <1>3, <2>1, <2>2 DEF Heard
      <3>  QED  BY <1>4, <3>1 DEF ProbeInv, Listening
    <2>5. Listening'
      <3>1. Len(pipe') <= Len(wrote')
        BY <1>3, <2>1, <2>2
      <3>2. (probing = "waiting_tools" => \E i \in 1 .. Heard: wrote[i] = Well(1))'
        BY <1>2, <2>2, <2>4 DEF Well
      <3>  QED  BY <1>2, <1>4, <2>2, <2>3, <3>1, <3>2 DEF ProbeInv, Listening
    <2>  QED  BY <1>2, <1>3, <1>4, <2>1, <2>5 DEF ProbeInv
  <1>5. CASE report # "none"
    <2>1. Reported'
      <3>1. report = "ok" => \E i, j \in DOMAIN wrote': i < j /\ wrote'[i] = Well(1) /\ wrote'[j] = Well(2)
        <4>1. ASSUME report = "ok"
              PROVE  \E i, j \in DOMAIN wrote': i < j /\ wrote'[i] = Well(1) /\ wrote'[j] = Well(2)
          <5>1. PICK i, j \in DOMAIN wrote: i < j /\ wrote[i] = Well(1) /\ wrote[j] = Well(2)
            BY <1>5, <4>1 DEF ProbeInv, Reported
          <5>2. i \in DOMAIN wrote' /\ j \in DOMAIN wrote' /\ wrote'[i] = wrote[i] /\ wrote'[j] = wrote[j]
            BY <1>3
          <5>  QED  BY <5>1, <5>2
        <4>  QED  BY <4>1
      <3>2. (report = "ok" => \E i, j \in DOMAIN wrote: i < j /\ wrote[i] = Well(1) /\ wrote[j] = Well(2))'
        BY <1>2, <3>1 DEF Well
      <3>  QED  BY <1>2, <1>5, <3>2 DEF ProbeInv, Reported
    <2>  QED  BY <1>1, <1>2, <1>3, <1>5, <2>1 DEF ProbeInv
  <1>  QED  BY <1>4, <1>5

LEMMA LineIs ==
    ASSUME NEW l \in Pb!Line, l.good, NEW i \in {1, 2}, l.id = i
    PROVE  l = Well(i)
  <1>1. l \in [id: {1, 2}, good: BOOLEAN]
    BY DEF Pb!Line
  <1>  QED  BY <1>1 DEF Well

LEMMA ProbeStepKeeps == ASSUME ProbeInv, [Pb!Next]_Pb!vars PROVE ProbeInv'
  <1>1. CASE Pb!Spawn
    <2>1. /\ wrote' = wrote /\ pipe' = pipe /\ probing' = probing /\ probeTimer' = probeTimer /\ force' = force
          /\ report' = report /\ loop' = loop /\ deserted' = deserted /\ server' = "up"
          /\ loop = "waiting" /\ report = "none"
      BY <1>1 DEF Pb!Spawn, Pb!Waiting
    <2>2. Listening'
      BY <2>1 DEF ProbeInv, Listening, Heard, Well
    <2>  QED  BY <2>1, <2>2 DEF ProbeInv
  <1>2. CASE Pb!SpawnFails
    BY <1>2, ProbeFinishes DEF Pb!SpawnFails, Pb!Waiting, ProbeInv
  <1>3. CASE Pb!Write
    BY <1>3, ProbeWrites
  <1>4. CASE Pb!Exit
    <2>1. /\ wrote' = wrote /\ pipe' = pipe /\ probing' = probing /\ probeTimer' = probeTimer /\ force' = force
          /\ report' = report /\ loop' = loop /\ deserted' = (deserted \/ report = "none")
          /\ server' = "exited" /\ server = "up"
      BY <1>4 DEF Pb!Exit
    <2>2. CASE report = "none"
      <3>1. Listening'
        BY <2>1, <2>2 DEF ProbeInv, Listening, Heard, Well
      <3>  QED  BY <2>1, <2>2, <3>1 DEF ProbeInv
    <2>3. CASE report # "none"
      <3>1. Reported'
        BY <2>1, <2>3 DEF ProbeInv, Reported, Well
      <3>  QED  BY <2>1, <2>3, <3>1 DEF ProbeInv
    <2>  QED  BY <2>2, <2>3
  <1>5. CASE Pb!Ignored
    BY <1>5, ProbeReads DEF Pb!Ignored, Pb!Waiting
  <1>6. CASE Pb!Initialized
    <2>1. report = "none" /\ pipe # <<>> /\ Head(pipe).id = 1 /\ Head(pipe).good
      BY <1>6 DEF Pb!Initialized, Pb!Waiting
    <2>2. Head(pipe) = Well(1)
      BY <2>1, NextLine, LineIs
    <2>  QED  BY <1>6, <2>1, <2>2, ProbeReads DEF Pb!Initialized
  <1>7. CASE Pb!Listed
    <2>1. /\ report = "none" /\ loop = "waiting" /\ pipe # <<>> /\ Head(pipe).id = 2 /\ Head(pipe).good
          /\ probing = "waiting_tools" /\ pipe' = Tail(pipe) /\ Pb!Finish("ok")
          /\ server' = server /\ wrote' = wrote /\ deserted' = deserted
      BY <1>7 DEF Pb!Listed, Pb!Waiting
    <2>2. /\ Head(pipe) = Well(2) /\ Heard + 1 \in DOMAIN wrote /\ wrote[Heard + 1] = Well(2)
          /\ Tail(pipe) \in Seq(Pb!Line) /\ Heard \in Nat /\ Len(wrote) \in Nat
      BY <2>1, NextLine, LineIs
    <2>3. PICK i \in 1 .. Heard: wrote[i] = Well(1)
      BY <2>1 DEF ProbeInv, Listening
    <2>4. i \in DOMAIN wrote /\ i < Heard + 1
      BY <2>2, LenProperties DEF ProbeInv
    <2>5. \E k, j \in DOMAIN wrote: k < j /\ wrote[k] = Well(1) /\ wrote[j] = Well(2)
      BY <2>2, <2>3, <2>4
    <2>  QED  BY <2>1, <2>2, <2>5, ProbeFinishes
  <1>8. CASE Pb!BadAnswer
    <2>1. /\ report = "none" /\ loop = "waiting" /\ pipe # <<>>
          /\ pipe' = Tail(pipe) /\ Pb!Finish("failed")
          /\ server' = server /\ wrote' = wrote /\ deserted' = deserted
      BY <1>8 DEF Pb!BadAnswer, Pb!Waiting
    <2>2. Tail(pipe) \in Seq(Pb!Line)
      BY <2>1, NextLine
    <2>  QED  BY <2>1, <2>2, ProbeFinishes
  <1>9. CASE Pb!Timeout
    BY <1>9, ProbeFinishes DEF Pb!Timeout, Pb!Waiting, ProbeInv
  <1>10. CASE Pb!Ended
    <2>1. /\ wrote' = wrote /\ pipe' = pipe /\ report' = report /\ loop' = "answered"
          /\ deserted' = deserted /\ server' = server /\ server = "exited" /\ report # "none"
      BY <1>10 DEF Pb!Ended
    <2>2. Reported'
      BY <2>1 DEF ProbeInv, Reported, Well
    <2>  QED  BY <2>1, <2>2 DEF ProbeInv
  <1>11. CASE Pb!ForceKill
    <2>1. /\ wrote' = wrote /\ pipe' = pipe /\ report' = report /\ loop' = "answered"
          /\ deserted' = deserted /\ server' = IF server = "up" THEN "killed" ELSE server
          /\ force
      BY <1>11 DEF Pb!ForceKill
    <2>2. report # "none"
      BY <2>1 DEF ProbeInv, Listening
    <2>3. Reported'
      BY <2>1, <2>2 DEF ProbeInv, Reported, Well
    <2>  QED  BY <2>1, <2>2, <2>3 DEF ProbeInv
  <1>12. CASE Pb!Gone
    <2>1. /\ wrote' = wrote /\ pipe' = pipe /\ probing' = probing /\ probeTimer' = probeTimer /\ force' = force
          /\ report' = report /\ loop' = "gone" /\ deserted' = deserted /\ server' = server
          /\ server = "exited" /\ report = "none"
      BY <1>12 DEF Pb!Gone, Pb!Waiting
    <2>2. Listening'
      BY <2>1 DEF ProbeInv, Listening, Heard, Well
    <2>3. deserted
      BY <2>1 DEF ProbeInv, Listening
    <2>  QED  BY <2>1, <2>2, <2>3 DEF ProbeInv
  <1>13. CASE UNCHANGED Pb!vars
    BY <1>13 DEF Pb!vars, ProbeInv, Listening, Reported, Heard, Well
  <1>  QED  BY <1>1, <1>2, <1>3, <1>4, <1>5, <1>6, <1>7, <1>8, <1>9, <1>10, <1>11, <1>12, <1>13 DEF Pb!Next

LEMMA ProbeImplied == ASSUME ProbeInv PROVE Pb!ProbeTells
  <1>1. CASE report = "none"
    BY <1>1 DEF ProbeInv, Listening, Pb!ProbeTells
  <1>2. CASE report # "none"
    BY <1>2 DEF ProbeInv, Reported, Pb!ProbeTells, Well
  <1>  QED  BY <1>1, <1>2

LEMMA ProbeInductive ==
    /\ Pb!Init => ProbeInv
    /\ ProbeInv /\ [Pb!Next]_(Pb!vars) => ProbeInv'
    /\ ProbeInv => Pb!ProbeTells
  BY ProbeStarts, ProbeStepKeeps, ProbeImplied

\* McpProbe: a server is called healthy only after it has answered both requests well and in
\* their order, and when the command goes on the server has ended or was killed.
THEOREM ProbesTell == Pb!Spec => []Pb!ProbeTells
  BY ProbeInductive, PTL DEF Pb!Spec

-----------------------------------------------------------------------------
(* McpServe.  What was taken from the chunks is a beginning of the input;  *)
(* the lines that ended in it were told, and the one that is skipped.      *)

\* A line has at least one byte (MAX_MCP_LINE_BYTES).
ServeParameters == MaxLine \in Nat \ {0}

Codes == {"none", "result", "E_MCP_NOT_INITIALIZED", "E_MCP_LINE_TOO_LARGE", "E_MCP_PARSE_ERROR"}

Byte == Sv!Message \cup {Sv!Newline}

\* How many bytes were taken.
Taken == Len(input) - (Len(chunk) + Len(stdin))

Fed ==
    /\ input \in Seq(Byte) /\ chunk \in Seq(Byte) /\ stdin \in Seq(Byte)
    /\ Len(chunk) + Len(stdin) <= Len(input)
    /\ \A i \in 1 .. Len(chunk): chunk[i] = input[Taken + i]
    /\ \A i \in 1 .. Len(stdin): stdin[i] = input[Taken + Len(chunk) + i]

\* No newline from i to j.
Plain(i, j) == \A k \in i .. j: input[k] # Sv!Newline

\* A line begins after b.
Begins(b) == b \in 0 .. Len(input) /\ (b = 0 \/ input[b] = Sv!Newline)

\* Of the lines that are answered, those that end by t.
Upto(t) == {e \in Sv!Answered: e <= t}

\* The answers are those of the first lines.
InOrder ==
    \A k \in DOMAIN replies: \E e \in Sv!Answered:
        Cardinality(Upto(e)) = k /\ replies[k] = Sv!ReplyAt(e)

Opening(d) == d \in Sv!LineEnds /\ Sv!LineAt(d) = <<"initialize">>

\* All lines that end by t were told.
Told(t) ==
    /\ Len(replies) = Cardinality(Upto(t))
    /\ \A d \in Sv!LineEnds: d <= t /\ Opening(d) => initialized
    /\ strict /\ initialized => \E d \in Sv!LineEnds: d <= t /\ Opening(d)

\* The line that begins after b is held, or skipped up to e, or was the last.
Holding ==
    \E b \in 0 .. Taken:
        /\ Begins(b) /\ Plain(b + 1, Taken)
        /\ ~ discarding /\ held = SubSeq(input, b + 1, Taken) /\ Taken - b <= MaxLine
        /\ Told(Taken)

Skipping ==
    \E b \in 0 .. Taken, e \in Sv!LineEnds:
        /\ Begins(b) /\ b < e /\ Taken < e /\ Plain(b + 1, e - 1)
        /\ discarding /\ held = <<>> /\ Taken - b > MaxLine
        /\ Told(e)

Through ==
    /\ Taken = Len(input) /\ ~ discarding /\ held = <<>>
    /\ Told(Len(input) + 1)

Final == open => Len(replies) = Cardinality(Sv!Answered)

ServeInv ==
    /\ Fed /\ InOrder /\ replies \in Seq(Codes)
    /\ Len(held) <= MaxLine
    /\ serving # "end" => Holding \/ Skipping \/ Through
    /\ serving = "end" => Final

-----------------------------------------------------------------------------
\* A set of natural numbers has a least one.
LEMMA Least ==
    ASSUME NEW T \in SUBSET Nat, T # {}
    PROVE  \E m \in T : \A y \in T : m <= y
  <1> DEFINE R == {ss \in Nat \X Nat : ss[1] < ss[2]}
  <1>1. IsWellFoundedOn(R, Nat)
    BY NatLessThanWellFounded DEF OpToRel
  <1>2. \A y, m \in Nat : y < m => <<y, m>> \in R
    OBVIOUS
  <1> HIDE DEF R
  <1>3. PICK m \in T : \A y \in T : ~ (<<y, m>> \in R)
    BY <1>1, WFMin
  <1>4. ASSUME NEW y \in T PROVE m <= y
    <2>1. ~ (y < m)
      BY <1>2, <1>3, <1>4
    <2> QED  BY <2>1
  <1> QED  BY <1>4

\* Lines.

LEMMA LinesEnd ==
    ASSUME input \in Seq(Byte)
    PROVE  /\ Len(input) \in Nat /\ DOMAIN input = 1 .. Len(input)
           /\ Sv!LineEnds = {i \in 1 .. Len(input): input[i] = Sv!Newline} \cup {Len(input) + 1}
           /\ Sv!LineEnds \subseteq 1 .. Len(input) + 1
           /\ Sv!Answered \subseteq 1 .. Len(input) + 1
           /\ IsFiniteSet(Sv!Answered)
  <1>1. Len(input) \in Nat /\ DOMAIN input = 1 .. Len(input)
    BY LenProperties
  <1>2. Sv!LineEnds = {i \in 1 .. Len(input): input[i] = Sv!Newline} \cup {Len(input) + 1}
    BY <1>1 DEF Sv!LineEnds
  <1>3. Sv!LineEnds \subseteq 1 .. Len(input) + 1
    BY <1>1, <1>2
  <1>4. Sv!Answered \subseteq 1 .. Len(input) + 1
    BY <1>3 DEF Sv!Answered
  <1>5. IsFiniteSet(1 .. Len(input) + 1)
    BY <1>1, FS_Interval
  <1>  QED  BY <1>1, <1>2, <1>3, <1>4, <1>5, FS_Subset

LEMMA ServedLineIs ==
    ASSUME input \in Seq(Byte), NEW e \in Sv!LineEnds, NEW b, Begins(b), b < e, Plain(b + 1, e - 1)
    PROVE  /\ Sv!LineAt(e) = SubSeq(input, b + 1, e - 1)
           /\ Sv!LineAt(e) \in Seq(Byte) /\ Len(Sv!LineAt(e)) = e - 1 - b
           /\ \A i \in DOMAIN Sv!LineAt(e): Sv!LineAt(e)[i] \in Sv!Message
  <1>1. e \in 1 .. Len(input) + 1 /\ Len(input) \in Nat /\ b \in Nat /\ e \in Nat
    BY LinesEnd DEF Begins
  <1> DEFINE P(c) == (c = 0 \/ input[c] = Sv!Newline) /\ Plain(c + 1, e - 1)
  <1>2. b \in 0 .. e - 1 /\ P(b)
    BY <1>1 DEF Begins
  <1>3. ASSUME NEW c \in 0 .. e - 1, P(c) PROVE c = b
    <2>1. c < b => b \in c + 1 .. e - 1 /\ input[b] = Sv!Newline
      BY <1>1, <1>2
    <2>2. b < c => c \in b + 1 .. e - 1 /\ input[c] = Sv!Newline
      BY <1>1, <1>3
    <2>  QED  BY <1>1, <1>2, <1>3, <2>1, <2>2 DEF Plain
  <1>4. b = CHOOSE c \in 0 .. e - 1: P(c)
    <2> HIDE DEF P
    <2>  QED  BY <1>2, <1>3
  <1>5. Sv!LineAt(e) = SubSeq(input, b + 1, e - 1)
    BY <1>4 DEF Sv!LineAt, Plain
  <1>6. /\ SubSeq(input, b + 1, e - 1) \in Seq(Byte) /\ Len(SubSeq(input, b + 1, e - 1)) = e - 1 - b
        /\ \A i \in 1 .. e - 1 - b: SubSeq(input, b + 1, e - 1)[i] = input[b + i]
    <2>1. b + 1 \in 1 .. e /\ e - 1 \in b .. Len(input)
      BY <1>1, <1>2
    <2>2. \A i \in 1 .. e - 1 - b: (b + 1) + i - 1 = b + i
      BY <1>1
    <2>  QED  BY <1>1, <2>1, <2>2, SubSeqProperties
  <1>7. ASSUME NEW i \in 1 .. e - 1 - b PROVE input[b + i] \in Sv!Message
    <2>1. b + i \in b + 1 .. e - 1 /\ b + i \in 1 .. Len(input)
      BY <1>1, <1>2
    <2>2. input[b + i] \in Byte /\ input[b + i] # Sv!Newline
      BY <2>1, ElementOfSeq DEF Plain
    <2>  QED  BY <2>2 DEF Byte
  <1>8. DOMAIN SubSeq(input, b + 1, e - 1) = 1 .. e - 1 - b
    BY <1>6, LenProperties
  <1>  QED  BY <1>5, <1>6, <1>7, <1>8

\* The answers are a matter of what is sent.
LEMMA LinesStay ==
    ASSUME input' = input, strict' = strict
    PROVE  /\ Sv!LineEnds' = Sv!LineEnds /\ Sv!Answered' = Sv!Answered
           /\ \A e: Sv!LineAt(e)' = Sv!LineAt(e) /\ Sv!ReplyAt(e)' = Sv!ReplyAt(e)
           /\ \A e: (Opening(e) <=> Opening(e)') /\ Upto(e)' = Upto(e)
           /\ \A b: Begins(b)' <=> Begins(b)
           /\ \A i, j: Plain(i, j)' <=> Plain(i, j)
  <1>1. Sv!LineEnds' = Sv!LineEnds
    BY DEF Sv!LineEnds
  <1>2. \A e: Sv!LineAt(e)' = Sv!LineAt(e)
    BY DEF Sv!LineAt
  <1>3. \A e: Sv!ReplyAt(e)' = Sv!ReplyAt(e)
    BY <1>1, <1>2 DEF Sv!ReplyAt, Sv!Reply, Sv!Answer
  <1>4. Sv!Answered' = Sv!Answered
    BY <1>1, <1>3 DEF Sv!Answered
  <1>5. \A e: (Opening(e) <=> Opening(e)') /\ Upto(e)' = Upto(e)
    BY <1>1, <1>2, <1>4 DEF Opening, Upto
  <1>  QED  BY <1>1, <1>2, <1>3, <1>4, <1>5 DEF Begins, Plain

\* What is told by t is told by u when no line ends in between.
LEMMA NoneEnds ==
    ASSUME input \in Seq(Byte), NEW t \in Nat, NEW u \in Nat, t <= u, u <= Len(input), Plain(t + 1, u)
    PROVE  /\ \A e \in Sv!LineEnds: e <= u <=> e <= t
           /\ Upto(u) = Upto(t)
  <1>1. ASSUME NEW e \in Sv!LineEnds, e <= u PROVE e <= t
    <2>1. e \in 1 .. Len(input) + 1 /\ Len(input) \in Nat
      BY LinesEnd
    <2>2. input[e] = Sv!Newline
      BY <1>1, <2>1, LinesEnd
    <2>  QED  BY <1>1, <2>1, <2>2 DEF Plain
  <1>2. \A e \in Sv!LineEnds: e <= t => e <= u
    BY LinesEnd
  <1>  QED  BY <1>1, <1>2 DEF Upto, Sv!Answered

-----------------------------------------------------------------------------
\* A line is served: e is the next end after t.
LEMMA Serves ==
    ASSUME ServeParameters, Fed, InOrder, serving = "read", replies \in Seq(Codes),
           NEW t \in Nat, Told(t), NEW e \in Sv!LineEnds, t < e,
           \A d \in Sv!LineEnds: d <= e => d <= t \/ d = e,
           NEW line, NEW long \in BOOLEAN, long <=> Len(Sv!LineAt(e)) > MaxLine, ~ long => line = Sv!LineAt(e),
           Sv!LineAt(e) \in Seq(Byte) /\ \A i \in DOMAIN Sv!LineAt(e): Sv!LineAt(e)[i] \in Sv!Message,
           Sv!Serve(line, long), input' = input, strict' = strict, open' = open
    PROVE  /\ InOrder'
           /\ replies' \in Seq(Codes)
           /\ serving' # "end" => Told(e)'
           /\ serving' = "end" => Final'
  <1> DEFINE reply == Sv!Reply(line, long, initialized)
  <1>1. Len(Sv!LineAt(e)) \in Nat /\ DOMAIN Sv!LineAt(e) = 1 .. Len(Sv!LineAt(e))
    BY LenProperties
  <1>2. Len(Sv!LineAt(e)) = 1 => Sv!LineAt(e)[1] \in Sv!Message /\ Sv!LineAt(e) = <<Sv!LineAt(e)[1]>>
    <2>1. ASSUME Len(Sv!LineAt(e)) = 1 PROVE Sv!LineAt(e) = <<Sv!LineAt(e)[1]>>
      <3>1. Sv!LineAt(e) \in Seq(Byte) /\ <<Sv!LineAt(e)[1]>> \in Seq({Sv!LineAt(e)[1]})
        OBVIOUS
      <3>  QED  BY <2>1, SeqEqual
    <2>  QED  BY <1>1, <2>1
  <1>3. reply = Sv!ReplyAt(e)
    <2> DEFINE ready == \E d \in Sv!LineEnds: d < e /\ Sv!LineAt(d) = <<"initialize">>
    <2>1. ready => initialized
      <3>1. ASSUME NEW d \in Sv!LineEnds, d < e, Sv!LineAt(d) = <<"initialize">> PROVE initialized
        <4>1. d <= e /\ d # e
          BY <3>1, LinesEnd DEF Fed
        <4>2. d <= t
          BY <4>1
        <4>  QED  BY <3>1, <4>2 DEF Told, Opening
      <3>  QED  BY <3>1
    <2>2. strict /\ initialized => ready
      <3>1. ASSUME strict, initialized PROVE ready
        <4>1. PICK d \in Sv!LineEnds: d <= t /\ Opening(d)
          BY <3>1 DEF Told
        <4>2. d < e
          BY <4>1, LinesEnd DEF Fed
        <4>  QED  BY <4>1, <4>2 DEF Opening
      <3>  QED  BY <3>1
    <2>3. Sv!ReplyAt(e) = Sv!Reply(Sv!LineAt(e), long, ready)
      <3>1. (Len(Sv!LineAt(e)) > MaxLine) = long
        OBVIOUS
      <3>2. Sv!ReplyAt(e) = Sv!Reply(Sv!LineAt(e), Len(Sv!LineAt(e)) > MaxLine, ready)
        BY DEF Sv!ReplyAt
      <3>  QED  BY <3>1, <3>2
    <2> HIDE DEF ready
    <2>4. CASE long
      BY <2>3, <2>4 DEF Sv!Reply
    <2>5. CASE ~ long /\ Len(Sv!LineAt(e)) # 1
      BY <2>3, <2>5 DEF Sv!Reply
    <2>6. CASE ~ long /\ Len(Sv!LineAt(e)) = 1
      <3>1. Sv!LineAt(e)[1] \in Sv!Message /\ Sv!LineAt(e) # <<>> /\ line = Sv!LineAt(e)
        BY <1>2, <2>6
      <3>2. Sv!Answer(line[1], initialized) = Sv!Answer(line[1], ready)
        BY <2>1, <2>2, <3>1 DEF Sv!Answer, Sv!Message
      <3>  QED  BY <2>3, <2>6, <3>1, <3>2 DEF Sv!Reply
    <2>  QED  BY <2>4, <2>5, <2>6
  <1>4. reply \in Codes
    <2>1. CASE ~ long /\ Len(Sv!LineAt(e)) = 1
      BY <1>2, <2>1 DEF Sv!Reply, Sv!Answer, Sv!Message, Codes
    <2>2. CASE ~ (~ long /\ Len(Sv!LineAt(e)) = 1)
      BY <2>2 DEF Sv!Reply, Codes
    <2>  QED  BY <2>1, <2>2
  <1>5. initialized' = Sv!ReadyAfter(line, long, initialized)
    BY DEF Sv!Serve
  <1>6. Opening(e) => initialized'
    <2>1. ASSUME Opening(e) PROVE initialized'
      <3>1. Len(Sv!LineAt(e)) = 1 /\ Sv!LineAt(e)[1] = "initialize"
        BY <2>1 DEF Opening
      <3>2. ~ long /\ line = Sv!LineAt(e)
        BY <3>1 DEF ServeParameters
      <3>  QED  BY <1>5, <3>1, <3>2 DEF Sv!ReadyAfter, Sv!Ready
    <2>  QED  BY <2>1
  <1>7. initialized => initialized'
    BY <1>5 DEF Sv!ReadyAfter, Sv!Ready
  <1>8. strict /\ initialized' => initialized \/ Opening(e)
    <2>1. ASSUME strict, initialized', ~ initialized PROVE Opening(e)
      <3>1. ~ long /\ Len(line) = 1 /\ line[1] = "initialize"
        BY <1>5, <2>1 DEF Sv!ReadyAfter, Sv!Ready
      <3>  QED  BY <1>2, <3>1 DEF Opening
    <2>  QED  BY <2>1
  <1>9. /\ \A d \in Sv!LineEnds: d <= e /\ Opening(d) => initialized'
        /\ strict /\ initialized' => \E d \in Sv!LineEnds: d <= e /\ Opening(d)
    <2>1. ASSUME NEW d \in Sv!LineEnds, d <= e, Opening(d) PROVE initialized'
      <3>1. CASE d <= t
        BY <1>7, <2>1, <3>1 DEF Told
      <3>2. CASE d = e
        BY <1>6, <2>1, <3>2
      <3>  QED  BY <2>1, <3>1, <3>2
    <2>2. ASSUME strict, initialized' PROVE \E d \in Sv!LineEnds: d <= e /\ Opening(d)
      <3>1. CASE initialized
        <4>1. PICK d \in Sv!LineEnds: d <= t /\ Opening(d)
          BY <2>2, <3>1 DEF Told
        <4>2. d <= e
          BY <4>1, LinesEnd DEF Fed
        <4>  QED  BY <4>1, <4>2
      <3>2. CASE Opening(e)
        <4>1. e <= e
          BY LinesEnd DEF Fed
        <4>  QED  BY <3>2, <4>1
      <3>  QED  BY <1>8, <2>2, <3>1, <3>2
    <2>  QED  BY <2>1, <2>2
  <1> HIDE DEF reply
  <1>10. CASE reply = "none"
    <2>1. serving' = serving /\ replies' = replies
      BY <1>10 DEF Sv!Serve, reply
    <2>2. Upto(e) = Upto(t)
      <3>1. e \notin Sv!Answered
        BY <1>3, <1>10 DEF Sv!Answered
      <3>2. \A d \in Sv!Answered: d <= e <=> d <= t
        <4>1. ASSUME NEW d \in Sv!Answered PROVE d <= e <=> d <= t
          <5>1. d \in Sv!LineEnds /\ d # e
            BY <3>1 DEF Sv!Answered
          <5>  QED  BY <5>1, LinesEnd DEF Fed
        <4>  QED  BY <4>1
      <3>  QED  BY <3>2 DEF Upto
    <2>3. InOrder'
      BY <2>1, LinesStay DEF InOrder
    <2>4. Told(e)'
      BY <1>9, <2>1, <2>2, LinesStay DEF Told
    <2>  QED  BY <2>1, <2>3, <2>4
  <1>11. CASE reply # "none" /\ ~ open
    <2>1. serving' = "end" /\ replies' = replies
      BY <1>11 DEF Sv!Serve, reply
    <2>2. InOrder'
      BY <2>1, LinesStay DEF InOrder
    <2>  QED  BY <1>11, <2>1, <2>2 DEF Final
  <1>12. CASE reply # "none" /\ open
    <2>1. serving' = "write" /\ replies' = Append(replies, reply)
      BY <1>12 DEF Sv!Serve, reply
    <2>2. e \in Sv!Answered /\ e \notin Upto(t) /\ t \in Nat /\ e \in Nat
      BY <1>3, <1>12, LinesEnd DEF Sv!Answered, Upto, Fed
    <2>3. Upto(e) = Upto(t) \cup {e}
      <3>1. \A d \in Sv!Answered: d <= e <=> d <= t \/ d = e
        <4>1. ASSUME NEW d \in Sv!Answered PROVE d <= e <=> d <= t \/ d = e
          <5>1. d \in Sv!LineEnds
            BY DEF Sv!Answered
          <5>  QED  BY <5>1, LinesEnd DEF Fed
        <4>  QED  BY <4>1
      <3>  QED  BY <2>2, <3>1 DEF Upto
    <2>4. IsFiniteSet(Upto(t))
      BY LinesEnd, FS_Subset DEF Upto, Fed
    <2>5. Cardinality(Upto(e)) = Cardinality(Upto(t)) + 1
      BY <2>2, <2>3, <2>4, FS_AddElement
    <2>6. /\ Len(replies') = Len(replies) + 1 /\ replies' \in Seq(Codes) /\ Len(replies) \in Nat
          /\ \A k \in 1 .. Len(replies): replies'[k] = replies[k] /\ k \in DOMAIN replies
          /\ replies'[Len(replies) + 1] = reply /\ DOMAIN replies' = 1 .. Len(replies')
      BY <1>4, <2>1, AppendProperties, LenProperties
    <2>7. InOrder'
      <3>1. ASSUME NEW k \in DOMAIN replies'
            PROVE  \E d \in Sv!Answered: Cardinality(Upto(d)) = k /\ replies'[k] = Sv!ReplyAt(d)
        <4>1. CASE k = Len(replies) + 1
          BY <1>3, <2>2, <2>5, <2>6, <4>1 DEF Told
        <4>2. CASE k # Len(replies) + 1
          <5>1. k \in 1 .. Len(replies)
            BY <2>6, <4>2
          <5>  QED  BY <2>6, <5>1 DEF InOrder
        <4>  QED  BY <4>1, <4>2
      <3>  QED  BY <3>1, LinesStay DEF InOrder
    <2>8. Len(replies') = Cardinality(Upto(e))
      BY <2>5, <2>6 DEF Told
    <2>9. Told(e)'
      BY <1>9, <2>8, LinesStay DEF Told
    <2>  QED  BY <2>1, <2>6, <2>7, <2>9
  <1>  QED  BY <1>10, <1>11, <1>12

-----------------------------------------------------------------------------
\* The chunk.

LEMMA LineEndIs ==
    ASSUME chunk \in Seq(Byte)
    PROVE  /\ Sv!LineEnd \in 0 .. Len(chunk)
           /\ Sv!LineEnd # 0 => chunk[Sv!LineEnd] = Sv!Newline
           /\ \A i \in 1 .. Len(chunk): Sv!LineEnd = 0 \/ i < Sv!LineEnd => chunk[i] # Sv!Newline
  <1> DEFINE I == {i \in 1 .. Len(chunk): chunk[i] = Sv!Newline}
  <1>1. Sv!LineEnd = IF I # {} THEN CHOOSE x \in I: \A y \in I: x <= y ELSE 0
    BY DEF Sv!LineEnd, Sv!SelectInSeq, Sv!Min
  <1>2. I \in SUBSET Nat
    OBVIOUS
  <1>3. I # {} => \E x \in I: \A y \in I: x <= y
    BY <1>2, Least
  <1>4. I # {} => Sv!LineEnd \in I /\ \A y \in I: Sv!LineEnd <= y
    <2> HIDE DEF I
    <2>  QED  BY <1>1, <1>3
  <1>5. Len(chunk) \in Nat
    BY LenProperties
  <1>6. CASE I = {}
    <2>1. \A i \in 1 .. Len(chunk): chunk[i] # Sv!Newline
      BY <1>6
    <2>  QED  BY <1>1, <1>5, <1>6, <2>1
  <1>7. CASE I # {}
    <2>1. Sv!LineEnd \in 1 .. Len(chunk) /\ chunk[Sv!LineEnd] = Sv!Newline
      BY <1>4, <1>7
    <2>2. \A i \in 1 .. Len(chunk): i < Sv!LineEnd => chunk[i] # Sv!Newline
      BY <1>4, <1>5, <1>7
    <2>  QED  BY <1>5, <2>1, <2>2
  <1>  QED  BY <1>6, <1>7

\* n bytes are taken from the chunk.
LEMMA Feeds ==
    ASSUME Fed, NEW n \in 1 .. Len(chunk), input' = input, stdin' = stdin,
           chunk' = SubSeq(chunk, n + 1, Len(chunk)) \/ (n = Len(chunk) /\ chunk' = <<>>)
    PROVE  /\ Fed' /\ Taken' = Taken + n /\ Taken \in Nat /\ Taken + n <= Len(input)
           /\ \A i \in 1 .. n: input[Taken + i] = chunk[i]
  <1>1. Len(input) \in Nat /\ Len(chunk) \in Nat /\ Len(stdin) \in Nat /\ n \in Nat
    BY LenProperties DEF Fed
  <1>2. /\ chunk' \in Seq(Byte) /\ Len(chunk') = Len(chunk) - n
        /\ \A i \in 1 .. Len(chunk) - n: chunk'[i] = chunk[n + i]
    <2>1. CASE chunk' = SubSeq(chunk, n + 1, Len(chunk))
      <3>1. n + 1 \in 1 .. Len(chunk) + 1 /\ Len(chunk) \in n + 1 - 1 .. Len(chunk)
        BY <1>1
      <3>2. \A i \in 1 .. Len(chunk) - n: (n + 1) + i - 1 = n + i
        BY <1>1
      <3>3. Len(chunk) - (n + 1) + 1 = Len(chunk) - n
        BY <1>1
      <3>  QED  BY <1>1, <2>1, <3>1, <3>2, <3>3, SubSeqProperties DEF Fed
    <2>2. CASE n = Len(chunk) /\ chunk' = <<>>
      BY <1>1, <2>2, EmptySeq
    <2>  QED  BY <2>1, <2>2
  <1>3. Taken' = Taken + n /\ Taken \in Nat /\ Taken + n <= Len(input)
    BY <1>1, <1>2 DEF Taken, Fed
  <1>4. \A i \in 1 .. Len(chunk'): chunk'[i] = input[Taken' + i]
    <2>1. ASSUME NEW i \in 1 .. Len(chunk') PROVE chunk'[i] = input[Taken' + i]
      <3>1. chunk'[i] = chunk[n + i] /\ n + i \in 1 .. Len(chunk) /\ Taken' + i = Taken + (n + i)
        BY <1>1, <1>2, <1>3
      <3>  QED  BY <3>1 DEF Fed
    <2>  QED  BY <2>1
  <1>5. \A i \in 1 .. Len(stdin): stdin[i] = input[Taken' + Len(chunk') + i]
    <2>1. Taken' + Len(chunk') = Taken + Len(chunk)
      BY <1>1, <1>2, <1>3
    <2>  QED  BY <2>1 DEF Fed
  <1>6. Len(chunk') + Len(stdin) <= Len(input)
    BY <1>1, <1>2 DEF Fed
  <1>  QED  BY <1>1, <1>2, <1>3, <1>4, <1>5, <1>6 DEF Fed
\* p is the input after b and up to t.
Piece(p, b, t) == p \in Seq(Byte) /\ Len(p) = t - b /\ \A i \in 1 .. t - b: p[i] = input[b + i]

LEMMA PieceIs ==
    ASSUME input \in Seq(Byte), NEW b \in Nat, NEW t \in Nat, b <= t, t <= Len(input)
    PROVE  Piece(SubSeq(input, b + 1, t), b, t)
  <1>1. \A i \in b + 1 .. t: input[i] \in Byte
    BY LenProperties, ElementOfSeq
  <1>2. \A i \in 1 .. t - b: (b + 1) + i - 1 = b + i
    OBVIOUS
  <1>3. b + 1 \in Int /\ t \in Int /\ t - (b + 1) + 1 = t - b /\ (b + 1 <= t \/ t - b = 0)
    OBVIOUS
  <1>  QED  BY <1>1, <1>2, <1>3, SubSeqProperties DEF Piece

\* Two pieces, one after the other.
LEMMA Pieces ==
    ASSUME NEW b \in Nat, NEW t \in Nat, NEW u \in Nat, b <= t, t <= u,
           NEW p, NEW s, NEW q, Piece(p, b, t), Piece(s, t, u), Piece(q, b, u)
    PROVE  p \o s = q
  <1>2. /\ p \in Seq(Byte) /\ Len(p) = t - b /\ \A i \in 1 .. t - b: p[i] = input[b + i]
        /\ q \in Seq(Byte) /\ Len(q) = u - b /\ \A i \in 1 .. u - b: q[i] = input[b + i]
        /\ s \in Seq(Byte) /\ Len(s) = u - t /\ \A i \in 1 .. u - t: s[i] = input[t + i]
    BY DEF Piece
  <1>3. /\ p \o s \in Seq(Byte) /\ Len(p \o s) = Len(p) + Len(s)
        /\ \A i \in 1 .. Len(p) + Len(s): (p \o s)[i] = IF i <= Len(p) THEN p[i] ELSE s[i - Len(p)]
    BY <1>2, ConcatProperties
  <1>4. ASSUME NEW i \in 1 .. u - b PROVE (p \o s)[i] = q[i]
    <2>0. i \in Nat /\ i \in 1 .. Len(p) + Len(s)
      BY <1>2
    <2>1. CASE i <= t - b
      <3>1. i \in 1 .. t - b /\ i <= Len(p)
        BY <1>2, <2>0, <2>1
      <3>2. (p \o s)[i] = p[i]
        BY <1>3, <2>0, <3>1
      <3>3. p[i] = input[b + i] /\ q[i] = input[b + i]
        BY <1>2, <3>1
      <3>  QED  BY <3>2, <3>3
    <2>2. CASE i > t - b
      <3>1. i - (t - b) \in 1 .. u - t /\ t + (i - (t - b)) = b + i
        BY <2>0, <2>2
      <3>2. (p \o s)[i] = s[i - (t - b)]
        BY <1>2, <1>3, <2>0, <2>2
      <3>3. s[i - (t - b)] = input[t + (i - (t - b))]
        BY <1>2, <3>1
      <3>4. q[i] = input[b + i]
        BY <1>2
      <3>  QED  BY <3>1, <3>2, <3>3, <3>4
    <2>  QED  BY <2>0, <2>1, <2>2
  <1>5. p \o s = q
    <2>1. Len(p \o s) = u - b
      BY <1>2, <1>3
    <2>2. \A i \in 1 .. Len(p \o s): (p \o s)[i] = q[i]
      BY <1>4, <2>1
    <2>  QED  BY <1>2, <1>3, <2>1, <2>2, SeqEqual
  <1>  QED  BY <1>2, <1>5
-----------------------------------------------------------------------------
\* The steps.

LEMMA ServeInit ==
    ASSUME ServeParameters, Sv!Init
    PROVE  ServeInv
  <1>1. input \in Seq(Byte)
    <2>1. PICK n \in 0 .. MaxInput: input \in [1 .. n -> Byte]
      BY DEF Sv!Init, Byte
    <2>  QED  BY <2>1
  <1>2. /\ stdin = input /\ chunk = <<>> /\ held = <<>> /\ ~ discarding /\ ~ initialized /\ replies = <<>>
        /\ serving = "read"
    BY DEF Sv!Init
  <1>3. chunk \in Seq(Byte) /\ Len(chunk) = 0 /\ Len(input) \in Nat /\ Taken = 0 /\ replies \in Seq(Codes)
        /\ Len(replies) = 0 /\ DOMAIN replies = {}
    <2>1. <<>> \in Seq(Byte) /\ <<>> \in Seq(Codes) /\ Len(<<>>) = 0
      BY EmptySeq
    <2>2. Len(input) \in Nat
      BY <1>1, LenProperties
    <2>  QED  BY <1>2, <2>1, <2>2 DEF Taken
  <1>4. Fed
    BY <1>1, <1>2, <1>3 DEF Fed
  <1>5. InOrder
    BY <1>3 DEF InOrder
  <1>6. Told(0)
    <2>1. \A d \in Sv!LineEnds: ~ (d <= 0)
      BY <1>1, LinesEnd
    <2>2. Upto(0) = {}
      BY <2>1 DEF Upto, Sv!Answered
    <2>3. Cardinality({}) = 0
      BY FS_EmptySet
    <2>  QED  BY <1>2, <1>3, <2>1, <2>2, <2>3 DEF Told
  <1>7. Holding
    <2>1. Begins(0) /\ Plain(1, 0)
      BY <1>3 DEF Begins, Plain
    <2>2. SubSeq(input, 1, 0) = <<>>
      BY SubSeqEmpty
    <2>3. 0 \in 0 .. Taken /\ 0 + 1 = 1 /\ Taken - 0 <= MaxLine
      BY <1>3 DEF ServeParameters
    <2>  QED  BY <1>2, <1>3, <1>6, <2>1, <2>2, <2>3 DEF Holding
  <1>8. Len(held) <= MaxLine
    BY <1>2, <1>3 DEF ServeParameters
  <1>  QED  BY <1>2, <1>3, <1>4, <1>5, <1>7, <1>8 DEF ServeInv

\* Nothing is taken, and nothing is answered.
LEMMA Waits ==
    ASSUME ServeInv, Fed', Taken' = Taken, input' = input, strict' = strict, held' = held,
           discarding' = discarding, initialized' = initialized, replies' = replies,
           serving' # "end" => serving # "end",
           serving' = "end" => ~ open'  \/ (serving = "end" /\ open' = open)
    PROVE  ServeInv'
  <1>1. \A t: Told(t)' <=> Told(t)
    BY LinesStay DEF Told
  <1>2. InOrder' 
    BY LinesStay DEF InOrder, ServeInv
  <1>3. ASSUME Holding PROVE Holding'
    <2>1. PICK b \in 0 .. Taken: Begins(b) /\ Plain(b + 1, Taken) /\ held = SubSeq(input, b + 1, Taken)
                /\ Taken - b <= MaxLine
      BY <1>3 DEF Holding
    <2>2. Begins(b)' /\ Plain(b + 1, Taken)' /\ Told(Taken)' /\ held' = SubSeq(input, b + 1, Taken)'
      BY <1>1, <1>3, <2>1 DEF Holding, Begins, Plain, Told
    <2>  QED  BY <1>3, <2>1, <2>2 DEF Holding
  <1>4. ASSUME Skipping PROVE Skipping'
    <2>1. PICK b \in 0 .. Taken, e \in Sv!LineEnds:
                /\ Begins(b) /\ b < e /\ Taken < e /\ Plain(b + 1, e - 1)
                /\ discarding /\ held = <<>> /\ Taken - b > MaxLine
                /\ Told(e)
      BY <1>4 DEF Skipping
    <2>2. Begins(b)' /\ Plain(b + 1, e - 1)' /\ Told(e)' /\ e \in Sv!LineEnds'
      BY <1>1, <2>1, LinesStay
    <2>  QED  BY <2>1, <2>2 DEF Skipping
  <1>5. Through => Through'
    <2>1. Told(Len(input) + 1) => Told(Len(input) + 1)'
      BY <1>1 DEF Told
    <2>  QED  BY <2>1 DEF Through
  <1>6. serving' = "end" => Final'
    BY LinesStay DEF Final, ServeInv
  <1>  QED  BY <1>2, <1>3, <1>4, <1>5, <1>6 DEF ServeInv

LEMMA ChunkKeeps ==
    ASSUME ServeInv, Sv!Chunk
    PROVE  ServeInv'
  <1>1. /\ chunk = <<>> /\ serving = "read"
        /\ held' = held /\ discarding' = discarding /\ open' = open /\ strict' = strict /\ input' = input
        /\ initialized' = initialized /\ serving' = serving /\ replies' = replies
    BY DEF Sv!Chunk, Sv!Quiet
  <1>2. PICK n \in 1 .. Len(stdin): chunk' = SubSeq(stdin, 1, n) /\ stdin' = SubSeq(stdin, n + 1, Len(stdin))
    BY DEF Sv!Chunk
  <1>3. Len(stdin) \in Nat /\ Len(chunk) = 0 /\ Len(input) \in Nat /\ n \in Nat /\ n <= Len(stdin)
    BY <1>1, EmptySeq, LenProperties DEF ServeInv, Fed
  <1>4. \A i \in 1 .. Len(stdin): stdin[i] \in Byte
    BY ElementOfSeq DEF ServeInv, Fed
  <1>5. chunk' \in Seq(Byte) /\ Len(chunk') = n /\ \A i \in 1 .. n: chunk'[i] = stdin[i]
    <2>1. 1 \in Int /\ n \in Int /\ 1 <= n /\ n - 1 + 1 = n /\ \A i \in 1 .. n: 1 + i - 1 = i
      BY <1>3
    <2>2. \A i \in 1 .. n: stdin[i] \in Byte
      BY <1>3, <1>4
    <2>  QED  BY <1>2, <2>1, <2>2, SubSeqProperties
  <1>6. /\ stdin' \in Seq(Byte) /\ Len(stdin') = Len(stdin) - n
        /\ \A i \in 1 .. Len(stdin) - n: stdin'[i] = stdin[n + i]
    <2>1. /\ n + 1 \in Int /\ Len(stdin) \in Int /\ Len(stdin) - (n + 1) + 1 = Len(stdin) - n
          /\ (n + 1 <= Len(stdin) \/ Len(stdin) - n = 0)
          /\ \A i \in 1 .. Len(stdin) - n: (n + 1) + i - 1 = n + i
      BY <1>3
    <2>2. \A i \in n + 1 .. Len(stdin): stdin[i] \in Byte
      BY <1>3, <1>4
    <2> DEFINE rest == SubSeq(stdin, n + 1, Len(stdin))
    <2>3. /\ rest \in Seq(Byte)
          /\ Len(rest) = IF n + 1 <= Len(stdin) THEN Len(stdin) - (n + 1) + 1 ELSE 0
          /\ \A i \in 1 .. Len(stdin) - (n + 1) + 1: rest[i] = stdin[(n + 1) + i - 1]
      <3>1. n + 1 \in Int /\ Len(stdin) \in Int
        BY <2>1
      <3>  QED  BY <2>2, <3>1, SubSeqProperties
    <2>4. stdin' = rest
      BY <1>2
    <2> HIDE DEF rest
    <2>5. Len(rest) = Len(stdin) - n /\ \A i \in 1 .. Len(stdin) - n: rest[i] = stdin[n + i]
      BY <2>1, <2>3
    <2>  QED  BY <2>3, <2>4, <2>5
  <1>7. Taken' = Taken /\ Len(chunk') + Len(stdin') <= Len(input)
    BY <1>1, <1>3, <1>5, <1>6 DEF Taken, ServeInv, Fed
  <1>8. Taken \in Int /\ \A i \in 1 .. Len(stdin): stdin[i] = input[Taken + i]
    <2>1. Taken \in Int /\ Taken + 0 = Taken
      BY <1>3 DEF Taken
    <2>  QED  BY <1>3, <2>1 DEF ServeInv, Fed
  <1>9. ASSUME NEW i \in 1 .. Len(stdin') PROVE stdin'[i] = input[Taken + Len(chunk') + i]
    <2>1. n + i \in 1 .. Len(stdin) /\ Taken + (n + i) = Taken + Len(chunk') + i
      BY <1>3, <1>5, <1>6, <1>8
    <2>  QED  BY <1>6, <1>8, <2>1
  <1>10. \A i \in 1 .. Len(chunk'): chunk'[i] = input[Taken + i]
    BY <1>3, <1>5, <1>8
  <1>11. Fed'
    BY <1>1, <1>5, <1>6, <1>7, <1>9, <1>10 DEF Fed, ServeInv
  <1>  QED  BY <1>1, <1>7, <1>11, Waits

LEMMA EventKeeps ==
    ASSUME ServeInv, Sv!Written \/ Sv!Drain \/ Sv!Close
    PROVE  ServeInv'
  <1>1. /\ input' = input /\ strict' = strict /\ held' = held /\ chunk' = chunk /\ stdin' = stdin
        /\ discarding' = discarding /\ initialized' = initialized /\ replies' = replies
    BY DEF Sv!Written, Sv!Drain, Sv!Close, Sv!Event
  <1>2. Fed' /\ Taken' = Taken
    BY <1>1 DEF Fed, Taken, ServeInv
  <1>3. serving # "end" /\ (serving' = "end" => ~ open')
    BY DEF Sv!Written, Sv!Drain, Sv!Close, Sv!Event
  <1>  QED  BY <1>1, <1>2, <1>3, Waits
\* The line goes to the newline at e: nothing is held after it.
LEMMA Anew ==
    ASSUME Fed', ServeParameters, NEW e, Taken' = e, e \in Nat, Begins(e)', Told(e)', held' = <<>>, ~ discarding'
    PROVE  Holding'
  <1>1. Plain(e + 1, e)'
    BY DEF Plain
  <1>2. SubSeq(input', e + 1, e) = <<>>
    BY SubSeqEmpty
  <1>3. e \in 0 .. Taken' /\ Taken' - e <= MaxLine
    BY DEF ServeParameters
  <1>4. Plain(e + 1, Taken)' /\ held' = SubSeq(input, e + 1, Taken)' /\ Told(Taken)'
    BY <1>1, <1>2 DEF Plain, Told
  <1>  QED  BY <1>3, <1>4 DEF Holding

LEMMA LineKeeps ==
    ASSUME ServeParameters, ServeInv, Sv!Line
    PROVE  ServeInv'
  <1> DEFINE n == Sv!LineEnd
             e == Taken + n
             segment == SubSeq(chunk, 1, n - 1)
  <1>1. /\ n # 0 /\ serving = "read" /\ chunk' = SubSeq(chunk, n + 1, Len(chunk)) /\ held' = <<>> /\ ~ discarding'
        /\ stdin' = stdin /\ open' = open /\ strict' = strict /\ input' = input
    BY DEF Sv!Line
  <1>2. Fed /\ InOrder /\ replies \in Seq(Codes) /\ Len(held) <= MaxLine
    BY DEF ServeInv
  <1>3. n \in 1 .. Len(chunk) /\ chunk[n] = Sv!Newline /\ \A i \in 1 .. n - 1: chunk[i] # Sv!Newline
    <2>1. Len(chunk) \in Nat
      BY <1>2, LenProperties DEF Fed
    <2>2. /\ n \in 0 .. Len(chunk) /\ (n # 0 => chunk[n] = Sv!Newline)
          /\ \A i \in 1 .. Len(chunk): n = 0 \/ i < n => chunk[i] # Sv!Newline
      BY <1>2, LineEndIs DEF Fed
    <2> HIDE DEF n
    <2>3. \A i \in 1 .. n - 1: i \in 1 .. Len(chunk) /\ i < n
      BY <2>1, <2>2
    <2>  QED  BY <1>1, <2>1, <2>2, <2>3
  <1>4. PICK m \in 1 .. Len(chunk): m = n
    BY <1>3
  <1>5. /\ Fed' /\ Taken' = e /\ Taken \in Nat /\ e <= Len(input) /\ m \in Nat /\ 1 <= m /\ Len(chunk) \in Nat
        /\ m <= Len(chunk)
        /\ \A i \in 1 .. m: input[Taken + i] = chunk[i]
    <2>1. Len(chunk) \in Nat
      BY <1>2, LenProperties DEF Fed
    <2>  QED  BY <1>1, <1>2, <1>4, <2>1, Feeds
  <1> HIDE DEF n
  <1>6. PICK t \in Nat, u \in Nat: t = Taken /\ u = e
    BY <1>4, <1>5
  <1>7. t < u /\ u = t + m /\ u <= Len(input) /\ Len(input) \in Nat
    BY <1>2, <1>4, <1>5, <1>6, LinesEnd DEF Fed
  <1>8. input[u] = Sv!Newline
    <2>1. input[Taken + m] = chunk[m] /\ Taken + m = u
      BY <1>4, <1>5, <1>6
    <2>  QED  BY <1>3, <1>4, <2>1
  <1>9. u \in Sv!LineEnds /\ Begins(u)
    <2>1. u \in 1 .. Len(input)
      BY <1>7
    <2>  QED  BY <1>2, <1>8, <2>1, LinesEnd DEF Begins, Fed
  <1>10. Plain(t + 1, u - 1)
    <2>1. ASSUME NEW k \in t + 1 .. u - 1 PROVE input[k] # Sv!Newline
      <3>1. k - t \in 1 .. m /\ k - t \in 1 .. m - 1 /\ Taken + (k - t) = k
        BY <1>6, <1>7
      <3>2. input[Taken + (k - t)] = chunk[k - t]
        BY <1>5, <3>1
      <3>  QED  BY <1>3, <1>4, <3>1, <3>2
    <2>  QED  BY <2>1 DEF Plain
  <1>11. \A d \in Sv!LineEnds: d <= u => d <= t \/ d = u
    <2>1. \A d \in Sv!LineEnds: d <= u - 1 <=> d <= t
      <3>1. u - 1 \in Nat /\ t <= u - 1 /\ u - 1 <= Len(input)
        BY <1>7
      <3>  QED  BY <1>2, <1>6, <1>10, <3>1, NoneEnds DEF Fed
    <2>2. ASSUME NEW d \in Sv!LineEnds, d <= u PROVE d <= t \/ d = u
      <3>1. d \in Nat
        BY <1>2, LinesEnd DEF Fed
      <3>  QED  BY <1>7, <2>1, <2>2, <3>1
    <2>  QED  BY <2>2
  <1>12. Len(held') <= MaxLine
    BY <1>1, EmptySeq DEF ServeParameters
  <1>13. ASSUME InOrder', replies' \in Seq(Codes), serving' # "end" => Told(u)', serving' = "end" => Final'
         PROVE  ServeInv'
    <2>1. Begins(u)'
      BY <1>1, <1>9, LinesStay
    <2>2. Taken' = u
      BY <1>5, <1>6
    <2>3. serving' # "end" => Holding'
      BY <1>1, <1>5, <1>13, <2>1, <2>2, Anew
    <2>  QED  BY <1>5, <1>12, <1>13, <2>3 DEF ServeInv
  <1>14. CASE Holding
    <2>1. PICK b \in 0 .. Taken:
            /\ Begins(b) /\ Plain(b + 1, Taken)
            /\ ~ discarding /\ held = SubSeq(input, b + 1, Taken) /\ Taken - b <= MaxLine
            /\ Told(Taken)
      BY <1>14 DEF Holding
    <2>2. b \in Nat /\ b <= t /\ b < u /\ Plain(b + 1, t) /\ held = SubSeq(input, b + 1, t) /\ Told(t)
      BY <1>5, <1>6, <1>7, <2>1
    <2>3. Plain(b + 1, u - 1)
      <3>1. ASSUME NEW k \in b + 1 .. u - 1 PROVE k \in b + 1 .. t \/ k \in t + 1 .. u - 1
        BY <2>2, <1>7
      <3>  QED  BY <1>10, <2>2, <3>1 DEF Plain
    <2>4. Sv!LineAt(u) = SubSeq(input, b + 1, u - 1) /\ Sv!LineAt(u) \in Seq(Byte) /\ Len(Sv!LineAt(u)) = u - 1 - b
          /\ \A i \in DOMAIN Sv!LineAt(u): Sv!LineAt(u)[i] \in Sv!Message
      BY <1>2, <1>9, <2>1, <2>2, <2>3, ServedLineIs DEF Fed
    <2>5. segment \in Seq(Byte) /\ Len(segment) = m - 1 /\ \A i \in 1 .. m - 1: segment[i] = chunk[i]
      <3>1. 1 \in Int /\ m - 1 \in Int /\ (m - 1) - 1 + 1 = m - 1 /\ (1 <= m - 1 \/ m - 1 = 0)
            /\ \A i \in 1 .. m - 1: 1 + i - 1 = i /\ i \in 1 .. Len(chunk)
        BY <1>5
      <3>2. \A i \in 1 .. m - 1: chunk[i] \in Byte
        BY <1>2, <3>1, ElementOfSeq DEF Fed
      <3>3. segment = SubSeq(chunk, 1, m - 1)
        BY <1>4
      <3>4. /\ SubSeq(chunk, 1, m - 1) \in Seq(Byte) /\ Len(SubSeq(chunk, 1, m - 1)) = m - 1
            /\ \A i \in 1 .. m - 1: SubSeq(chunk, 1, m - 1)[i] = chunk[i]
        <4> HIDE DEF segment
        <4>  QED  BY <3>1, <3>2, SubSeqProperties
      <3>  QED  BY <3>3, <3>4
    <2> HIDE DEF segment
    <2>6. held \o segment = SubSeq(input, b + 1, u - 1) /\ Len(held) = t - b
      <3>1. PICK v \in Nat: v = u - 1 /\ t <= v /\ v <= Len(input) /\ v - t = m - 1
        BY <1>5, <1>7
      <3>2. \A i \in 1 .. m - 1: segment[i] = input[t + i]
        <4>1. \A i \in 1 .. m - 1: i \in 1 .. m
          BY <1>5
        <4>  QED  BY <1>5, <1>6, <2>5, <4>1
      <3>3. Len(segment) = v - t /\ \A i \in 1 .. v - t: segment[i] = input[t + i]
        BY <2>5, <3>1, <3>2
      <3>4. b \in Nat /\ b <= t /\ t <= v /\ v <= Len(input) /\ input \in Seq(Byte) /\ segment \in Seq(Byte)
        BY <1>2, <2>2, <2>5, <3>1 DEF Fed
      <3>5. SubSeq(input, b + 1, t) \o segment = SubSeq(input, b + 1, v) /\ Len(SubSeq(input, b + 1, t)) = t - b
        <4> DEFINE p == SubSeq(input, b + 1, t)  q == SubSeq(input, b + 1, v)
        <4>1. Piece(p, b, t)
          <5>1. t <= Len(input)
            BY <1>7
          <5>  QED  BY <3>4, <5>1, PieceIs
        <4>2. Piece(q, b, v)
          <5>1. b <= v
            BY <3>4
          <5>  QED  BY <3>4, <5>1, PieceIs
        <4>3. Piece(segment, t, v)
          BY <3>3, <3>4 DEF Piece
        <4>4. p \o segment = q
          <5> HIDE DEF p, q
          <5>  QED  BY <3>4, <4>1, <4>2, <4>3, Pieces
        <4>  QED  BY <4>1, <4>4 DEF Piece
      <3>  QED  BY <2>2, <3>1, <3>5
    <2> DEFINE long == Sv!Overlong(held, segment)
    <2>7. long \in BOOLEAN /\ (long <=> Len(Sv!LineAt(u)) > MaxLine)
      <3>1. Len(held) + Len(segment) = u - 1 - b
        BY <1>5, <1>7, <2>2, <2>5, <2>6
      <3>  QED  BY <2>4, <3>1 DEF Sv!Overlong
    <2>8. Sv!Serve(held \o segment, long)
      BY <2>1 DEF Sv!Line, segment, n
    <2> HIDE DEF long
    <2>9. ~ long => held \o segment = Sv!LineAt(u)
      BY <2>4, <2>6
    <2>10. /\ InOrder' /\ replies' \in Seq(Codes)
           /\ serving' # "end" => Told(u)'
           /\ serving' = "end" => Final'
      BY <1>1, <1>2, <1>7, <1>9, <1>11, <2>2, <2>4, <2>7, <2>8, <2>9, Serves
    <2>  QED  BY <1>13, <2>10
  <1>15. CASE Skipping
    <2>1. PICK b \in 0 .. Taken, d \in Sv!LineEnds:
        /\ Begins(b) /\ b < d /\ Taken < d /\ Plain(b + 1, d - 1)
        /\ discarding /\ held = <<>> /\ Taken - b > MaxLine
        /\ Told(d)
      BY <1>15 DEF Skipping
    <2>2. d = u
      <3>1. d \in Nat /\ b \in Nat /\ b <= t /\ t < d
        BY <1>2, <1>5, <1>6, <2>1, LinesEnd DEF Fed
      <3>2. ~ (u \in b + 1 .. d - 1)
        BY <1>8, <2>1 DEF Plain
      <3>3. d <= u
        BY <1>7, <3>1, <3>2
      <3>  QED  BY <1>7, <1>11, <3>1, <3>3
    <2>3. initialized' = initialized /\ serving' = serving /\ replies' = replies
      BY <2>1 DEF Sv!Line, Sv!Quiet
    <2>4. InOrder' /\ Told(u)'
      BY <1>1, <1>2, <2>1, <2>2, <2>3, LinesStay DEF InOrder, Told
    <2>  QED  BY <1>1, <1>2, <1>13, <2>3, <2>4
  <1>16. CASE Through
    BY <1>5, <1>6, <1>7, <1>16 DEF Through
  <1>  QED  BY <1>1, <1>14, <1>15, <1>16 DEF ServeInv
LEMMA PartKeeps ==
    ASSUME ServeParameters, ServeInv, Sv!Part
    PROVE  ServeInv'
  <1>1. /\ chunk # <<>> /\ serving = "read" /\ chunk' = <<>> /\ Sv!LineEnd = 0
        /\ stdin' = stdin /\ open' = open /\ strict' = strict /\ input' = input
    BY DEF Sv!Part
  <1>2. Fed /\ InOrder /\ replies \in Seq(Codes) /\ Len(held) <= MaxLine /\ input \in Seq(Byte)
        /\ chunk \in Seq(Byte)
    BY DEF ServeInv, Fed
  <1>3. PICK m \in 1 .. Len(chunk): m = Len(chunk)
    BY <1>1, <1>2, EmptySeq
  <1>4. /\ Fed' /\ Taken' = Taken + m /\ Taken \in Nat /\ Taken + m <= Len(input)
        /\ \A i \in 1 .. m: input[Taken + i] = chunk[i]
    BY <1>1, <1>2, <1>3, Feeds
  <1>5. PICK t \in Nat, u \in Nat: t = Taken /\ u = Taken + m
    BY <1>3, <1>4
  <1>6. t < u /\ u = t + m /\ u <= Len(input) /\ Len(input) \in Nat /\ Taken' = u
    BY <1>2, <1>3, <1>4, <1>5, LinesEnd
  <1>7. \A i \in 1 .. m: chunk[i] # Sv!Newline
    BY <1>1, <1>2, <1>3, LineEndIs
  <1>8. Plain(t + 1, u)
    <2>1. ASSUME NEW k \in t + 1 .. u PROVE input[k] # Sv!Newline
      <3>1. k - t \in 1 .. m /\ Taken + (k - t) = k
        BY <1>5, <1>6
      <3>2. input[Taken + (k - t)] = chunk[k - t]
        BY <1>4, <3>1
      <3>  QED  BY <1>7, <3>1, <3>2
    <2>  QED  BY <2>1 DEF Plain
  <1>9. /\ \A e \in Sv!LineEnds: e <= u <=> e <= t
        /\ Upto(u) = Upto(t)
    BY <1>2, <1>6, <1>8, NoneEnds
  <1>10. ASSUME NEW b \in Nat, b <= t, Plain(b + 1, t) PROVE Plain(b + 1, u)
    <2>1. ASSUME NEW k \in b + 1 .. u PROVE k \in b + 1 .. t \/ k \in t + 1 .. u
      BY <1>6, <1>10
    <2>  QED  BY <1>8, <1>10, <2>1 DEF Plain
  <1>11. CASE Holding
    <2>1. PICK b \in 0 .. Taken:
            /\ Begins(b) /\ Plain(b + 1, Taken)
            /\ ~ discarding /\ held = SubSeq(input, b + 1, Taken) /\ Taken - b <= MaxLine
            /\ Told(Taken)
      BY <1>11 DEF Holding
    <2>2. b \in Nat /\ b <= t /\ b < u /\ Plain(b + 1, u) /\ held = SubSeq(input, b + 1, t) /\ Told(t)
      <3>1. b \in Nat /\ b <= t /\ Plain(b + 1, t)
        BY <1>5, <2>1
      <3>  QED  BY <1>5, <1>6, <1>10, <2>1, <3>1
    <2>3. held \o chunk = SubSeq(input, b + 1, u) /\ Len(held) = t - b /\ Len(SubSeq(input, b + 1, u)) = u - b
      <3>1. Len(chunk) = u - t /\ \A i \in 1 .. u - t: chunk[i] = input[t + i]
        BY <1>3, <1>4, <1>5, <1>6
      <3>2. b \in Nat /\ b <= t /\ t <= u /\ u <= Len(input) /\ input \in Seq(Byte) /\ chunk \in Seq(Byte)
        BY <1>2, <1>6, <2>2
      <3>3. /\ SubSeq(input, b + 1, t) \o chunk = SubSeq(input, b + 1, u)
            /\ Len(SubSeq(input, b + 1, t)) = t - b /\ Len(SubSeq(input, b + 1, u)) = u - b
        <4> DEFINE p == SubSeq(input, b + 1, t)  q == SubSeq(input, b + 1, u)
        <4>1. Piece(p, b, t)
          BY <3>2, PieceIs
        <4>2. Piece(q, b, u)
          <5>1. b <= u
            BY <3>2
          <5>  QED  BY <3>2, <5>1, PieceIs
        <4>3. Piece(chunk, t, u)
          BY <3>1, <3>2 DEF Piece
        <4>4. p \o chunk = q
          <5> HIDE DEF p, q
          <5>  QED  BY <3>2, <4>1, <4>2, <4>3, Pieces
        <4>  QED  BY <4>1, <4>2, <4>4 DEF Piece
      <3>  QED  BY <2>2, <3>3
    <2>4. Begins(b)' /\ Plain(b + 1, u)'
      BY <1>1, <2>1, <2>2, LinesStay
    <2>5. Sv!Overlong(held, chunk) <=> u - b > MaxLine
      <3>1. Len(held) + Len(chunk) = u - b
        BY <1>3, <1>6, <2>2, <2>3
      <3>  QED  BY <3>1 DEF Sv!Overlong
    <2>6. CASE ~ Sv!Overlong(held, chunk)
      <3>1. /\ held' = held \o chunk /\ ~ discarding' /\ initialized' = initialized /\ serving' = serving
            /\ replies' = replies
        BY <2>1, <2>6 DEF Sv!Part, Sv!Quiet
      <3>2. u - b <= MaxLine /\ b \in 0 .. u
        BY <2>2, <2>5, <2>6 DEF ServeParameters
      <3>3. Told(u)' /\ InOrder'
        BY <1>1, <1>2, <1>9, <2>2, <3>1, LinesStay DEF InOrder, Told
      <3>4. held' = SubSeq(input', b + 1, u)
        BY <1>1, <2>3, <3>1
      <3>5. Holding'
        <4>1. Plain(b + 1, Taken)' /\ held' = SubSeq(input, b + 1, Taken)' /\ Told(Taken)'
          BY <1>6, <2>4, <3>3, <3>4 DEF Plain, Told
        <4>2. b \in 0 .. Taken' /\ Taken' - b <= MaxLine
          BY <1>6, <3>2
        <4>  QED  BY <2>4, <3>1, <4>1, <4>2 DEF Holding
      <3>6. Len(held') <= MaxLine
        BY <2>3, <3>1, <3>2
      <3>  QED  BY <1>1, <1>2, <1>4, <3>1, <3>3, <3>5, <3>6 DEF ServeInv
    <2>7. CASE Sv!Overlong(held, chunk)
      <3>1. held' = <<>> /\ discarding' /\ Sv!Serve(<<>>, TRUE)
        BY <2>1, <2>7 DEF Sv!Part
      <3> DEFINE T == {e \in Sv!LineEnds: t < e}
      <3>2. T \in SUBSET Nat /\ Len(input) + 1 \in T
        BY <1>2, <1>6, LinesEnd
      <3>3. PICK e \in T: \A d \in T: e <= d
        BY <3>2, Least
      <3>4. e \in Sv!LineEnds /\ t < e /\ e \in Nat
        BY <1>2, <3>3, LinesEnd
      <3>5. u < e
        BY <1>6, <1>9, <3>4
      <3>6. \A d \in Sv!LineEnds: d <= e => d <= t \/ d = e
        <4>1. ASSUME NEW d \in Sv!LineEnds, d <= e PROVE d <= t \/ d = e
          <5>1. d \in Nat
            BY <1>2, LinesEnd
          <5>2. t < d => e <= d
            BY <3>3
          <5>  QED  BY <3>4, <4>1, <5>1, <5>2
        <4>  QED  BY <4>1
      <3>7. Plain(b + 1, e - 1)
        <4>1. ASSUME NEW k \in b + 1 .. e - 1, input[k] = Sv!Newline PROVE FALSE
          <5>1. k \in 1 .. Len(input)
            BY <1>2, <2>2, <3>4, LinesEnd
          <5>2. k \in Sv!LineEnds
            BY <1>2, <4>1, <5>1, LinesEnd
          <5>3. k <= t
            BY <3>4, <3>6, <5>1, <5>2
          <5>4. k \in b + 1 .. u
            BY <1>6, <2>2, <5>1, <5>3
          <5>  QED  BY <2>2, <4>1, <5>4 DEF Plain
        <4>  QED  BY <4>1 DEF Plain
      <3>8. b < e
        BY <2>2, <3>4
      <3>9. Sv!LineAt(e) \in Seq(Byte) /\ Len(Sv!LineAt(e)) = e - 1 - b
            /\ \A i \in DOMAIN Sv!LineAt(e): Sv!LineAt(e)[i] \in Sv!Message
        BY <1>2, <2>1, <3>4, <3>7, <3>8, ServedLineIs
      <3>10. Len(Sv!LineAt(e)) > MaxLine
        BY <2>2, <2>5, <2>7, <3>4, <3>5, <3>9 DEF ServeParameters
      <3>11. /\ InOrder' /\ replies' \in Seq(Codes)
             /\ serving' # "end" => Told(e)'
             /\ serving' = "end" => Final'
        <4> HIDE DEF T
        <4>  QED  BY <1>1, <1>2, <2>2, <3>1, <3>4, <3>6, <3>9, <3>10, Serves
      <3>12. serving' # "end" => Skipping'
        <4>1. e \in Sv!LineEnds' /\ Plain(b + 1, e - 1)'
          BY <1>1, <3>4, <3>7, LinesStay
        <4>2. b \in 0 .. Taken' /\ Taken' < e /\ Taken' - b > MaxLine
          BY <1>6, <2>2, <2>5, <2>7, <3>5
        <4>  QED  BY <2>4, <3>1, <3>8, <3>11, <4>1, <4>2 DEF Skipping
      <3>13. Len(held') <= MaxLine
        BY <3>1, EmptySeq DEF ServeParameters
      <3>  QED  BY <1>4, <3>11, <3>12, <3>13 DEF ServeInv
    <2>  QED  BY <2>6, <2>7
  <1>12. CASE Skipping
    <2>1. PICK b \in 0 .. Taken, e \in Sv!LineEnds:
        /\ Begins(b) /\ b < e /\ Taken < e /\ Plain(b + 1, e - 1)
        /\ discarding /\ held = <<>> /\ Taken - b > MaxLine
        /\ Told(e)
      BY <1>12 DEF Skipping
    <2>2. /\ held' = <<>> /\ discarding' /\ initialized' = initialized /\ serving' = serving
          /\ replies' = replies
      BY <2>1 DEF Sv!Part, Sv!Quiet
    <2>3. e \in Nat /\ t < e /\ u < e
      BY <1>2, <1>5, <1>6, <1>9, <2>1, LinesEnd
    <2>4. InOrder' /\ Told(e)' /\ Begins(b)' /\ Plain(b + 1, e - 1)' /\ e \in Sv!LineEnds'
      BY <1>1, <1>2, <2>1, <2>2, LinesStay DEF InOrder, Told
    <2>5. b \in 0 .. Taken' /\ Taken' < e /\ Taken' - b > MaxLine
      <3>1. b \in Nat /\ b <= t /\ t - b > MaxLine
        BY <1>5, <2>1
      <3>  QED  BY <1>6, <2>3, <3>1 DEF ServeParameters
    <2>6. Skipping'
      BY <2>1, <2>2, <2>4, <2>5 DEF Skipping
    <2>7. Len(held') <= MaxLine
      BY <2>2, EmptySeq DEF ServeParameters
    <2>  QED  BY <1>1, <1>2, <1>4, <2>2, <2>4, <2>6, <2>7 DEF ServeInv
  <1>13. CASE Through
    BY <1>5, <1>6, <1>13 DEF Through
  <1>  QED  BY <1>1, <1>11, <1>12, <1>13 DEF ServeInv

LEMMA LastLineKeeps ==
    ASSUME ServeParameters, ServeInv, Sv!EndOfInput
    PROVE  ServeInv'
  <1>1. /\ chunk = <<>> /\ stdin = <<>> /\ serving = "read" /\ chunk' = chunk /\ held' = <<>>
        /\ discarding' = discarding /\ stdin' = stdin /\ open' = open /\ strict' = strict /\ input' = input
    BY DEF Sv!EndOfInput
  <1>2. Fed /\ InOrder /\ replies \in Seq(Codes) /\ Len(held) <= MaxLine /\ input \in Seq(Byte)
    BY DEF ServeInv, Fed
  <1>3. Fed' /\ Taken' = Taken /\ Taken = Len(input) /\ Len(input) \in Nat
    <2>1. Len(chunk) = 0 /\ Len(stdin) = 0 /\ Len(input) \in Nat
      BY <1>1, <1>2, EmptySeq, LinesEnd
    <2>  QED  BY <1>1, <1>2, <2>1 DEF Fed, Taken
  <1>4. PICK t \in Nat: t = Len(input)
    BY <1>3
  <1>5. /\ t + 1 \in Sv!LineEnds /\ \A d \in Sv!LineEnds: d <= t + 1 /\ (d <= t \/ d = t + 1)
        /\ Upto(t + 1) = Sv!Answered
    <2>1. t + 1 \in Sv!LineEnds /\ Sv!LineEnds \subseteq 1 .. t + 1 /\ Sv!Answered \subseteq 1 .. t + 1
      BY <1>2, <1>4, LinesEnd
    <2>2. \A d \in 1 .. t + 1: d <= t + 1 /\ (d <= t \/ d = t + 1)
      OBVIOUS
    <2>3. Upto(t + 1) = Sv!Answered
      BY <2>1, <2>2 DEF Upto
    <2>  QED  BY <2>1, <2>2, <2>3
  <1>6. Len(held') <= MaxLine
    BY <1>1, EmptySeq DEF ServeParameters
  <1>7. ASSUME Len(replies) = Cardinality(Sv!Answered), serving' = "end", replies' = replies
        PROVE  ServeInv'
    <2>1. InOrder' /\ Final'
      BY <1>1, <1>2, <1>7, LinesStay DEF InOrder, Final
    <2>  QED  BY <1>2, <1>3, <1>6, <1>7, <2>1 DEF ServeInv
  <1>8. CASE Holding
    <2>1. PICK b \in 0 .. Taken:
            /\ Begins(b) /\ Plain(b + 1, Taken)
            /\ ~ discarding /\ held = SubSeq(input, b + 1, Taken) /\ Taken - b <= MaxLine
            /\ Told(Taken)
      BY <1>8 DEF Holding
    <2>2. b \in Nat /\ b <= t /\ b < t + 1 /\ Plain(b + 1, t + 1 - 1) /\ held = SubSeq(input, b + 1, t + 1 - 1)
          /\ Told(t) /\ t + 1 - 1 = t /\ t - b <= MaxLine
      <3>1. t + 1 - 1 = t
        OBVIOUS
      <3>  QED  BY <1>3, <1>4, <2>1, <3>1
    <2>3. /\ Sv!LineAt(t + 1) = held
          /\ Sv!LineAt(t + 1) \in Seq(Byte) /\ Len(Sv!LineAt(t + 1)) = t - b
          /\ \A i \in DOMAIN Sv!LineAt(t + 1): Sv!LineAt(t + 1)[i] \in Sv!Message
      <3>1. PICK e \in Sv!LineEnds: e = t + 1
        BY <1>5
      <3>2. b < e /\ Plain(b + 1, e - 1) /\ held = SubSeq(input, b + 1, e - 1)
        BY <2>2, <3>1
      <3>3. /\ Sv!LineAt(e) = held
            /\ Sv!LineAt(e) \in Seq(Byte) /\ Len(Sv!LineAt(e)) = e - 1 - b
            /\ \A i \in DOMAIN Sv!LineAt(e): Sv!LineAt(e)[i] \in Sv!Message
        BY <1>2, <2>1, <3>2, ServedLineIs
      <3>4. e - 1 - b = t - b
        BY <2>2, <3>1
      <3>  QED  BY <3>1, <3>3, <3>4
    <2>4. ~ (Len(Sv!LineAt(t + 1)) > MaxLine)
      BY <2>2, <2>3 DEF ServeParameters
    <2>5. CASE held # <<>>
      <3>1. Sv!Serve(held, FALSE)
        BY <2>1, <2>5 DEF Sv!EndOfInput
      <3>2. PICK e \in Sv!LineEnds: e = t + 1
        BY <1>5
      <3>3. /\ t < e /\ \A d \in Sv!LineEnds: d <= e => d <= t \/ d = e
            /\ held = Sv!LineAt(e) /\ ~ (Len(Sv!LineAt(e)) > MaxLine)
            /\ Sv!LineAt(e) \in Seq(Byte) /\ \A i \in DOMAIN Sv!LineAt(e): Sv!LineAt(e)[i] \in Sv!Message
        BY <1>5, <2>3, <2>4, <3>2
      <3>4. /\ InOrder' /\ replies' \in Seq(Codes)
            /\ serving' # "end" => Told(e)'
            /\ serving' = "end" => Final'
        BY <1>1, <1>2, <2>2, <3>1, <3>3, Serves
      <3>5. serving' # "end" => Through'
        <4>1. Told(e)' => Told(Len(input) + 1)'
          BY <1>1, <1>4, <3>2 DEF Told
        <4>  QED  BY <1>1, <1>3, <2>1, <3>4, <4>1 DEF Through
      <3>  QED  BY <1>3, <1>6, <3>4, <3>5 DEF ServeInv
    <2>6. CASE held = <<>>
      <3>1. serving' = "end" /\ replies' = replies
        BY <2>6 DEF Sv!EndOfInput
      <3>2. Sv!ReplyAt(t + 1) = "none"
        <4>1. (Len(Sv!LineAt(t + 1)) > MaxLine) = FALSE
          BY <2>4
        <4>2. Sv!ReplyAt(t + 1) = Sv!Reply(Sv!LineAt(t + 1), Len(Sv!LineAt(t + 1)) > MaxLine,
                \E d \in Sv!LineEnds: d < t + 1 /\ Sv!LineAt(d) = <<"initialize">>)
          BY DEF Sv!ReplyAt
        <4>3. Sv!LineAt(t + 1) = <<>>
          BY <2>3, <2>6
        <4> DEFINE ready == \E d \in Sv!LineEnds: d < t + 1 /\ Sv!LineAt(d) = <<"initialize">>
        <4>4. Sv!Reply(<<>>, FALSE, ready) = "none"
          <5> HIDE DEF ready
          <5>  QED  BY DEF Sv!Reply
        <4>  QED  BY <4>1, <4>2, <4>3, <4>4
      <3>3. Sv!Answered = Upto(t)
        <4>1. \A d \in Sv!Answered: d <= t
          BY <1>5, <3>2 DEF Sv!Answered
        <4>  QED  BY <4>1 DEF Upto
      <3>  QED  BY <1>7, <2>2, <3>1, <3>3 DEF Told
    <2>  QED  BY <2>5, <2>6
  <1>9. CASE Skipping
    <2>1. PICK b \in 0 .. Taken, e \in Sv!LineEnds:
        /\ Begins(b) /\ b < e /\ Taken < e /\ Plain(b + 1, e - 1)
        /\ discarding /\ held = <<>> /\ Taken - b > MaxLine
        /\ Told(e)
      BY <1>9 DEF Skipping
    <2>2. e = t + 1
      BY <1>2, <1>3, <1>4, <1>5, <2>1, LinesEnd
    <2>3. serving' = "end" /\ replies' = replies
      BY <2>1 DEF Sv!EndOfInput
    <2>  QED  BY <1>5, <1>7, <2>1, <2>2, <2>3 DEF Told
  <1>10. CASE Through
    <2>1. serving' = "end" /\ replies' = replies
      BY <1>10 DEF Sv!EndOfInput, Through
    <2>2. Len(replies) = Cardinality(Upto(t + 1))
      BY <1>4, <1>10 DEF Through, Told
    <2>  QED  BY <1>5, <1>7, <2>1, <2>2
  <1>  QED  BY <1>1, <1>8, <1>9, <1>10 DEF ServeInv

LEMMA ServeStep ==
    ASSUME ServeParameters, ServeInv, [Sv!Next]_(Sv!vars)
    PROVE  ServeInv'
  <1>1. CASE UNCHANGED Sv!vars
    <2>1. /\ input' = input /\ strict' = strict /\ held' = held /\ chunk' = chunk /\ stdin' = stdin
          /\ discarding' = discarding /\ initialized' = initialized /\ replies' = replies
          /\ serving' = serving /\ open' = open
      BY <1>1 DEF Sv!vars
    <2>2. Fed' /\ Taken' = Taken
      BY <2>1 DEF Fed, Taken, ServeInv
    <2>  QED  BY <2>1, <2>2, Waits
  <1>  QED  BY <1>1, ChunkKeeps, LineKeeps, PartKeeps, LastLineKeeps, EventKeeps DEF Sv!Next

LEMMA ServeImplies ==
    ASSUME ServeInv
    PROVE  Sv!RepliesInOrder
  <1>1. \A S: Sv!Cardinality(S) = Cardinality(S)
    BY ZenonT(30) DEF Sv!Cardinality, Cardinality, Sv!IsFiniteSet, IsFiniteSet
  <1>2. \A k \in DOMAIN replies: \E e \in Sv!Answered:
            Sv!Cardinality({d \in Sv!Answered: d <= e}) = k /\ replies[k] = Sv!ReplyAt(e)
    BY <1>1 DEF ServeInv, InOrder, Upto
  <1>3. serving = "end" /\ open => Len(replies) = Sv!Cardinality(Sv!Answered)
    BY <1>1 DEF ServeInv, Final
  <1>  QED  BY <1>2, <1>3 DEF Sv!RepliesInOrder, ServeInv

LEMMA ServeInductive ==
    ASSUME ServeParameters
    PROVE  /\ Sv!Init => ServeInv
           /\ ServeInv /\ [Sv!Next]_(Sv!vars) => ServeInv'
           /\ ServeInv => Sv!RepliesInOrder
  BY ServeInit, ServeStep, ServeImplies

\* The MCP server's answers are those of the lines the client sent.
THEOREM RepliesKept == ASSUME ServeParameters PROVE Sv!Spec => []Sv!RepliesInOrder
  BY ServeInductive, PTL DEF Sv!Spec
=============================================================================
