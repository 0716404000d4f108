------------------------- MODULE InstallTransaction -------------------------
(***************************************************************************)
(* The installation of the program itself: src/src/setup/lifecycle.ts.     *)
(*                                                                         *)
(* A release is a sealed directory (a stage) named by version and digest;  *)
(* a receipt, numbered here by its transaction, says which release it      *)
(* installed; current.json points to a receipt; ~/.local/bin/omcu is a     *)
(* link into a stage.  Install, rollback and uninstall change several of   *)
(* these, one file operation at a time, under the install lock; before     *)
(* they do they write transaction.json, from which the next call (or the   *)
(* same one, when an operation fails) reconciles what was left.            *)
(*                                                                         *)
(* One state root and one project.  A call holds the lock from Call to     *)
(* Return, so there is one program counter; a kill may come between any    *)
(* two file operations.                                                    *)
(***************************************************************************)
EXTENDS Naturals, FiniteSets, InstallParameters

CONSTANT None

VARIABLES
    cli,         \* where ~/.local/bin/omcu leads
    pointer,     \* the receipt current.json names
    receipts,    \* install/receipts/N.json; sealed when its mode is 0400
    stage,       \* install/releases/..., "partial" when bytes are missing
    tmp,         \* releases with a temporary stage
    journal,     \* install/transaction.json
    project,     \* <project>/.omcu: who made it, whether it holds data, whose owner marker
    pc, job,     \* the call that holds the install lock
    fate,        \* history: a transaction is "open", then "kept" until "dropped"
    txns, calls, faults, drifts

files == <<cli, pointer, receipts, stage, tmp, journal, project>>
bounds == <<calls, faults, drifts>>
vars == <<files, pc, job, fate, txns, bounds>>

Txn == 1..MaxTxn

-----------------------------------------------------------------------------
(* What is kept.                                                           *)

\* What the link may lead to.
Target == Release \cup Foreign \cup {None}

Receipt == [release : Release, sealed : BOOLEAN, project : BOOLEAN]

\* The two kinds of journals.
Installation == [kind : {"install"}, n : Txn, release : Release, cli : Target,
                 pointer : Txn \cup {None}, existed : BOOLEAN, marker : BOOLEAN]
Removal == [kind : {"uninstall"}, n : Txn, purge : BOOLEAN]

Steps == {"idle", "reconcile", "r_cli", "r_pointer", "r_project", "r_rmdir", "r_receipt",
          "r_stage", "clear", "unjournal", "plan", "copy", "publish", "digest", "receipt",
          "seal", "link", "mkdir", "marker", "doctor", "pointer", "u_stage", "u_rest", "u_cli",
          "u_project", "u_pointer", "prune", "ok", "failed"}

Job == [op : {"install", "rollback", "uninstall", "prune", "repair"}, release : Release \cup {None},
        n : Txn \cup {None}, init : BOOLEAN, then : {"plan", "ok", "failed"},
        prune : SUBSET Release, why : Steps \cup {None},
        prior : {<<>>} \cup (Target \X (Txn \cup {None}))]

\* None is nobody, no target of the link, no transaction, receipt, journal or job.
NoneFits ==
    /\ None \notin {User} \cup Release \cup Foreign \cup Nat
    /\ None \notin Receipt \cup Installation \cup Removal \cup Job

-----------------------------------------------------------------------------
Init ==
    /\ cli \in {None} \cup Foreign /\ pointer = None
    /\ receipts = [n \in Txn |-> None]
    /\ stage = [v \in Release |-> "absent"] /\ tmp = {}
    /\ journal = None
    /\ project = [maker |-> None, data |-> FALSE, marker |-> None]
    /\ pc = "idle" /\ job = None
    /\ fate = [n \in Txn |-> "open"]
    /\ txns = 0 /\ calls = 0 /\ faults = 0 /\ drifts = 0

\* readInstallReceipt succeeds.
Readable(n) == n # None /\ receipts[n] # None /\ receipts[n].sealed

\* ... and the stage it names has the digest it names: a target to roll back to.
Installable(n) == Readable(n) /\ stage[receipts[n].release] = "whole"

\* readCurrentInstallUnlocked succeeds for the release.
IsCurrent(v) == Installable(pointer) /\ receipts[pointer].release = v /\ cli = v

\* The file operation at `from`; the call goes on at `to`.
Step(from, to) == pc = from /\ pc' = to /\ UNCHANGED <<job, txns, bounds>>

-----------------------------------------------------------------------------
(* A call.  init: --init-project-state; purge is kept in the same field.   *)

Begin(op, release, n, init) ==
    /\ pc = "idle" /\ calls < MaxCalls
    /\ pc' = "reconcile" /\ calls' = calls + 1
    /\ job' = [op |-> op, release |-> release, n |-> n, init |-> init,
               then |-> "plan", prune |-> {}, why |-> None, prior |-> <<>>]
    /\ UNCHANGED <<files, fate, txns, faults, drifts>>

Call ==
    \/ \E v \in Release, init \in BOOLEAN : txns < MaxTxn /\ Begin("install", v, None, init)
    \/ \E n \in Txn : /\ receipts[n] # None /\ txns < MaxTxn
                      /\ Begin("rollback", None, n, FALSE)
    \/ \E n \in Txn, purge \in BOOLEAN : receipts[n] # None /\ Begin("uninstall", None, n, purge)
    \/ \E op \in {"prune", "repair"} : Begin(op, None, None, FALSE)

Return ==
    /\ pc \in {"ok", "failed"} /\ pc' = "idle" /\ job' = None
    /\ UNCHANGED <<files, fate, txns, bounds>>

-----------------------------------------------------------------------------
(* reconcileInstallTransaction.                                            *)

\* Uninstall reconciles with the default: it may remove a project directory.
AllowCleanup == job.op = "uninstall" \/ (job.op = "install" /\ job.init)

Committed == pointer = journal.n /\ cli = journal.release

ReconcileNone ==
    /\ pc = "reconcile" /\ journal = None
    /\ pc' = job.then
    /\ UNCHANGED <<files, job, fate, txns, bounds>>

\* assertPriorCliTargetAllowed throws before anything is restored.
ReconcileRefused ==
    /\ journal # None /\ journal.kind = "install" /\ journal.cli \in Foreign
    /\ Step("reconcile", "failed")
    /\ UNCHANGED <<files, fate>>

ReconcileInstall ==
    /\ journal # None /\ journal.kind = "install" /\ journal.cli \notin Foreign
    /\ Step("reconcile", IF Committed THEN "clear" ELSE "r_cli")
    /\ tmp' = tmp \ {journal.release}
    /\ UNCHANGED <<cli, pointer, receipts, stage, journal, project, fate>>

\* Mutant: an interrupted uninstall is forgotten.
ReconcileUninstallForgotten ==
    /\ journal # None /\ journal.kind = "uninstall"
    /\ Step("reconcile", "unjournal")
    /\ UNCHANGED <<files, fate>>

ReconcileUninstall ==
    /\ journal # None /\ journal.kind = "uninstall"
    /\ Step("reconcile", IF Readable(journal.n) THEN "u_stage" ELSE "failed")
    /\ UNCHANGED <<files, fate>>

\* Mutant: the link is left where it leads.
RestoreCliLeft == Step("r_cli", "r_pointer") /\ UNCHANGED <<files, fate>>

RestoreCli == /\ Step("r_cli", "r_pointer") /\ cli' = journal.cli
              /\ UNCHANGED <<pointer, receipts, stage, tmp, journal, project, fate>>

RestorePointer == /\ Step("r_pointer", "r_project") /\ pointer' = journal.pointer
                  /\ UNCHANGED <<cli, receipts, stage, tmp, journal, project, fate>>

\* ownsProjectState: the receipt proves that this transaction planned to make the
\* directory, the marker that it did.
OwnsProject == /\ journal.marker /\ Readable(journal.n)
               /\ receipts[journal.n].project /\ project.marker = journal.n

\* removeTransactionOwnedProjectState, up to the unlink of the marker.
RestoreProject ==
    LET owns == AllowCleanup /\ OwnsProject IN
    /\ Step("r_project", IF owns /\ ~project.data THEN "r_rmdir" ELSE "r_receipt")
    /\ project' = IF owns THEN [project EXCEPT !.marker = None] ELSE project
    /\ UNCHANGED <<cli, pointer, receipts, stage, tmp, journal, fate>>

\* Mutant: the directory is removed with what it holds.
RestoreRmdirRecursive ==
    /\ Step("r_rmdir", "r_receipt")
    /\ project' = [project EXCEPT !.maker = None, !.data = FALSE]
    /\ UNCHANGED <<cli, pointer, receipts, stage, tmp, journal, fate>>

\* rmdir throws when something was put into the directory since it was listed.
RestoreRmdir ==
    /\ Step("r_rmdir", IF project.data THEN "failed" ELSE "r_receipt")
    /\ project' = IF project.data THEN project ELSE [project EXCEPT !.maker = None]
    /\ UNCHANGED <<cli, pointer, receipts, stage, tmp, journal, fate>>

\* Mutant: the receipt of the failed transaction stays.
RestoreReceiptLeft == Step("r_receipt", "r_stage") /\ UNCHANGED <<files, fate>>

RestoreReceipt == /\ Step("r_receipt", "r_stage")
                  /\ receipts' = [receipts EXCEPT ![journal.n] = None]
                  /\ UNCHANGED <<cli, pointer, stage, tmp, journal, project, fate>>

\* Removing a directory tree: its files go one by one.
Less(s) == IF s = "whole" THEN "partial" ELSE "absent"

\* Mutant: a stage that was there before is removed too.
RestoreStageAlways ==
    LET v == journal.release IN
    /\ Step("r_stage", IF Less(stage[v]) = "partial" THEN "r_stage" ELSE "unjournal")
    /\ stage' = [stage EXCEPT ![v] = Less(@)]
    /\ UNCHANGED <<cli, pointer, receipts, tmp, journal, project, fate>>

RestoreStage ==
    LET v == journal.release  left == IF journal.existed THEN stage[v] ELSE Less(stage[v]) IN
    /\ Step("r_stage", IF left = "partial" /\ ~journal.existed THEN "r_stage" ELSE "unjournal")
    /\ stage' = [stage EXCEPT ![v] = left]
    /\ UNCHANGED <<cli, pointer, receipts, tmp, journal, project, fate>>

\* clearProjectStateOwnershipMarker, at the end of an install as well.
ClearMarker == /\ Step("clear", "unjournal")
               /\ project' = IF OwnsProject THEN [project EXCEPT !.marker = None] ELSE project
               /\ UNCHANGED <<cli, pointer, receipts, stage, tmp, journal, fate>>

Unjournal == /\ pc = "unjournal" /\ pc' = job.then
             /\ journal' = None
             /\ UNCHANGED <<cli, pointer, receipts, stage, tmp, project, job, fate, txns, bounds>>

Reconcile == \/ ReconcileNone \/ ReconcileRefused \/ ReconcileInstall \/ ReconcileUninstall
             \/ RestoreCli \/ RestorePointer \/ RestoreProject \/ RestoreRmdir
             \/ RestoreReceipt \/ RestoreStage \/ ClearMarker \/ Unjournal

-----------------------------------------------------------------------------
(* install and update (installOrUpdateUnlocked).                           *)

\* Mutant: the journal bears the number of the transaction before.
JournalOldId(v, own, existed) ==
    /\ txns' = txns + 1
    /\ journal' = [kind |-> "install", n |-> txns, release |-> v, cli |-> cli,
                   pointer |-> pointer, existed |-> existed, marker |-> own]
    /\ job' = [job EXCEPT !.n = txns', !.release = v, !.then = "ok", !.prior = <<cli, pointer>>]
    /\ UNCHANGED <<cli, pointer, receipts, stage, tmp, project, fate, bounds>>

\* The journal of a transaction that will make n' the current installation.
Journal(v, own, existed) ==
    /\ txns' = txns + 1
    /\ journal' = [kind |-> "install", n |-> txns', release |-> v, cli |-> cli,
                   pointer |-> pointer, existed |-> existed, marker |-> own]
    /\ job' = [job EXCEPT !.n = txns', !.release = v, !.then = "ok", !.prior = <<cli, pointer>>]
    /\ UNCHANGED <<cli, pointer, receipts, stage, tmp, project, fate, bounds>>

InstallPlan ==
    LET v == job.release  existed == stage[v] # "absent" IN
    /\ pc = "plan" /\ job.op = "install"
    /\ IF IsCurrent(v)
       THEN pc' = "ok" /\ UNCHANGED <<files, job, fate, txns, bounds>>
       ELSE /\ pc' = IF existed THEN "digest" ELSE "copy"
            /\ Journal(v, job.init /\ project.maker = None, existed)

Copy == /\ Step("copy", "publish") /\ tmp' = tmp \cup {job.release}
        /\ UNCHANGED <<cli, pointer, receipts, stage, journal, project, fate>>

Publish == /\ Step("publish", "receipt")
           /\ stage' = [stage EXCEPT ![job.release] = "whole"] /\ tmp' = tmp \ {job.release}
           /\ UNCHANGED <<cli, pointer, receipts, journal, project, fate>>

\* A stage that was there must have the bytes of the release; else Error.
Digest == /\ Step("digest", "receipt") /\ stage[job.release] = "whole"
          /\ UNCHANGED <<files, fate>>

\* writeInstallReceipt: an atomic write, then the chmod that seals it.
WriteReceipt ==
    /\ Step("receipt", "seal")
    /\ receipts' = [receipts EXCEPT ![job.n] =
                       [release |-> job.release, sealed |-> FALSE, project |-> journal.marker]]
    /\ UNCHANGED <<cli, pointer, stage, tmp, journal, project, fate>>

SealReceipt == /\ Step("seal", "link") /\ receipts' = [receipts EXCEPT ![job.n].sealed = TRUE]
               /\ UNCHANGED <<cli, pointer, stage, tmp, journal, project, fate>>

Link == /\ Step("link", IF journal.marker THEN "mkdir" ELSE "doctor") /\ cli' = job.release
        /\ UNCHANGED <<pointer, receipts, stage, tmp, journal, project, fate>>

\* createTransactionOwnedProjectState; a directory made meanwhile is an Error.
Mkdir == /\ project.maker = None /\ Step("mkdir", "marker")
         /\ project' = [project EXCEPT !.maker = job.n]
         /\ UNCHANGED <<cli, pointer, receipts, stage, tmp, journal, fate>>

WriteMarker == /\ Step("marker", "doctor") /\ project' = [project EXCEPT !.marker = job.n]
               /\ UNCHANGED <<cli, pointer, receipts, stage, tmp, journal, fate>>

Doctor == Step("doctor", "pointer") /\ UNCHANGED <<files, fate>>

\* After it an install clears its marker and the journal, a rollback the journal.
WritePointer ==
    /\ Step("pointer", IF job.op = "install" THEN "clear" ELSE "unjournal")
    /\ pointer' = job.n /\ fate' = [fate EXCEPT ![job.n] = "kept"]
    /\ UNCHANGED <<cli, receipts, stage, tmp, journal, project>>

\* Mutant: the failure is thrown on with nothing restored.
ErrorThrown ==
    /\ pc \in {"copy", "publish", "digest", "receipt", "seal", "link", "mkdir", "marker",
               "doctor", "pointer", "clear", "unjournal"}
    /\ job.op \in {"install", "rollback"} /\ job.then = "ok"
    /\ faults < MaxFault /\ faults' = faults + 1
    /\ pc' = "failed" /\ job' = [job EXCEPT !.then = "failed", !.why = pc]
    /\ UNCHANGED <<files, fate, txns, calls, drifts>>

\* A file operation or the doctor fails: the catch reconciles and throws on.
Error ==
    /\ pc \in {"copy", "publish", "digest", "receipt", "seal", "link", "mkdir", "marker",
               "doctor", "pointer", "clear", "unjournal"}
    /\ job.op \in {"install", "rollback"} /\ job.then = "ok"
    /\ \/ faults < MaxFault /\ faults' = faults + 1
       \/ /\ \/ pc = "digest" /\ stage[job.release] # "whole"
             \/ pc = "mkdir" /\ project.maker # None
             \/ pc = "doctor"
          /\ UNCHANGED faults
    /\ pc' = "reconcile" /\ job' = [job EXCEPT !.then = "failed", !.why = pc]
    /\ UNCHANGED <<files, fate, txns, calls, drifts>>

Install == \/ InstallPlan \/ Copy \/ Publish \/ Digest \/ WriteReceipt \/ SealReceipt \/ Link
           \/ Mkdir \/ WriteMarker \/ Doctor \/ WritePointer \/ Error

-----------------------------------------------------------------------------
(* rollback and repair.                                                    *)

RollbackPlan ==
    /\ pc = "plan" /\ job.op = "rollback"
    /\ IF Installable(job.n) /\ cli \notin Foreign
          /\ ~(Readable(pointer) /\ receipts[pointer].release = receipts[job.n].release)
       THEN pc' = "receipt" /\ Journal(receipts[job.n].release, FALSE, TRUE)
       ELSE /\ pc' = IF Installable(job.n) /\ Readable(pointer)
                        /\ receipts[pointer].release = receipts[job.n].release
                     THEN "ok" ELSE "failed"
            /\ UNCHANGED <<files, job, fate, txns, bounds>>

Repair ==
    /\ pc = "plan" /\ job.op = "repair"
    /\ Step("plan", IF Installable(pointer) THEN "ok" ELSE "failed")
    /\ cli' = IF Installable(pointer) THEN receipts[pointer].release ELSE cli
    /\ UNCHANGED <<pointer, receipts, stage, tmp, journal, project, fate>>

-----------------------------------------------------------------------------
(* uninstall; from "u_stage" on it is removeReceiptOwned, which a          *)
(* reconciliation of the uninstall's journal runs too.                     *)

Collision(n) ==
    LET v == receipts[n].release IN
    \/ cli \notin {None, v} \/ stage[v] = "partial" \/ pointer \notin {None, n}

UninstallPlan ==
    /\ pc = "plan" /\ job.op = "uninstall"
    /\ IF Readable(job.n) /\ ~Collision(job.n)
       THEN /\ pc' = "u_stage"
            /\ job' = [job EXCEPT !.then = "ok"]
            /\ journal' = [kind |-> "uninstall", n |-> job.n, purge |-> job.init]
            /\ fate' = [m \in Txn |-> IF Readable(m) /\ receipts[m].release = receipts[job.n].release
                                      THEN "dropped" ELSE fate[m]]
            /\ UNCHANGED <<cli, pointer, receipts, stage, tmp, project, txns, bounds>>
       ELSE /\ pc' = IF Readable(job.n) THEN "ok" ELSE "failed"
            /\ UNCHANGED <<files, job, fate, txns, bounds>>

\* A stage whose digest no longer matches is preserved.
RemoveStage ==
    LET v == receipts[journal.n].release IN
    /\ Step("u_stage", IF stage[v] = "whole" THEN "u_rest" ELSE "u_cli")
    /\ stage' = IF stage[v] = "whole" THEN [stage EXCEPT ![v] = "partial"] ELSE stage
    /\ UNCHANGED <<cli, pointer, receipts, tmp, journal, project, fate>>

RemoveRest ==
    /\ Step("u_rest", "u_cli") /\ stage' = [stage EXCEPT ![receipts[journal.n].release] = "absent"]
    /\ UNCHANGED <<cli, pointer, receipts, tmp, journal, project, fate>>

RemoveCli == /\ Step("u_cli", "u_project")
             /\ cli' = IF cli = receipts[journal.n].release THEN None ELSE cli
             /\ UNCHANGED <<pointer, receipts, stage, tmp, journal, project, fate>>

RemoveProject ==
    /\ Step("u_project", "u_pointer")
    /\ project' = IF /\ journal.purge /\ receipts[journal.n].project /\ project.maker # None
                     /\ ~project.data /\ project.marker = None
                  THEN [project EXCEPT !.maker = None] ELSE project
    /\ UNCHANGED <<cli, pointer, receipts, stage, tmp, journal, fate>>

RemovePointer == /\ Step("u_pointer", "unjournal")
                 /\ pointer' = IF pointer = journal.n THEN None ELSE pointer
                 /\ UNCHANGED <<cli, receipts, stage, tmp, journal, project, fate>>

Uninstall == \/ UninstallPlan \/ RemoveStage \/ RemoveRest \/ RemoveCli \/ RemoveProject
             \/ RemovePointer

-----------------------------------------------------------------------------
(* prune --apply.                                                          *)

\* Valid receipts of other stages than the current one, newest first, `keep` of them.
Retained(keep) ==
    LET others == {n \in Txn : /\ Installable(n)
                               /\ Readable(pointer) => receipts[n].release # receipts[pointer].release}
    IN  {n \in others : Cardinality({m \in others : m > n}) < keep}

\* What Cursor's MCP configuration refers to is kept: any releases.  The stage the
\* link leads to is meant to be, but the name computed for it is that of its dist/.
PrunePlan ==
    /\ pc = "plan" /\ job.op = "prune" /\ pc' = "prune"
    /\ \E mcp \in SUBSET Release, keep \in Keep :
         LET referenced == {receipts[n].release : n \in Retained(keep)} \cup mcp
                             \cup (IF Readable(pointer) THEN {receipts[pointer].release} ELSE {})
             unused == {v \in Release \ referenced :
                          \E n \in Txn : Installable(n) /\ receipts[n].release = v}
         IN  /\ job' = [job EXCEPT !.prune = unused]
             /\ fate' = [n \in Txn |-> IF Readable(n) /\ receipts[n].release \in unused
                                       THEN "dropped" ELSE fate[n]]
    /\ tmp' = {}
    /\ UNCHANGED <<cli, pointer, receipts, stage, journal, project, txns, bounds>>

\* A stage, then its receipts, then the next; not every file of a stage goes at once.
PruneStep(v) ==
    /\ pc = "prune" /\ v \in job.prune /\ \A w \in job.prune \ {v} : stage[w] = "whole"
    /\ UNCHANGED <<cli, pointer, tmp, journal, project, pc, fate, txns, bounds>>

OnStage(v) == {n \in Txn : receipts[n] # None /\ receipts[n].release = v}

PruneStage(v) == /\ PruneStep(v) /\ stage[v] # "absent"
                 /\ stage' = [stage EXCEPT ![v] = Less(@)] /\ UNCHANGED <<receipts, job>>

PruneReceipt(v) == /\ PruneStep(v) /\ stage[v] = "absent"
                   /\ \E n \in OnStage(v) : receipts' = [receipts EXCEPT ![n] = None]
                   /\ UNCHANGED <<stage, job>>

PruneNext(v) == /\ PruneStep(v) /\ stage[v] = "absent" /\ OnStage(v) = {}
                /\ job' = [job EXCEPT !.prune = @ \ {v}] /\ UNCHANGED <<stage, receipts>>

PruneDone == /\ pc = "prune" /\ job.prune = {} /\ pc' = "ok"
             /\ UNCHANGED <<files, job, fate, txns, bounds>>

Prune == \/ PrunePlan \/ PruneDone
         \/ \E v \in Release : PruneStage(v) \/ PruneReceipt(v) \/ PruneNext(v)

-----------------------------------------------------------------------------
(* What happens to a call, and around it.                                  *)

\* The process is killed, or an operation fails where nothing catches it.  Before the
\* plan is carried out that leaves what no call leaves.
Kill ==
    /\ pc \notin {"idle", "reconcile", "plan", "ok", "failed"} /\ faults < MaxFault
    /\ pc' = "idle" /\ job' = None /\ faults' = faults + 1
    /\ UNCHANGED <<files, fate, txns, calls, drifts>>

\* The user, or another OMCU command, makes .omcu or writes into it.
UseProject ==
    /\ ~project.data
    /\ \E data \in BOOLEAN :
         project' = [project EXCEPT !.data = data, !.maker = IF @ = None THEN User ELSE @]
    /\ UNCHANGED <<cli, pointer, receipts, stage, tmp, journal, pc, job, fate, txns, bounds>>

\* The user removes the link, or points it to another stage or installation; not while a transaction
\* waits to be reconciled.
Drift ==
    /\ pc = "idle" /\ journal = None /\ drifts < MaxDrift
    /\ cli' \in {None} \cup Foreign \cup {v \in Release : stage[v] = "whole"} /\ cli' # cli
    /\ drifts' = drifts + 1
    /\ UNCHANGED <<pointer, receipts, stage, tmp, journal, project, pc, job, fate, txns, calls, faults>>

Next == \/ Call \/ Return \/ Reconcile \/ Install \/ RollbackPlan \/ Repair
        \/ Uninstall \/ Prune \/ Kill \/ UseProject \/ Drift

Spec == Init /\ [][Next]_vars

-----------------------------------------------------------------------------
(* Properties.                                                             *)

\* Every variable has its type; a journal of an installation that is under way or was
\* interrupted is the one of the newest transaction.
TypeOK ==
    /\ cli \in Target
    /\ pointer \in Txn \cup {None}
    /\ receipts \in [Txn -> Receipt \cup {None}]
    /\ stage \in [Release -> {"absent", "partial", "whole"}] /\ tmp \subseteq Release
    /\ journal \in Installation \cup Removal \cup {None}
    /\ journal # None /\ journal.kind = "install" => journal.n = txns
    /\ project \in [maker : Txn \cup {User, None}, data : BOOLEAN, marker : Txn \cup {None}]
    /\ pc \in Steps /\ job \in Job \cup {None} /\ (pc = "idle" <=> job = None)
    /\ fate \in [Txn -> {"open", "kept", "dropped"}]
    /\ txns \in 0..MaxTxn /\ calls \in 0..MaxCalls
    /\ faults \in 0..MaxFault /\ drifts \in 0..MaxDrift

\* Whenever no journal is left, whatever was killed or failed before: no temporary stage
\* is left, no receipt of a transaction that never committed is offered for rollback, and
\* current.json and the link agree on one installation, or on none.
AtRest ==
    journal = None =>
      /\ tmp = {}
      /\ \A n \in Txn : receipts[n] # None => fate[n] # "open"
      /\ pointer # None => Installable(pointer) /\ fate[pointer] = "kept"
      /\ drifts = 0 => IF pointer = None THEN cli \notin Release
                       ELSE cli = receipts[pointer].release

\* Every transaction that committed stays a target to roll back to, its receipt readable
\* and its stage whole, until prune or uninstall was asked to give it up: neither a failed
\* transaction nor the reconciliation of a killed one takes it away.
TargetsKept == \A n \in Txn : fate[n] = "kept" => Installable(n)

\* ~/.local/bin/omcu never leads into a stage that is missing or incomplete, at any moment
\* of an install, a rollback, a prune or their reconciliation; only an uninstall removes
\* the stage before the link.
LinkRuns ==
    /\ cli \in Release /\ drifts = 0
    /\ journal # None => journal.kind = "install"
    => stage[cli] = "whole"

\* The installation a reader finds after the next reconciliation.
Effective ==
    CASE journal = None -> pointer
      [] journal # None /\ journal.kind = "uninstall" -> None
      [] OTHER -> IF Committed THEN journal.n ELSE journal.pointer

\* All or nothing: what will be installed once everything is reconciled changes at two
\* moments only, the write of current.json by a transaction and the write of an
\* uninstall's journal; no other step, kill or reconciliation changes it.
AllOrNothing ==
    Effective' # Effective => \/ pc = "pointer" /\ Effective' = job.n
                              \/ pc = "plan" /\ job.op = "uninstall" /\ Effective' = None

\* "If staging or the post-install doctor fails, the installer restores the previous link
\* and pointer" (docs/installation.md): the call failed before its commit and was not killed.
Restored == [][pc # "failed" /\ pc' = "failed" /\ job'.why \notin {None, "clear", "unjournal"}
                 => <<cli', pointer'>> = job'.prior]_vars

\* So it does, when the previous link led into this state root, whichever operation failed
\* and whatever was left over from before.
FailureRestores ==
    pc # "failed" /\ pc' = "failed" /\ job'.why \notin {None, "clear", "unjournal"}
        => job'.prior[1] \in Foreign \/ <<cli', pointer'>> = job'.prior

\* A .omcu that holds data is never removed, nor an empty one that the installer did not
\* make, even when it appears while the installer is about to make or to remove its own;
\* --purge removes whatever empty directory it finds.
ProjectKept ==
    project.maker # None /\ project'.maker # project.maker
        => ~project.data /\ (project.maker = User => pc = "u_project")
=============================================================================
