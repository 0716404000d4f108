----------------------------- MODULE AtomicFile -----------------------------
(***************************************************************************)
(* Atomic writes (runtime/atomic.ts): atomicWriteJson and atomicWriteText  *)
(* replace a file, atomicCreateJson and atomicCreateText create one.  The  *)
(* caller binds the directory it has validated; a helper process enters    *)
(* it, compares, sweeps old temporary files away, writes a temporary file  *)
(* and renames or links it to its name.  A helper that fails or dies is    *)
(* followed by a second one that removes the temporary file.               *)
(*                                                                         *)
(* A Writer is one call.  Nothing but the directory orders the calls; the  *)
(* directory itself may be replaced under its pathname.  A helper outlives *)
(* the process that started it.                                            *)
(***************************************************************************)
EXTENDS Naturals, FiniteSets

CONSTANTS
    Writer,
    Dir,        \* directories; the pathname leads to one of them at a time
    None,
    MaxFault,   \* bound: failing operations and kills
    MaxSwap     \* bound: replacements of the directory

VARIABLES
    path,       \* the directory the pathname leads to
    file,       \* per directory: what the target is, None or [by, whole]
    temp,       \* per writer: its temporary file, None or [in, whole, aged, name]
    writer,     \* per writer: pc, the directory it validated, the one its helper is in, what is known
    outcome,    \* per writer: what its caller was told, or None
    visible,    \* history: writers whose value was at the target
    clobbered,  \* history: a create replaced a file
    writeFaults, swaps

vars == <<path, file, temp, writer, outcome, visible, clobbered, writeFaults, swaps>>

Outcome == {"committed", "not_committed", "commit_durability_unknown"}

\* None is no answer to a caller.
NoneFits == None \notin Outcome

Idle == [pc |-> "idle", exclusive |-> FALSE, secured |-> None, pinned |-> None,
         committed |-> FALSE, unknown |-> FALSE, parent |-> TRUE, evidence |-> FALSE]

Init ==
    /\ path \in Dir
    /\ file \in [Dir -> {None, [by |-> None, whole |-> TRUE]}]
    /\ temp = [w \in Writer |-> None]
    /\ writer = [w \in Writer |-> Idle]
    /\ outcome = [w \in Writer |-> None]
    /\ visible = {}
    /\ clobbered = FALSE
    /\ writeFaults = 0
    /\ swaps = 0

Goto(w, l) == writer' = [writer EXCEPT ![w].pc = l]
Returns(w, o, l) ==
    /\ outcome' = [outcome EXCEPT ![w] = o]
    /\ Goto(w, l)

-----------------------------------------------------------------------------
(* secureFilePath walks to the directory and remembers its identity.       *)
SecureFilePath(w, exclusive) ==
    /\ writer[w].pc = "idle"
    /\ writer' = [writer EXCEPT ![w] = [Idle EXCEPT !.pc = "secured", !.exclusive = exclusive,
                                                    !.secured = path]]
    /\ UNCHANGED <<path, file, temp, outcome, visible, clobbered, writeFaults, swaps>>

(* A value that cannot be serialised or is too large, a directory that     *)
(* fails its validation, and for a create a file that is there already.    *)
Refuse(w) ==
    /\ \/ writer[w].pc = "idle"
       \/ writer[w].pc = "secured" /\ writer[w].exclusive /\ file[path] # None
    /\ Returns(w, "not_committed", "done")
    /\ UNCHANGED <<path, file, temp, visible, clobbered, writeFaults, swaps>>

\* Mutant: the helper works in whatever directory it was started in.
SameDirectoryAlways(w) == TRUE

SameDirectory(w) == path = writer[w].secured

(* runBoundHelper: the helper starts in the directory of the pathname and  *)
(* compares it with the one that was validated; from then on its own       *)
(* directory is pinned.                                                    *)
StartHelper(w) ==
    /\ writer[w].pc = "secured"
    /\ writer[w].exclusive => file[path] = None
    /\ IF SameDirectory(w)
       THEN writer' = [writer EXCEPT ![w].pc = "sweep", ![w].pinned = path]
       ELSE Goto(w, "failed")
    /\ UNCHANGED <<path, file, temp, outcome, visible, clobbered, writeFaults, swaps>>

\* cleanupOld: any of the generated names that are old enough, whoever wrote them.
Sweepable(d) == {u \in Writer: temp[u] # None /\ temp[u].in = d /\ temp[u].aged
                               /\ temp[u].name = "generated"}

CleanupOld(w) ==
    /\ writer[w].pc = "sweep"
    /\ \E removed \in SUBSET Sweepable(writer[w].pinned):
            temp' = [u \in Writer |-> IF u \in removed THEN None ELSE temp[u]]
    /\ Goto(w, "open")
    /\ UNCHANGED <<path, file, outcome, visible, clobbered, writeFaults, swaps>>

OpenTemp(w) ==
    /\ writer[w].pc = "open"
    /\ temp' = [temp EXCEPT ![w] = [in |-> writer[w].pinned, whole |-> FALSE, aged |-> FALSE,
                                    name |-> "generated"]]
    /\ Goto(w, "write")
    /\ UNCHANGED <<path, file, outcome, visible, clobbered, writeFaults, swaps>>

\* The open file is written and synced even when its name is gone.
WriteTemp(w) ==
    /\ writer[w].pc = "write"
    /\ temp' = IF temp[w] = None THEN temp ELSE [temp EXCEPT ![w].whole = TRUE]
    /\ Goto(w, "commit")
    /\ UNCHANGED <<path, file, outcome, visible, clobbered, writeFaults, swaps>>

Publish(w, d) ==
    /\ file' = [file EXCEPT ![d] = [by |-> w, whole |-> temp[w].whole]]
    /\ visible' = visible \cup {w}

\* link(2) fails when the name is taken; rename(2) replaces.
NameFree(w, d) == writer[w].exclusive => file[d] = None

Commit(w) ==
    LET d == writer[w].pinned IN
    /\ writer[w].pc = "commit"
    /\ IF temp[w] = None \/ ~ NameFree(w, d)
       THEN Goto(w, "failed") /\ UNCHANGED <<file, temp, visible, clobbered>>
       ELSE /\ Publish(w, d)
            /\ clobbered' = (clobbered \/ (writer[w].exclusive /\ file[d] # None))
            /\ writer' = [writer EXCEPT ![w].committed = TRUE,
                              ![w].pc = IF writer[w].exclusive THEN "unlink" ELSE "sync"]
            /\ temp' = IF writer[w].exclusive THEN temp ELSE [temp EXCEPT ![w] = None]
    /\ UNCHANGED <<path, outcome, writeFaults, swaps>>

UnlinkTemp(w) ==
    /\ writer[w].pc = "unlink"
    /\ IF temp[w] = None THEN Goto(w, "failed") /\ UNCHANGED temp
       ELSE temp' = [temp EXCEPT ![w] = None] /\ Goto(w, "sync")
    /\ UNCHANGED <<path, file, outcome, visible, clobbered, writeFaults, swaps>>

SyncDirectory(w) ==
    /\ writer[w].pc = "sync"
    /\ IF writer[w].parent THEN Returns(w, "committed", "done") ELSE Goto(w, "done") /\ UNCHANGED outcome
    /\ UNCHANGED <<path, file, temp, visible, clobbered, writeFaults, swaps>>

-----------------------------------------------------------------------------
HelperPc == {"sweep", "open", "write", "commit", "unlink", "sync"}

(* An operation of the helper fails, which it reports with "committed", or *)
(* the helper is killed and its parent cannot know.                        *)
HelperFails(w) ==
    /\ writer[w].pc \in HelperPc /\ writeFaults < MaxFault
    /\ writeFaults' = writeFaults + 1
    /\ Goto(w, "failed")
    /\ UNCHANGED <<path, file, temp, outcome, visible, clobbered, swaps>>

\* Mutant: a helper that died is taken for one that wrote nothing.
UncertainNever(w) == FALSE

Uncertain(w) == TRUE

HelperKilled(w) ==
    /\ writer[w].pc \in HelperPc /\ writeFaults < MaxFault
    /\ writeFaults' = writeFaults + 1
    /\ writer' = [writer EXCEPT ![w].pc = "failed", ![w].committed = FALSE,
                                ![w].unknown = Uncertain(w)]
    /\ UNCHANGED <<path, file, temp, outcome, visible, clobbered, swaps>>

Verdict(w) ==
    IF writer[w].unknown \/ writer[w].committed THEN "commit_durability_unknown" ELSE "not_committed"

\* What the caller was told comes with the file that could not be removed.
Told(w, evidence) ==
    /\ outcome' = [outcome EXCEPT ![w] = Verdict(w)]
    /\ writer' = [writer EXCEPT ![w].pc = "done", ![w].evidence = evidence]

(* The catch block: a committed replacement has no temporary file left;    *)
(* otherwise cleanup-temp runs, in the directory if it is still the same.  *)
CleanupTemp(w) ==
    /\ writer[w].pc = "failed" /\ writer[w].parent
    /\ \/ /\ writer[w].committed /\ ~ writer[w].exclusive
          /\ Told(w, FALSE) /\ UNCHANGED <<temp, writeFaults>>
       \/ /\ ~ (writer[w].committed /\ ~ writer[w].exclusive)
          /\ SameDirectory(w)
          /\ temp' = [temp EXCEPT ![w] = None]
          /\ Told(w, FALSE) /\ UNCHANGED writeFaults
       \/ /\ ~ (writer[w].committed /\ ~ writer[w].exclusive)
          /\ ~ SameDirectory(w)
          /\ Told(w, TRUE) /\ UNCHANGED <<temp, writeFaults>>
    /\ UNCHANGED <<path, file, visible, clobbered, swaps>>

(* The unlink fails, or the helper of cleanup-temp dies and quarantine-temp *)
(* follows: the file is renamed out of the way, if that succeeds.          *)
CleanupFails(w) ==
    /\ writer[w].pc = "failed" /\ writer[w].parent /\ writeFaults < MaxFault
    /\ ~ (writer[w].committed /\ ~ writer[w].exclusive)
    /\ writeFaults' = writeFaults + 1
    /\ temp' \in {temp} \cup
            (IF temp[w] # None /\ SameDirectory(w) THEN {[temp EXCEPT ![w].name = "failed"]} ELSE {})
    /\ Told(w, TRUE)
    /\ UNCHANGED <<path, file, visible, clobbered, swaps>>

(* The calling process is killed: its helper finishes what it was told.    *)
ParentKilled(w) ==
    /\ writer[w].pc \notin {"idle", "done"} /\ writer[w].parent /\ writeFaults < MaxFault
    /\ writeFaults' = writeFaults + 1
    /\ writer' = [writer EXCEPT ![w].parent = FALSE, ![w].pc = IF @ = "secured" THEN "done" ELSE @]
    /\ UNCHANGED <<path, file, temp, outcome, visible, clobbered, swaps>>

(* Another process renames the directory and puts another in its place.    *)
Swap ==
    /\ swaps < MaxSwap
    /\ swaps' = swaps + 1
    /\ path' \in Dir \ {path}
    /\ UNCHANGED <<file, temp, writer, outcome, visible, clobbered, writeFaults>>

(* A day passes: what is there is old, also if its writer only slept.      *)
DayPasses ==
    /\ \E w \in Writer: temp[w] # None /\ ~ temp[w].aged
    /\ temp' = [w \in Writer |-> IF temp[w] = None THEN None ELSE [temp[w] EXCEPT !.aged = TRUE]]
    /\ UNCHANGED <<path, file, writer, outcome, visible, clobbered, writeFaults, swaps>>

Finished ==
    /\ \A w \in Writer: writer[w].pc = "done" \/ (writer[w].pc = "failed" /\ ~ writer[w].parent)
    /\ UNCHANGED vars

Next ==
    \/ \E w \in Writer:
        \/ \E exclusive \in BOOLEAN: SecureFilePath(w, exclusive)
        \/ Refuse(w) \/ StartHelper(w) \/ CleanupOld(w) \/ OpenTemp(w) \/ WriteTemp(w)
        \/ Commit(w) \/ UnlinkTemp(w) \/ SyncDirectory(w)
        \/ HelperFails(w) \/ HelperKilled(w) \/ CleanupTemp(w) \/ CleanupFails(w) \/ ParentKilled(w)
    \/ Swap \/ DayPasses
    \/ Finished

Spec == Init /\ [][Next]_vars
-----------------------------------------------------------------------------
TypeOK ==
    /\ path \in Dir
    /\ \A d \in Dir: file[d] # None => file[d].by \in Writer \cup {None}
    /\ \A w \in Writer: temp[w] # None =>
            temp[w].in \in Dir /\ temp[w].name \in {"generated", "failed"}
    /\ outcome \in [Writer -> Outcome \cup {None}]
    /\ \A w \in Writer: writer[w].pc \in HelperPc \cup {"idle", "secured", "failed", "done"}

(* What a caller is told is the truth: "committed" was at the target,      *)
(* "not_committed" never was and never will be, also when its helper was   *)
(* killed, slept for a day while others swept, or found the name taken.    *)
(* No reader ever finds half a file, and a create never takes the place of *)
(* a file that was there.                                                  *)
OutcomesTrue ==
    /\ \A w \in Writer:
        /\ outcome[w] = "committed" => w \in visible
        /\ outcome[w] = "not_committed" => w \notin visible
    /\ \A d \in Dir: file[d] # None => file[d].whole
    /\ ~ clobbered

(* Writes stay in the directory that was validated when its name came to   *)
(* lead elsewhere, and a call that returned has removed its temporary file *)
(* or says that it is left.                                                *)
StaysInPlace ==
    /\ \A d \in Dir: file[d] # None /\ file[d].by # None => writer[file[d].by].secured = d
    /\ \A w \in Writer: outcome[w] # None /\ temp[w] # None => writer[w].evidence
=============================================================================
