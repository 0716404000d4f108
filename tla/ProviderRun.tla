----------------------------- MODULE ProviderRun -----------------------------
(***************************************************************************)
(* Questions to the CLIs of other providers (providers/base.ts,            *)
(* providers/compare.ts).  execute() runs one with a time limit and a      *)
(* signal that may abort it; compareProviders() runs several side by side  *)
(* and tells how far they agree.  A CLI given up is asked to end and,      *)
(* after a grace, killed, by a timer that does not keep our own process    *)
(* alive; only children, their pipes and our other timers do.              *)
(*                                                                         *)
(* A child may ignore SIGTERM, and leave its pipes to children of its own. *)
(***************************************************************************)
EXTENDS Naturals, FiniteSets

CONSTANTS Provider, None

VARIABLES
    mode,       \* "ask" for one provider, or "compare"
    asked,      \* the providers whose CLI is to be run
    signal,     \* the signal of an ask: "none", "live", or "aborted"
    process,    \* per provider: its child process
    pipes,      \* providers whose pipes are open
    code,       \* per provider: the exit code, None also if it was ended by a signal
    timer,      \* providers whose time limit runs
    killer,     \* per provider: the timer that kills
    outcome,    \* per provider: how execute() ended, None while it has not
    alike,      \* the answers are similar enough to agree
    verdict, artifact,  \* what compareProviders() told, and kept in artifacts/
    ended       \* our process has ended

vars == <<mode, asked, signal, process, pipes, code, timer, killer, outcome, alike, verdict,
          artifact, ended>>

\* None is no outcome and no verdict.
NoneFits == None \notin {"success", "failed", "timeout", "aborted",
                         "full_consensus", "divergent", "partial_consensus"}

Settled(p) == outcome[p] # None

Init ==
    /\ mode \in {"ask", "compare"}
    /\ asked \in (SUBSET Provider) \ {{}}
    /\ mode = "ask" => Cardinality(asked) = 1
    /\ signal \in IF mode = "ask" THEN {"none", "live", "aborted"} ELSE {"none"}
    /\ process = [p \in Provider |-> "none"] /\ pipes = {}
    /\ code = [p \in Provider |-> None]
    /\ timer = {} /\ killer = [p \in Provider |-> "none"]
    /\ outcome = [p \in Provider |-> None]
    /\ alike \in BOOLEAN
    /\ verdict = None /\ artifact = None /\ ended = FALSE

-----------------------------------------------------------------------------
(* execute and defaultProcessRunner.                                        *)

Fixed == UNCHANGED <<mode, asked, alike, verdict, artifact, ended>>
Settle(p, o) == outcome' = [outcome EXCEPT ![p] = o]

\* No such binary, or arguments that are refused: nothing is run.
ExecuteRefused(p) ==
    /\ p \in asked /\ process[p] = "none" /\ ~Settled(p)
    /\ Settle(p, "failed")
    /\ UNCHANGED <<signal, process, pipes, code, timer, killer>> /\ Fixed

Execute(p) ==
    /\ p \in asked /\ process[p] = "none" /\ ~Settled(p)
    /\ \E kind \in {"obedient", "stubborn"}: process' = [process EXCEPT ![p] = kind]
    /\ pipes' = pipes \cup {p} /\ timer' = timer \cup {p}
    /\ UNCHANGED <<signal, code, killer, outcome>> /\ Fixed

Alive(p) == process[p] \in {"obedient", "stubborn"}
KillerNever(p) == killer
KillerAfter(p) == [killer EXCEPT ![p] = "armed"]

\* SIGTERM now, SIGKILL later; the caller is told at once.
GiveUp(p, o) ==
    /\ Settle(p, o)
    /\ timer' = timer \ {p}
    /\ killer' = KillerAfter(p)
    /\ process' = [process EXCEPT ![p] = IF @ = "obedient" THEN "ending" ELSE @]
    /\ UNCHANGED <<pipes, code>>

Timeout(p) ==
    /\ p \in timer
    /\ GiveUp(p, "timeout")
    /\ UNCHANGED signal /\ Fixed

\* Only the event aborts: a signal that was aborted before is not looked at.
Abort(p) ==
    /\ signal = "live" /\ p \in asked
    /\ signal' = "aborted"
    /\ IF process[p] # "none" /\ ~Settled(p)
       THEN GiveUp(p, "aborted")
       ELSE UNCHANGED <<process, pipes, code, timer, killer, outcome>>
    /\ Fixed

\* Timers that do not keep the process alive fire while something else does.
Kill(p) ==
    /\ killer[p] = "armed" /\ ~ended
    /\ killer' = [killer EXCEPT ![p] = "fired"]
    /\ process' = [process EXCEPT ![p] = IF Alive(p) \/ @ = "ending" THEN "killed" ELSE @]
    /\ UNCHANGED <<signal, pipes, code, timer, outcome>> /\ Fixed

\* The child ends: by itself, asked to, or killed (by us or by somebody else).
Exit(p) ==
    /\ process[p] \notin {"none", "exited"}
    /\ process' = [process EXCEPT ![p] = "exited"]
    /\ \E c \in IF process[p] = "killed" THEN {None} ELSE {0, 1, None}:
         code' = [code EXCEPT ![p] = c]
    /\ UNCHANGED <<signal, pipes, timer, killer, outcome>> /\ Fixed

\* A child ended by a signal has no exit code.
ExitCodeZero(c) == IF c = None THEN 0 ELSE c
ExitCode(c) == IF c = None THEN 1 ELSE c

\* "close" comes when the pipes are closed by all who have them.
Close(p) ==
    /\ p \in pipes /\ process[p] = "exited"
    /\ pipes' = pipes \ {p}
    /\ IF Settled(p) THEN UNCHANGED <<timer, outcome>>
       ELSE /\ timer' = timer \ {p}
            /\ Settle(p, IF ExitCode(code[p]) = 0 THEN "success" ELSE "failed")
    /\ UNCHANGED <<signal, process, code, killer>> /\ Fixed

-----------------------------------------------------------------------------
(* compareProviders.                                                        *)

Succeeded == {p \in asked: outcome[p] = "success"}
VerdictOf(successes) ==
    IF successes = asked THEN IF alike THEN "full_consensus" ELSE "divergent"
    ELSE IF successes # {} THEN "partial_consensus" ELSE "failed"

\* An artifact that cannot be written does not fail the comparison.
Compare ==
    /\ mode = "compare" /\ verdict = None
    /\ \A p \in asked: Settled(p)
    /\ verdict' = VerdictOf(Succeeded)
    /\ artifact' \in {None, verdict'}
    /\ UNCHANGED <<mode, asked, signal, process, pipes, code, timer, killer, outcome, alike, ended>>

End ==
    /\ ~ended
    /\ \A p \in asked: Settled(p)
    /\ mode = "compare" => verdict # None
    /\ pipes = {} /\ timer = {} /\ \A p \in asked: process[p] \in {"none", "exited"}
    /\ ended' = TRUE
    /\ UNCHANGED <<mode, asked, signal, process, pipes, code, timer, killer, outcome, alike,
                   verdict, artifact>>

Next ==
    \/ \E p \in Provider:
         \/ ExecuteRefused(p) \/ Execute(p) \/ Timeout(p) \/ Abort(p) \/ Kill(p)
         \/ Exit(p) \/ Close(p)
    \/ Compare \/ End

Spec == Init /\ [][Next]_vars

TypeOK ==
    /\ asked \subseteq Provider /\ pipes \subseteq asked /\ timer \subseteq asked
    /\ process \in [Provider -> {"none", "obedient", "stubborn", "ending", "killed", "exited"}]
    /\ killer \in [Provider -> {"none", "armed", "fired"}]
    /\ outcome \in [Provider -> {None, "success", "failed", "timeout", "aborted"}]
    /\ verdict \in {None, "full_consensus", "divergent", "partial_consensus", "failed"}
    /\ ended \in BOOLEAN

-----------------------------------------------------------------------------
\* Success is told of a child that ended with 0, and only of such; a comparison counts each
\* provider for what it did; and a child that was given up is killed unless it ended, also
\* when it ignores being asked to.
AnswersHonest ==
    /\ \A p \in asked:
         /\ outcome[p] = "success" => process[p] = "exited" /\ code[p] = 0
         /\ Settled(p) /\ Alive(p) => killer[p] = "armed"
    /\ verdict \in {"full_consensus", "divergent"} => \A p \in asked: code[p] = 0
    /\ verdict = "failed" => \A p \in asked: outcome[p] # "success"
    /\ artifact \in {None, verdict}
=============================================================================
