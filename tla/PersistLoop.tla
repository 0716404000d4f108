---------------------------- MODULE PersistLoop ----------------------------
(***************************************************************************)
(* The persist loop: the state file and its operators (persist/state.ts),  *)
(* the decision whether a stopped turn continues (persist/decision.ts),    *)
(* the commands around them (cli/local-services.ts) and the stop hook that *)
(* asks for a decision and fences it (hooks/omcu-hook.mjs).                *)
(*                                                                         *)
(* Every command holds the lock of the file from its read to its write, so *)
(* that a command is one step; the hook calls two commands, and the        *)
(* operator's come in between.  Stop events arrive in any order, late and  *)
(* more than once.                                                         *)
(***************************************************************************)
EXTENDS Naturals, Sequences, FiniteSets

CONSTANTS
    Hook,       \* stop events that are handled at the same time
    Event,      \* event ids a host may send
    None,
    MaxLoop,    \* bound: largest loop count the host sends
    MaxLoops,   \* bound: largest budget of a loop
    MaxStops,   \* bound: stop events
    MaxOps      \* bound: commands of the operator

VARIABLES
    file,       \* persist.json, or None
    hook,       \* per hook: pc, the decision it was given
    session,    \* history: how many loops were started
    followups,  \* history: what was delivered, as [session, loop]
    expired,    \* the deadline of the file has passed
    stops, ops

vars == <<file, hook, session, followups, expired, stops, ops>>

Max2(a, b) == IF a > b THEN a ELSE b
NoDecision == [pc |-> "idle", session |-> 0, loop |-> 0, revision |-> 0]

File ==
    [active: BOOLEAN, done: BOOLEAN, max: 1 .. MaxLoops, consumed: Nat, host: Nat \cup {None},
     revision: Nat, event: Event \cup Nat \cup {None}, legacy: BOOLEAN]

Decision == [pc: {"idle", "fence"}, session: Nat, loop: Nat, revision: Nat]

\* None is neither a count nor a file.
NoneFits == None \notin Nat \cup File

\* A file of schema version 1 counts nothing, or what an older version counted.
LegacyFiles ==
    [active: BOOLEAN, done: BOOLEAN, max: 1 .. MaxLoops, consumed: {0, 1}, host: {None},
     revision: {0}, event: {None}, legacy: {TRUE}]

Init ==
    /\ file \in LegacyFiles \cup {None}
    /\ hook = [h \in Hook |-> NoDecision]
    /\ session = 0
    /\ followups = <<>>
    /\ expired = FALSE
    /\ stops = 0 /\ ops = 0

-----------------------------------------------------------------------------
(* startPersist, stopPersist, completePersist.                             *)

Operator == ops < MaxOps /\ ops' = ops + 1

Start(max) ==
    /\ Operator
    /\ file' = [active |-> TRUE, done |-> FALSE, max |-> max, consumed |-> 0, host |-> None,
                revision |-> (IF file = None THEN 0 ELSE file.revision) + 1, event |-> None, legacy |-> FALSE]
    /\ session' = session + 1
    /\ expired' = FALSE
    /\ UNCHANGED <<hook, followups, stops>>

Stop ==
    /\ Operator /\ file # None
    /\ file' = [file EXCEPT !.active = FALSE, !.revision = @ + 1, !.legacy = FALSE]
    /\ UNCHANGED <<hook, session, followups, expired, stops>>

Complete ==
    /\ Operator /\ file # None
    /\ file' = [file EXCEPT !.active = FALSE, !.done = TRUE, !.revision = @ + 1, !.legacy = FALSE]
    /\ UNCHANGED <<hook, session, followups, expired, stops>>

Expire ==
    /\ file # None /\ ~ expired
    /\ expired' = TRUE
    /\ UNCHANGED <<file, hook, session, followups, stops, ops>>

-----------------------------------------------------------------------------
(* decidePersist.  The event id is the one the host sends, or is made from *)
(* the loop count (n itself stands for it).                                *)

Baseline(n) == IF file.legacy THEN Max2(file.consumed, n) ELSE file.consumed

Continues(status, n, e) ==
    /\ file # None
    /\ status = "completed"
    /\ file.active /\ ~ file.done
    /\ ~ expired
    /\ file.host # None => n > file.host
    /\ Baseline(n) < file.max /\ n < file.max
    /\ e # file.event

Granted(n, e) ==
    [file EXCEPT !.consumed = Baseline(n) + 1, !.host = n, !.revision = @ + 1, !.event = e, !.legacy = FALSE]

(* "omcu persist decide", started by the hook with the text of a stop      *)
(* event.  The process may be killed, or not answer in time, after it      *)
(* wrote: then the loop is used up and nothing is delivered.               *)
Decide(h, status, n, e) ==
    /\ hook[h].pc = "idle" /\ stops < MaxStops
    /\ stops' = stops + 1
    /\ IF Continues(status, n, e)
       THEN /\ file' = Granted(n, e)
            /\ hook' \in {[hook EXCEPT ![h] = [pc |-> "fence", session |-> session, loop |-> n,
                                               revision |-> file.revision + 1]],
                          hook}
       ELSE UNCHANGED <<file, hook>>
    /\ UNCHANGED <<session, followups, expired, ops>>

\* Mutant: the fence looks at the flags only, not at the revision.
FenceFlags(d) == file # None /\ file.active /\ ~ file.done

Fence(d) == file # None /\ file.active /\ ~ file.done /\ file.revision = d.revision

(* "omcu persist status": what the decision was made on must still be      *)
(* there.  No answer is no follow-up.                                      *)
Deliver(h) ==
    /\ hook[h].pc = "fence"
    /\ hook' = [hook EXCEPT ![h] = NoDecision]
    /\ \/ Fence(hook[h])
          /\ followups' = Append(followups, [session |-> hook[h].session, loop |-> hook[h].loop])
       \/ UNCHANGED followups
    /\ UNCHANGED <<file, session, expired, stops, ops>>

Next ==
    \/ \E max \in 1 .. MaxLoops: Start(max)
    \/ Stop \/ Complete \/ Expire
    \/ \E h \in Hook:
        \/ \E status \in {"completed", "aborted"}, n \in 0 .. MaxLoop:
            \E e \in Event \cup {n}: Decide(h, status, n, e)
        \/ Deliver(h)

Spec == Init /\ [][Next]_vars
-----------------------------------------------------------------------------
TypeOK ==
    /\ file \in File \cup {None}
    /\ hook \in [Hook -> Decision]

\* The follow-ups of a loop.
Since(s) == {i \in DOMAIN followups: followups[i].session = s}

(* A loop is bounded however its stop events are repeated, reordered and   *)
(* interleaved: what is delivered belongs to the loop that is running now, *)
(* not to one that was stopped, finished or started anew in between; each  *)
(* loop delivers at most as often as its budget says, and no loop count of *)
(* the host twice or after a larger one.                                   *)
FollowupsBounded ==
    followups' # followups =>
        LET mine == Since(session)' IN
        /\ file.active /\ ~ file.done
        /\ followups'[Len(followups')].session = session
        /\ Cardinality(mine) <= file.consumed /\ file.consumed <= file.max
        /\ \A i, j \in mine: i < j => followups'[i].loop < followups'[j].loop
=============================================================================
