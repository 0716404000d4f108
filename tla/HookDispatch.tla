---------------------------- MODULE HookDispatch ----------------------------
(***************************************************************************)
(* Cursor's hooks (hooks/registry.ts, hooks/dispatcher.ts and the script   *)
(* hooks/omcu-hook.mjs that Cursor runs).  A registry holds handlers in    *)
(* tiers; dispatchHook() takes an ordered copy of those for the event and  *)
(* asks them one after another, giving each a time limit.  A handler that  *)
(* exceeds it is given up, not stopped: it works on beside the next ones.  *)
(* Before a tool is used the script asks a CLI of its own, whose registry  *)
(* holds the built-in handlers only, and allows whatever it is not told to *)
(* refuse.                                                                 *)
(*                                                                         *)
(* What the safety rules look for in a command is the kind of the input.   *)
(***************************************************************************)
EXTENDS Naturals, Sequences, FiniteSets, SequencesExt

CONSTANTS
    Dispatch,       \* calls of dispatchHook, each made once
    None,
    MaxRegister     \* bound: handlers registered by others

VARIABLES
    handlers,   \* the registry: per id a handler, or None
    dispatch,   \* per call: pc, input, the handlers to ask, their answers, and what was returned
    late,       \* handlers given up that still work, with the call that asked them
    host,       \* the script: pc, input, what its CLI printed, and what it told Cursor
    registered

vars == <<handlers, dispatch, late, host, registered>>

\* Ids in the order that breaks ties; "custom" is a handler that is not built in.
Ids == <<"custom", "lifecycle_pre_tool", "persist_stop", "pre_step_gate">>
Id == Range(Ids)
Event == {"preToolUse", "stop"}
Handler == [id: Id, event: Event, tier: 1 .. 5, priority: {10, 15, 20}, closed: BOOLEAN,
            immutable: BOOLEAN, builtin: BOOLEAN]

\* The safety rules of tier 1, and one of the handlers that others may replace.
builtinHandlers ==
    {[id |-> "pre_step_gate", event |-> "preToolUse", tier |-> 1, priority |-> 10,
      closed |-> TRUE, immutable |-> TRUE, builtin |-> TRUE],
     [id |-> "lifecycle_pre_tool", event |-> "preToolUse", tier |-> 1, priority |-> 20,
      closed |-> TRUE, immutable |-> TRUE, builtin |-> TRUE],
     [id |-> "persist_stop", event |-> "stop", tier |-> 3, priority |-> 10,
      closed |-> FALSE, immutable |-> FALSE, builtin |-> TRUE]}

registerBuiltinHandlers ==
    [i \in Id |-> IF \E h \in builtinHandlers: h.id = i
                  THEN CHOOSE h \in builtinHandlers: h.id = i ELSE None]

\* None is no handler, and nothing that is answered.
NoneFits == None \notin Handler \cup {"event", "allowed", "denied", "thrown", "refused"}

\* What an embedder registers.
Registrable == {h \in Handler: h.tier \in {1, 3} /\ h.priority = 15 /\ ~h.builtin}

\* A probe carries a nonce; invalid input is too large or cannot be parsed.
Input == [event: Event \cup {"unknown"}, kind: {"safe", "unsafe", "probe", "invalid"}]

Unasked == [pc |-> "idle", input |-> None, todo |-> {}, passed |-> {}, followup |-> None,
            verdict |-> None, cleared |-> {}, accuser |-> None]
Absent == [pc |-> "idle", kind |-> None, printed |-> None, told |-> None]

Init ==
    /\ handlers = registerBuiltinHandlers
    /\ dispatch = [d \in Dispatch |-> Unasked]
    /\ late = {}
    /\ host = Absent
    /\ registered = 0

-----------------------------------------------------------------------------
(* The registry.                                                            *)

\* register: an immutable handler cannot be replaced, and tier 1 is for immutable ones.
OverridesNever(h) == FALSE
Overrides(h) == handlers[h.id] # None /\ handlers[h.id].immutable
ClaimsTier(h) == h.tier = 1 /\ ~h.immutable

Register(h) ==
    /\ registered < MaxRegister /\ registered' = registered + 1
    /\ ~Overrides(h) /\ ~ClaimsTier(h)
    /\ handlers' = [handlers EXCEPT ![h.id] = h]
    /\ UNCHANGED <<dispatch, late, host>>

Reset ==
    /\ registered = MaxRegister
    /\ handlers' = registerBuiltinHandlers
    /\ UNCHANGED <<dispatch, late, host, registered>>

Position(i) == CHOOSE k \in DOMAIN Ids: Ids[k] = i
Before(a, b) ==
    \/ a.tier < b.tier
    \/ a.tier = b.tier /\ a.priority < b.priority
    \/ a.tier = b.tier /\ a.priority = b.priority /\ Position(a.id) < Position(b.id)

\* The handlers of an event, and the first by sortHandlers of those that are left to ask.
getOrderedHandlersForEvent(event) ==
    {handlers[i]: i \in {j \in Id: handlers[j] # None /\ handlers[j].event = event}}
First(todo) == CHOOSE h \in todo: \A g \in todo: ~Before(g, h)

-----------------------------------------------------------------------------
(* dispatchHook.                                                            *)

Return(d, verdict, accuser) ==
    dispatch' = [dispatch EXCEPT ![d].pc = "done", ![d].todo = {}, ![d].verdict = verdict,
                                 ![d].cleared = dispatch[d].passed, ![d].accuser = accuser]
Asked(d) == First(dispatch[d].todo)
Onward(d) == dispatch' = [dispatch EXCEPT ![d].pc = "next", ![d].todo = @ \ {Asked(d)}]

Begin(d, input) ==
    /\ dispatch[d].pc = "idle"
    /\ dispatch' = [dispatch EXCEPT ![d] =
         IF input.kind = "invalid"
         THEN [Unasked EXCEPT !.pc = "done", !.input = input, !.verdict = "thrown"]
         ELSE IF input.kind = "probe"
         THEN [Unasked EXCEPT !.pc = "done", !.input = input, !.verdict = "allowed"]
         ELSE IF input.event \notin Event
         THEN [Unasked EXCEPT !.pc = "done", !.input = input, !.verdict = "denied",
                              !.accuser = "event"]
         ELSE [Unasked EXCEPT !.pc = "next", !.input = input,
                              !.todo = getOrderedHandlersForEvent(input.event)]]
    /\ UNCHANGED <<handlers, late, host, registered>>

\* A safety rule answers before anything else can happen, the others take their time.
Safe(kind) == kind = "safe"
Ask(d) ==
    /\ dispatch[d].pc = "next" /\ dispatch[d].todo # {}
    /\ IF Asked(d).builtin /\ Asked(d).tier = 1
       THEN IF Safe(dispatch[d].input.kind)
            THEN dispatch' = [dispatch EXCEPT ![d].todo = @ \ {Asked(d)}, ![d].passed = @ \cup {Asked(d)}]
            ELSE Return(d, "denied", Asked(d))
       ELSE dispatch' = [dispatch EXCEPT ![d].pc = "waiting"]
    /\ UNCHANGED <<handlers, late, host, registered>>

Pass(d) ==
    /\ dispatch[d].pc = "waiting"
    /\ \E followup \in {dispatch[d].followup, Asked(d).id}:
         dispatch' = [dispatch EXCEPT ![d].pc = "next", ![d].todo = @ \ {Asked(d)},
                                      ![d].passed = @ \cup {Asked(d)}, ![d].followup = followup]
    /\ UNCHANGED <<handlers, late, host, registered>>

Deny(d) ==
    /\ dispatch[d].pc = "waiting" /\ ~Asked(d).builtin
    /\ Return(d, "denied", Asked(d))
    /\ UNCHANGED <<handlers, late, host, registered>>

\* Whatever its policy says, a handler of tier 1 fails closed.
FailsClosedByPolicy(h) == h.closed
FailsClosed(h) == h.closed \/ h.tier = 1
Failed(d) == IF FailsClosed(Asked(d)) THEN Return(d, "denied", Asked(d)) ELSE Onward(d)

Throw(d) ==
    /\ dispatch[d].pc = "waiting" /\ ~Asked(d).builtin
    /\ Failed(d)
    /\ UNCHANGED <<handlers, late, host, registered>>

Timeout(d) ==
    /\ dispatch[d].pc = "waiting"
    /\ Failed(d)
    /\ late' = late \cup {<<d, Asked(d)>>}
    /\ UNCHANGED <<handlers, host, registered>>

\* The answer of a handler that was given up is for nobody.
AnswerLate(w) ==
    /\ late' = late \ {w}
    /\ UNCHANGED <<handlers, dispatch, host, registered>>

Finish(d) ==
    /\ dispatch[d].pc = "next" /\ dispatch[d].todo = {}
    /\ Return(d, "allowed", None)
    /\ UNCHANGED <<handlers, late, host, registered>>

-----------------------------------------------------------------------------
(* The script before a tool is used: preToolAudit, then the answer that     *)
(* expresses no decision of its own.                                        *)

\* No CLI, nothing to ask.
HostSpawn(kind) ==
    /\ host.pc = "idle"
    /\ host' = IF kind = "invalid"
               THEN [host EXCEPT !.pc = "done", !.kind = kind, !.told = "error"]
               ELSE [host EXCEPT !.pc = "spawned", !.kind = kind]
    /\ UNCHANGED <<handlers, dispatch, late, registered>>

\* omcu hooks test preToolUse: the verdict of the built-in rules, none of which waits.
CliPrint ==
    /\ host.pc = "spawned" /\ host.printed = None
    /\ host' = [host EXCEPT !.printed = IF host.kind = "probe" \/ Safe(host.kind)
                                        THEN "ok" ELSE "refused"]
    /\ UNCHANGED <<handlers, dispatch, late, registered>>

\* The CLI ended, was killed at its time limit (timers of its handlers keep it alive after
\* it printed), crashed, or was never there.
Audited(printed) == IF printed = "refused" THEN "denied" ELSE "allowed"
HostRead ==
    /\ host.pc = "spawned"
    /\ host' = [host EXCEPT !.pc = "done", !.told = Audited(host.printed)]
    /\ UNCHANGED <<handlers, dispatch, late, registered>>

-----------------------------------------------------------------------------
Next ==
    \/ \E h \in Registrable: Register(h)
    \/ Reset
    \/ \E d \in Dispatch:
         \/ \E input \in Input: Begin(d, input)
         \/ Ask(d) \/ Pass(d) \/ Deny(d) \/ Throw(d) \/ Timeout(d) \/ Finish(d)
    \/ \E w \in late: AnswerLate(w)
    \/ \E kind \in {"safe", "unsafe", "probe", "invalid"}: HostSpawn(kind)
    \/ CliPrint \/ HostRead

Spec == Init /\ [][Next]_vars

TypeOK ==
    /\ handlers \in [Id -> Handler \cup {None}]
    /\ \A i \in Id: handlers[i] # None => handlers[i].id = i
    /\ \A d \in Dispatch:
         /\ dispatch[d].pc \in {"idle", "next", "waiting", "done"}
         /\ dispatch[d].input \in Input \cup {None}
         /\ dispatch[d].todo \subseteq Handler
         /\ dispatch[d].passed \subseteq Handler
         /\ dispatch[d].verdict \in {None, "allowed", "denied", "thrown"}
    /\ late \subseteq Dispatch \X Handler
    /\ host.pc \in {"idle", "spawned", "done"}

-----------------------------------------------------------------------------
\* However handlers are registered, replaced, time out and throw, what is allowed before a
\* tool is used was passed by both safety rules and by every handler of tier 1 that was
\* asked; nothing but a refusal or a closed failure denies; and what the CLI had printed
\* counts even when it is killed afterwards.
SafetyFirst ==
    /\ \A d \in Dispatch:
         /\ /\ dispatch[d].verdict = "allowed"
            /\ dispatch[d].input.kind # "probe"
            /\ dispatch[d].input.event = "preToolUse"
            => /\ {h \in builtinHandlers: h.tier = 1} \subseteq dispatch[d].cleared
               /\ Safe(dispatch[d].input.kind)
               /\ ~\E w \in late: w[1] = d /\ (w[2].tier = 1 \/ w[2].closed)
         /\ dispatch[d].verdict = "denied" => dispatch[d].accuser # None
    /\ host.told = "denied" <=> host.pc = "done" /\ host.printed = "refused"
=============================================================================
