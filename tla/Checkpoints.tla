---------------------------- MODULE Checkpoints ----------------------------
(***************************************************************************)
(* Checkpoints of a session before its context is compacted:               *)
(* CompactionStore (compaction/index.ts), the preCompact hook              *)
(* (hooks/context-compact.ts) and the command (cli/local-services.ts).     *)
(*                                                                         *)
(* A checkpoint is two files, written under the lock of the second: an     *)
(* immutable one per generation and the pointer current.json, a copy of    *)
(* the newest.  A kill in between leaves a generation nothing points to;   *)
(* the next call of that generation finds it.                              *)
(***************************************************************************)
EXTENDS Naturals, Sequences, SequencesExt

CONSTANTS
    Caller, Payload,
    None,
    MaxCalls,   \* bound: calls of the command and of the hook
    MaxKill     \* bound: kills

VARIABLES
    immutable,  \* generation files, in order: what each holds
    current,    \* generation the pointer names, 0 if there is none
    checkpointLock,
    caller,     \* per caller: pc, expected generation, payload, result of its last call
    fresh,      \* the time, of which the hook puts a new value into every payload
    checkpoints,\* calls begun
    kills

vars == <<immutable, current, checkpointLock, caller, fresh, checkpoints, kills>>

\* None is nobody.
NoneFits == None \notin Caller

Rest == [pc |-> "idle", expected |-> 0, payload |-> None]

Init ==
    /\ immutable = <<>> /\ current = 0
    /\ checkpointLock = None
    /\ caller = [c \in Caller |-> Rest]
    /\ fresh = 0 /\ checkpoints = 0 /\ kills = 0

-----------------------------------------------------------------------------
(* The command names the generation it expects; the hook reads it.         *)

Begin(c, expected, payload) ==
    /\ caller[c].pc = "idle" /\ checkpoints < MaxCalls
    /\ checkpoints' = checkpoints + 1
    /\ caller' = [caller EXCEPT ![c] = [pc |-> "lock", expected |-> expected, payload |-> payload]]

Command(c, expected, payload) ==
    /\ Begin(c, expected, payload)
    /\ UNCHANGED <<immutable, current, checkpointLock, fresh, kills>>

PreCompact(c) ==
    /\ Begin(c, current, fresh)
    /\ fresh' = fresh + 1
    /\ UNCHANGED <<immutable, current, checkpointLock, kills>>

Goto(c, l) == caller' = [caller EXCEPT ![c].pc = l]
End(c) == caller' = [caller EXCEPT ![c] = Rest]

(* Under the lock: the generation must be the expected one, and a file     *)
(* that is there already must hold the same payload.                       *)
Locked(c) ==
    LET d == caller[c]
        next == d.expected + 1
    IN /\ d.pc = "lock" /\ checkpointLock = None
       /\ IF current = d.expected /\ (next \in DOMAIN immutable => immutable[next] = d.payload)
          THEN checkpointLock' = c /\ Goto(c, IF next \in DOMAIN immutable THEN "pointer" ELSE "immutable")
          ELSE UNCHANGED checkpointLock /\ End(c)
       /\ UNCHANGED <<immutable, current, fresh, checkpoints, kills>>

WriteImmutable(c) ==
    /\ caller[c].pc = "immutable"
    /\ immutable' = Append(immutable, caller[c].payload)
    /\ Goto(c, "pointer")
    /\ UNCHANGED <<current, checkpointLock, fresh, checkpoints, kills>>

\* Mutant: the pointer is moved to whatever generation is the newest.
PointerNewest(d) == Len(immutable) + 1

Pointer(d) == d.expected + 1

WritePointer(c) ==
    /\ caller[c].pc = "pointer"
    /\ current' = Pointer(caller[c])
    /\ checkpointLock' = None
    /\ End(c)
    /\ UNCHANGED <<immutable, fresh, checkpoints, kills>>

Kill(c) ==
    /\ caller[c].pc # "idle" /\ kills < MaxKill
    /\ kills' = kills + 1
    /\ checkpointLock' = IF checkpointLock = c THEN None ELSE checkpointLock
    /\ End(c)
    /\ UNCHANGED <<immutable, current, fresh, checkpoints>>

Next ==
    \E c \in Caller:
        \/ \E payload \in Payload, expected \in {current, 0}: Command(c, expected, payload)
        \/ PreCompact(c) \/ Locked(c) \/ WriteImmutable(c) \/ WritePointer(c) \/ Kill(c)

Spec == Init /\ [][Next]_vars
-----------------------------------------------------------------------------
TypeOK ==
    /\ immutable \in Seq(Payload \cup Nat)
    /\ checkpointLock \in Caller \cup {None}
    /\ caller \in [Caller -> [pc: {"idle", "lock", "immutable", "pointer"}, expected: Nat,
                              payload: Payload \cup Nat \cup {None}]]

(* read() and render() answer at any time: the generations up to the       *)
(* pointer are all there and never change, and no call skips or takes back *)
(* one, whatever is killed.                                                *)
CheckpointsKept ==
    /\ IsPrefix(immutable, immutable')
    /\ current' \in {current, current + 1} /\ current' <= Len(immutable')
=============================================================================
