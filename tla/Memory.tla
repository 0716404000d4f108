------------------------------- MODULE Memory -------------------------------
(***************************************************************************)
(* ProjectMemoryStore (memory/index.ts): one file per memory and an index  *)
(* of them, rebuilt under the lock of the index after every change.        *)
(* import decides before it takes the lock what to create and what to      *)
(* replace, stages the records, renames them into place one at a time and  *)
(* rebuilds the index once.  doctor --repair sets aside what cannot be     *)
(* read.  list, search, show and export only read.                         *)
(***************************************************************************)
EXTENDS Naturals, Sequences, FiniteSets, FiniteSetsExt, SequencesExt

CONSTANTS
    Caller, Id,
    Stamps,     \* values of updated_at, as numbers
    None,
    MaxBundle,  \* bound: records of a bundle
    MaxCalls,   \* bound: calls
    MaxFault    \* bound: kills and damaged files

VARIABLES
    records,    \* records/: what each file holds
    index,      \* index.json: ids and their stamps
    memoryLock,
    keeper,     \* per caller: pc, its bundle and policy, what it still has to rename
    overtaken,  \* history: callers whose plan another call has made stale
    memoryCalls, memoryFaults

vars == <<records, index, memoryLock, keeper, overtaken, memoryCalls, memoryFaults>>

Policy == {"reject", "skip", "replace", "newer-wins"}
\* by: place in a bundle, 0 for a put
Record == [at: Stamps, by: 0..MaxBundle]
Corrupt == [at |-> 0, by |-> 0]
Entry == [id: Id, record: Record]

Rest == [pc |-> "idle", bundle |-> <<>>, policy |-> None, before |-> None, todo |-> None]

Init ==
    /\ records = [i \in Id |-> None]
    /\ index = [i \in Id |-> None]
    /\ memoryLock = None
    /\ keeper = [c \in Caller |-> Rest]
    /\ overtaken = {}
    /\ memoryCalls = 0 /\ memoryFaults = 0

-----------------------------------------------------------------------------
Damaged(files) == {i \in Id: files[i] = Corrupt}

Scan(files) == [i \in Id |-> IF files[i] \in Record THEN files[i].at ELSE None]

\* rescanUnlocked: listing the records throws when one of them cannot be read.
Rescan(files) == index' = IF Damaged(files) = {} THEN Scan(files) ELSE index

Planning == {c \in Caller: keeper[c].pc = "plan"}
Writes(files) ==
    /\ records' = files
    /\ overtaken' = IF files = records THEN overtaken ELSE overtaken \cup Planning

Call == memoryCalls < MaxCalls /\ memoryCalls' = memoryCalls + 1

(* put and delete take the lock, write one file and rebuild the index in   *)
(* one go, with no await; only a kill comes in between.                    *)
Change(files) ==
    /\ Call /\ memoryLock = None
    /\ Writes(files)
    /\ \/ Rescan(files) /\ UNCHANGED memoryFaults
       \/ memoryFaults < MaxFault /\ memoryFaults' = memoryFaults + 1 /\ UNCHANGED index
    /\ UNCHANGED <<memoryLock, keeper>>

Put(i, at) == Change([records EXCEPT ![i] = [at |-> at, by |-> 0]])

\* expectedUpdatedAt is what the caller saw, or is not given.
Delete(i, expected) ==
    /\ (expected # None /\ records[i] # None) => records[i] \in Record /\ records[i].at = expected
    /\ Change([records EXCEPT ![i] = None])

RescanOnly == Change(records)

-----------------------------------------------------------------------------
(* computeImportPlan: the record of the bundle that stands for each id,    *)
(* and whether it is written.                                              *)

At(bundle, i) == {k \in DOMAIN bundle: bundle[k].id = i}

\* Mutant: of two records of one id, the later one wins a tie.
NewerOrSame(r, s) == r.at >= s.at

Newer(r, s) == r.at > s.at

Chosen(bundle, policy, i) ==
    LET Better(best, k) == IF best = None THEN bundle[k].record
                           ELSE CASE policy = "skip"    -> best
                                  [] policy = "replace" -> bundle[k].record
                                  [] policy = "newer-wins" ->
                                       IF Newer(bundle[k].record, best) THEN bundle[k].record ELSE best
    IN FoldLeft(Better, None, SetToSortSeq(At(bundle, i), <))

Conflicts(bundle, policy, files) ==
    policy = "reject" /\ \E i \in Id: Cardinality(At(bundle, i)) > (IF files[i] = None THEN 1 ELSE 0)

Planned(bundle, policy, files) ==
    {i \in Id:
        /\ At(bundle, i) # {}
        /\ files[i] = None \/ policy = "replace"
              \/ (policy = "newer-wins" /\ Newer(Chosen(bundle, policy, i), files[i])) }

Plan(c, bundle, policy) ==
    /\ keeper[c].pc = "idle" /\ Call
    /\ keeper' = IF Damaged(records) # {} \/ Conflicts(bundle, policy, records) THEN keeper
                 ELSE [keeper EXCEPT ![c] = [Rest EXCEPT !.pc = "plan", !.bundle = bundle, !.policy = policy,
                                        !.before = records, !.todo = Planned(bundle, policy, records)]]
    /\ UNCHANGED <<records, index, memoryLock, overtaken, memoryFaults>>

(* Staged outside of records/, so that until the first rename nothing has  *)
(* changed.                                                                *)
Stage(c) ==
    /\ keeper[c].pc = "plan" /\ memoryLock = None
    /\ memoryLock' = c
    /\ keeper' = [keeper EXCEPT ![c].pc = "commit"]
    /\ UNCHANGED <<records, index, overtaken, memoryCalls, memoryFaults>>

Rename(c) ==
    /\ keeper[c].pc = "commit"
    /\ \E i \in keeper[c].todo:
        /\ keeper' = [keeper EXCEPT ![c].todo = @ \ {i}]
        /\ Writes([records EXCEPT ![i] = Chosen(keeper[c].bundle, keeper[c].policy, i)])
    /\ UNCHANGED <<index, memoryLock, memoryCalls, memoryFaults>>

End(c) ==
    /\ keeper' = [keeper EXCEPT ![c] = Rest]
    /\ memoryLock' = IF memoryLock = c THEN None ELSE memoryLock
    /\ overtaken' = overtaken \ {c}

Finish(c) ==
    /\ keeper[c].pc = "commit" /\ keeper[c].todo = {}
    /\ Rescan(records)
    /\ End(c)
    /\ UNCHANGED <<records, memoryCalls, memoryFaults>>

Kill(c) ==
    /\ keeper[c].pc # "idle" /\ memoryFaults < MaxFault
    /\ memoryFaults' = memoryFaults + 1
    /\ End(c)
    /\ UNCHANGED <<records, index, memoryCalls>>

-----------------------------------------------------------------------------
(* doctor: a record that cannot be read is moved to quarantine/, then an   *)
(* index that does not tell the same as the records, and the index is      *)
(* rebuilt if anything was wrong.                                          *)

Sound(files) == [i \in Id |-> IF files[i] = Corrupt THEN None ELSE files[i]]

Healthy == Damaged(records) = {} /\ index = Scan(records)

Repair ==
    /\ Call /\ memoryLock = None
    /\ Writes(Sound(records))
    /\ index' = IF Healthy THEN index ELSE Scan(Sound(records))
    /\ UNCHANGED <<memoryLock, keeper, memoryFaults>>

Damage(i) ==
    /\ memoryFaults < MaxFault /\ records[i] \in Record
    /\ memoryFaults' = memoryFaults + 1
    /\ Writes([records EXCEPT ![i] = Corrupt])
    /\ UNCHANGED <<index, memoryLock, keeper, memoryCalls>>

Bundle ==
    { [k \in DOMAIN b |-> [id |-> b[k].id, record |-> [at |-> b[k].at, by |-> k]]]:
        b \in UNION {[1..n -> [id: Id, at: Stamps]]: n \in 1..MaxBundle} }

Next ==
    \/ \E i \in Id:
        \/ \E at \in Stamps: Put(i, at)
        \/ \E expected \in Stamps \cup {None}: Delete(i, expected)
        \/ Damage(i)
    \/ RescanOnly \/ Repair
    \/ \E c \in Caller:
        \/ \E bundle \in Bundle, policy \in Policy: Plan(c, bundle, policy)
        \/ Stage(c) \/ Rename(c) \/ Finish(c) \/ Kill(c)

Spec == Init /\ [][Next]_vars
-----------------------------------------------------------------------------
TypeOK ==
    /\ records \in [Id -> Record \cup {None, Corrupt}]
    /\ index \in [Id -> Stamps \cup {None}]
    /\ memoryLock \in Caller \cup {None}
    /\ \A c \in Caller: keeper[c].pc \in {"idle", "plan", "commit"}

(* What stands for the id i when an import is done: under "newer-wins" the *)
(* newest of all, and of equally new ones the one that was there first.    *)
Wins(before, bundle, policy, i) ==
    LET places == At(bundle, i) \cup (IF before[i] = None THEN {} ELSE {0})
        R(k) == IF k = 0 THEN before[i] ELSE bundle[k].record
        newest == {k \in places: \A j \in places: R(j).at <= R(k).at}
    IN CASE places = {} -> None
         [] places # {} /\ policy = "replace" -> R(Max(places))
         [] places # {} /\ policy = "newer-wins" -> R(Min(newest))
         [] OTHER -> R(Min(places))

(* An import that nobody overtook between its plan and its lock leaves in  *)
(* every record what its policy says, however often the bundle names it,   *)
(* and an index that tells the records as they are.                        *)
ImportsByPolicy ==
    \A c \in Caller:
        keeper[c].pc = "commit" /\ keeper'[c].pc = "idle" /\ memoryFaults' = memoryFaults
            /\ c \notin overtaken /\ Damaged(records) = {}
        => /\ \A i \in Id: records'[i] = Wins(keeper[c].before, keeper[c].bundle, keeper[c].policy, i)
           /\ index' = Scan(records')
=============================================================================
