---------------------------- MODULE OwnerRecord ----------------------------
(***************************************************************************)
(* The CLI mutation authority (state/authority.ts): owner.json names the   *)
(* token that every change of state has to show.  createCliMutation-       *)
(* Authority reads it or creates it, quarantineInvalidCliOwnerRecord moves *)
(* an invalid one aside (quarantineOwnedRegularFile of runtime/atomic.ts), *)
(* both under a lock; assertCliMutationAuthority reads it without.  The    *)
(* user may edit or replace the file at any time.                          *)
(***************************************************************************)
EXTENDS Naturals, FiniteSets

CONSTANTS
    Process,
    None,
    MaxEdits,   \* bound: edits by the user
    MaxFault    \* bound: failing operations and kills

VARIABLES
    owner,      \* owner.json: None or [ino, token, valid]; an invalid one does not parse
    aside,      \* records in quarantine: set of [record, proven]
    guard,      \* holder of the lock on owner.json, or None
    process,    \* per process: pc and the record it works with
    authority,  \* per process: the token it was given, or None
    created,    \* how many inodes and tokens there were
    ownerEdits, ownerFaults

vars == <<owner, aside, guard, process, authority, created, ownerEdits, ownerFaults>>

Record == [ino: Nat, token: Nat, valid: BOOLEAN]

\* None is no process and no record.
NoneFits == None \notin Process \cup Record

Valid(record) == record # None /\ record.valid
Idle == [pc |-> "idle", record |-> None]

Init ==
    /\ owner \in {None} \cup [ino: {0}, token: {0}, valid: BOOLEAN]
    /\ aside = {}
    /\ guard = None
    /\ process = [p \in Process |-> Idle]
    /\ authority = [p \in Process |-> None]
    /\ created = 1
    /\ ownerEdits = 0
    /\ ownerFaults = 0

Step(p, l, record) == process' = [process EXCEPT ![p] = [pc |-> l, record |-> record]]
Leaves(p) == guard' = None /\ process' = [process EXCEPT ![p] = Idle]
Given(p, token) == authority' = [authority EXCEPT ![p] = token]

-----------------------------------------------------------------------------
(* createCliMutationAuthority: the record there is, or a new one.          *)

Begin(p) ==
    /\ process[p].pc = "idle" /\ guard = None
    /\ guard' = p
    /\ \E l \in {"create", "repair"}: Step(p, l, None)
    /\ UNCHANGED <<owner, aside, authority, created, ownerEdits, ownerFaults>>

Adopt(p) ==
    /\ process[p].pc \in {"create", "uncertain"}
    /\ owner # None
    /\ IF Valid(owner) THEN Given(p, owner.token) ELSE UNCHANGED authority
    /\ Leaves(p)
    /\ UNCHANGED <<owner, aside, created, ownerEdits, ownerFaults>>

(* A record that may have been created but is not there any more.          *)
AdoptFails(p) ==
    /\ process[p].pc = "uncertain" /\ owner = None
    /\ Leaves(p)
    /\ UNCHANGED <<owner, aside, authority, created, ownerEdits, ownerFaults>>

Absent(p) ==
    /\ process[p].pc = "create" /\ owner = None
    /\ Step(p, "link", [ino |-> created, token |-> created, valid |-> TRUE])
    /\ created' = created + 1
    /\ UNCHANGED <<owner, aside, guard, authority, ownerEdits, ownerFaults>>

(* atomicCreateJson: not committed when the user was faster.               *)
CreateRecord(p) ==
    /\ process[p].pc = "link"
    /\ IF owner = None
       THEN owner' = process[p].record /\ Given(p, process[p].record.token)
       ELSE UNCHANGED <<owner, authority>>
    /\ Leaves(p)
    /\ UNCHANGED <<aside, created, ownerEdits, ownerFaults>>

\* Mutant: a create of which it is unknown whether it happened is believed.
AfterUncertainBelieved(p) == Given(p, process[p].record.token) /\ Leaves(p)

AfterUncertain(p) == Step(p, "uncertain", None) /\ UNCHANGED <<guard, authority>>

(* The create ends with commit_durability_unknown, with or without the     *)
(* file; what is there now is read again.                                  *)
CreateUncertain(p) ==
    /\ process[p].pc = "link" /\ ownerFaults < MaxFault
    /\ ownerFaults' = ownerFaults + 1
    /\ owner' \in {owner} \cup (IF owner = None THEN {process[p].record} ELSE {})
    /\ AfterUncertain(p)
    /\ UNCHANGED <<aside, created, ownerEdits>>

-----------------------------------------------------------------------------
(* quarantineInvalidCliOwnerRecord: only what does not parse, and only the *)
(* file and the bytes that were seen not to.                               *)

Inspect(p) ==
    /\ process[p].pc = "repair"
    /\ IF owner = None \/ Valid(owner)
       THEN Leaves(p)
       ELSE Step(p, "confirm", owner) /\ UNCHANGED guard
    /\ UNCHANGED <<owner, aside, authority, created, ownerEdits, ownerFaults>>

\* quarantineOwnedRegularFile looks again before it starts its helper.
Confirm(p) ==
    /\ process[p].pc = "confirm"
    /\ IF owner = process[p].record
       THEN Step(p, "move", owner) /\ UNCHANGED guard
       ELSE Leaves(p)
    /\ UNCHANGED <<owner, aside, authority, created, ownerEdits, ownerFaults>>

MoveAside(p) ==
    /\ process[p].pc = "move"
    /\ IF owner = None
       THEN Leaves(p) /\ UNCHANGED <<owner, aside>>
       ELSE /\ aside' = aside \cup {[record |-> owner, proven |-> FALSE]}
            /\ owner' = None
            /\ process' = [process EXCEPT ![p] =
                    [pc |-> "judge", record |-> [seen |-> process[p].record, moved |-> owner]]]
            /\ UNCHANGED guard
    /\ UNCHANGED <<authority, created, ownerEdits, ownerFaults>>

\* Mutant: what was moved is not compared.
SameFileUnchecked(seen, moved) == TRUE

SameFile(seen, moved) == seen = moved

Judge(p) ==
    LET moved == process[p].record.moved
        others == aside \ {[record |-> moved, proven |-> FALSE]} IN
    /\ process[p].pc = "judge"
    /\ IF SameFile(process[p].record.seen, moved)
       THEN aside' = others \cup {[record |-> moved, proven |-> TRUE]} /\ UNCHANGED owner
       ELSE aside' = others /\ owner' = moved
    /\ Leaves(p)
    /\ UNCHANGED <<authority, created, ownerEdits, ownerFaults>>

-----------------------------------------------------------------------------
(* A kill of the process with its helper, or of the helper alone: the lock *)
(* of a dead owner is taken over (DirectoryLock).  A helper that outlives  *)
(* its process is the subject of RunStateOrphans.                          *)
Kill(p) ==
    /\ process[p].pc # "idle" /\ ownerFaults < MaxFault
    /\ ownerFaults' = ownerFaults + 1
    /\ Leaves(p)
    /\ UNCHANGED <<owner, aside, authority, created, ownerEdits>>

(* The user edits the file, replaces it by a valid or an invalid one, or   *)
(* removes it.                                                             *)
UserEdits ==
    /\ ownerEdits < MaxEdits
    /\ ownerEdits' = ownerEdits + 1
    /\ created' = created + 1
    /\ LET ino == {created} \cup (IF owner = None THEN {} ELSE {owner.ino}) IN
       owner' \in ({None} \cup [ino: ino, token: {created}, valid: BOOLEAN]) \ {owner}
    /\ UNCHANGED <<aside, guard, process, authority, ownerFaults>>

Next ==
    \/ \E p \in Process:
        \/ Begin(p) \/ Adopt(p) \/ AdoptFails(p) \/ Absent(p) \/ CreateRecord(p) \/ CreateUncertain(p)
        \/ Inspect(p) \/ Confirm(p) \/ MoveAside(p) \/ Judge(p) \/ Kill(p)
    \/ UserEdits

Spec == Init /\ [][Next]_vars
-----------------------------------------------------------------------------
TypeOK ==
    /\ guard \in Process \cup {None}
    /\ \A p \in Process: (process[p].pc = "idle") = (guard # p)
    /\ \A r \in aside: r.proven \in BOOLEAN

(* "A concurrently repaired valid owner can never be quarantined": what a  *)
(* repair reports as quarantined is the invalid record it had read; and    *)
(* as long as the user leaves the file alone, everybody who was given the  *)
(* authority has the token that is in it, through creations of which       *)
(* nobody knows whether they took place and repairs killed half way.       *)
AuthorityKept ==
    /\ \A r \in aside: r.proven => ~ Valid(r.record)
    /\ ownerEdits = 0 =>
        \A p \in Process: authority[p] # None => owner # None /\ owner.token = authority[p]
=============================================================================
