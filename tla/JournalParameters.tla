-------------------------- MODULE JournalParameters --------------------------
(* The parameters of Journal, and what it assumes of them.                  *)
EXTENDS Naturals

CONSTANTS
    None,
    Reader,             \* processes that read without the lock
    Size,               \* the sizes in bytes a line may have
    MaxSegmentBytes, MaxSegmentRecords, MaxStreamRecords,   \* meta.json's limits
    MaxAppend,          \* bound: lines begun
    MaxRepair,          \* bound: repairs begun
    MaxInterrupt        \* bound: interruptions

ASSUME JournalAssumption ==
    /\ Size \subseteq 2..MaxSegmentBytes /\ MaxSegmentBytes \in Nat
    /\ MaxSegmentRecords \in Nat \ {0} /\ MaxStreamRecords \in Nat \ {0}
    /\ MaxAppend \in Nat /\ MaxRepair \in Nat /\ MaxInterrupt \in Nat
=============================================================================
