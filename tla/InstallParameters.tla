-------------------------- MODULE InstallParameters --------------------------
(* The parameters of InstallTransaction, and what it assumes of them.       *)
EXTENDS Naturals

CONSTANTS
    Release,     \* what may be installed
    Foreign,     \* targets of the link that are not stages of this state root
    Keep,        \* how many rollback targets prune may be told to keep (--keep)
    User,        \* made .omcu, and is not the installer
    MaxTxn,      \* bound: transactions, and so receipts
    MaxCalls,    \* bound: calls
    MaxFault,    \* bound: kills and failing file operations
    MaxDrift     \* bound: times the link is changed by hand

ASSUME InstallAssumption ==
    /\ Release \cap Foreign = {} /\ User \notin Release \cup Foreign \cup Nat
    /\ Keep \subseteq Nat /\ MaxTxn \in Nat /\ MaxCalls \in Nat
    /\ MaxFault \in Nat /\ MaxDrift \in Nat
=============================================================================
