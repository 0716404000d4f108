----------------------------- MODULE AppendLog -----------------------------
(***************************************************************************)
(* What a journal promises its writers and readers: a log that only grows, *)
(* one record at a time.                                                   *)
(***************************************************************************)
EXTENDS Sequences

CONSTANT Entry
VARIABLE log

Init == log = <<>>
Next == \E e \in Entry : log' = Append(log, e)
Spec == Init /\ [][Next]_log
=============================================================================
