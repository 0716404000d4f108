---------------------------- MODULE RunContract ----------------------------
(***************************************************************************)
(* What src/src/state promises about one run and one lease of it, without  *)
(* files, locks, clocks or processes: a run is created active, settles     *)
(* once, may be verified only when complete, and every change is the next  *)
(* revision; a lease changes hands by the next generation, and only while  *)
(* the run is active.                                                      *)
(***************************************************************************)
EXTENDS Naturals

CONSTANTS Client, Absent
VARIABLES run, lease

Terminal == {"complete", "failed", "cancelled"}
Run == [status : {"active"} \cup Terminal, revision : Nat \ {0}, verified : BOOLEAN]
Lease == [owner : Client, generation : Nat \ {0}]

Create == /\ run = Absent
          /\ run' = [status |-> "active", revision |-> 1, verified |-> FALSE]
          /\ UNCHANGED lease

Settle == /\ run # Absent /\ run.status = "active"
          /\ \E s \in Terminal :
               run' = [status |-> s, revision |-> run.revision + 1, verified |-> FALSE]
          /\ UNCHANGED lease

Verify == /\ run # Absent /\ run.status = "complete"
          /\ run' = [status |-> "complete", revision |-> run.revision + 1, verified |-> TRUE]
          /\ UNCHANGED lease

Grant == /\ run # Absent /\ run.status = "active"
         /\ \E c \in Client :
              lease' = [owner |-> c, generation |-> IF lease = Absent THEN 1 ELSE lease.generation + 1]
         /\ UNCHANGED run

Drop == /\ lease # Absent
        /\ lease' = Absent
        /\ UNCHANGED run

Init == run = Absent /\ lease = Absent
Next == Create \/ Settle \/ Verify \/ Grant \/ Drop
Spec == Init /\ [][Next]_<<run, lease>>
=============================================================================
