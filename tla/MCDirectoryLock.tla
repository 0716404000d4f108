------------------------- MODULE MCDirectoryLock -------------------------
(* Instances of DirectoryLock for TLC. *)
EXTENDS DirectoryLock, TLC

\* Processes are interchangeable, and so are inodes.
Symmetry == Permutations(Proc) \cup Permutations(Ino)
==========================================================================
