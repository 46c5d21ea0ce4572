---------------------------- MODULE MCProfileLock ----------------------------
(* TLC instances of ProfileLock.  Processes are interchangeable, so the    *)
(* runs that check safety alone use the symmetry of Procs.                 *)
EXTENDS ProfileLock, TLC

Symmetry == Permutations(Procs)
=============================================================================
