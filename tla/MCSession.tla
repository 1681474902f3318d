------------------------------ MODULE MCSession ------------------------------
(* Small instances of Session for TLC.                                       *)
EXTENDS SessionInv, TLC

(* The versions of a file are interchangeable, so are the files.             *)
Symmetry == Permutations(Versions) \cup Permutations(Files)
=============================================================================
