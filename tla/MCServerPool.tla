---------------------------- MODULE MCServerPool ----------------------------
(* Small instances of ServerPool for TLC.                                    *)
EXTENDS ServerPool, TLC

(* The connections are interchangeable, so are their histories.             *)
Symmetry == Permutations(Conn)
=============================================================================
