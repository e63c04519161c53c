------------------------------ MODULE MCBridge ------------------------------
(* Bridge for TLC: connections are interchangeable in safety runs.           *)
EXTENDS Bridge, TLC

Symmetry == Permutations(Conns)
=============================================================================
