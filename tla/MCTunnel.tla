------------------------------ MODULE MCTunnel ------------------------------
(* Tunnel for TLC: instances and pids are interchangeable in safety runs.  *)
EXTENDS Tunnel, TLC

Symmetry == Permutations(Inst) \cup Permutations(Pids)
=============================================================================
