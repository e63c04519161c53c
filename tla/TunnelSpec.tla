----------------------------- MODULE TunnelSpec -----------------------------
(***************************************************************************)
(* What the host promises of its tunnels, without threads, signals or      *)
(* files: one process at a time holds the host's port, only the one that   *)
(* holds it dials, it dials only when no tunnel of any process is meant to *)
(* stay, and when it lets go of the port its tunnel is over.               *)
(***************************************************************************)
CONSTANTS Inst, Pids, None

VARIABLES
    holder,     \* the process that holds the port, or None
    live        \* who dialled which tunnel, of those that run and were not told to end

Init == holder = None /\ live = {}

Take(i) == holder = None /\ holder' = i /\ UNCHANGED live

Dial(i, p) == holder = i /\ live = {} /\ live' = {<<i, p>>} /\ UNCHANGED holder

\* The tunnel is lost, or told to end.
Hang == live # {} /\ live' = {} /\ UNCHANGED holder

\* A process that ends, in order or not, takes its tunnel with it.
Release == holder # None /\ holder' = None /\ live' = {}

Next == \/ \E i \in Inst : Take(i)
        \/ \E i \in Inst, p \in Pids : Dial(i, p)
        \/ Hang \/ Release

Spec == Init /\ [][Next]_<<holder, live>>
=============================================================================
