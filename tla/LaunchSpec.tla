----------------------------- MODULE LaunchSpec -----------------------------
(***************************************************************************)
(* What the host promises to a `code` command on the remote, without       *)
(* connections, threads or semaphores: VS Code is started at most once for *)
(* a request, never for more than MaxChildren at a time, and what the      *)
(* command prints agrees with what was done and with what will be done.    *)
(***************************************************************************)
EXTENDS Naturals, FiniteSets

CONSTANTS Conns, MaxChildren

VARIABLES
    told,       \* what the command has learnt of each request
    launched,   \* the requests VS Code was started for
    running     \* those whose launch has not ended

Init == told = [c \in Conns |-> "pending"] /\ launched = {} /\ running = {}

Launch(c) ==
    /\ c \notin launched /\ told[c] \notin {"refused", "failed"}
    /\ Cardinality(running) < MaxChildren
    /\ launched' = launched \cup {c} /\ running' = running \cup {c}
    /\ UNCHANGED told

End(c) == c \in running /\ running' = running \ {c} /\ UNCHANGED <<told, launched>>

TellOk(c) == c \in launched /\ told' = [told EXCEPT ![c] = "ok"]
TellNo(c) == c \notin launched /\ \E no \in {"refused", "failed"} : told' = [told EXCEPT ![c] = no]

Tell(c) == told[c] = "pending" /\ (TellOk(c) \/ TellNo(c)) /\ UNCHANGED <<launched, running>>

\* The commands in C stop waiting, or lose their connection: nothing is said to
\* them of the launch, which may have happened or happen later.
Silence(C) ==
    /\ \A c \in C : told[c] = "pending"
    /\ told' = [c \in Conns |-> IF c \in C THEN "unknown" ELSE told[c]]
    /\ UNCHANGED <<launched, running>>

Next == \/ \E c \in Conns : Launch(c) \/ End(c) \/ Tell(c)
        \/ \E C \in SUBSET Conns : Silence(C)

Spec == Init /\ [][Next]_<<told, launched, running>>
=============================================================================
