--------------------------- MODULE MCTunnelBackoff ---------------------------
(* Tunnel with a history of the attempts of each instance: how many have     *)
(* ended since the backoff was last reset, and whether one was refused.      *)
EXTENDS Tunnel

VARIABLES streak, refused

Reset(i) == sup[i] = "after" /\ sup'[i] = "sleep" /\ age[i] = 2

HistoryInit ==
    /\ streak = [i \in Inst |-> 0]
    /\ refused = [i \in Inst |-> FALSE]

HistoryNext ==
    /\ streak' = [i \in Inst |->
         IF main'[i] = "off" \/ Reset(i) THEN 0
         ELSE IF sup[i] = "sleep" /\ sup'[i] = "loop" THEN streak[i] + 1 ELSE streak[i]]
    /\ refused' = [i \in Inst |->
         IF main'[i] = "off" THEN FALSE
         ELSE IF sup[i] = "after" /\ sup'[i] = "sleep"
              THEN auth[i] \/ (refused[i] /\ age[i] # 2)
              ELSE refused[i]]

HistorySpec ==
    Init /\ HistoryInit /\ [][Next /\ HistoryNext]_<<vars, streak, refused>>

\* "1s, 2s, 4s ..."
Doublings[n \in Nat] == IF n = 0 THEN MinDelay ELSE 2 * Doublings[n - 1]

Expected(i) == IF refused[i] \/ Doublings[streak[i]] > MaxDelay
               THEN MaxDelay ELSE Doublings[streak[i]]

\* "BACKOFF 1s, 2s, 4s ... 60s, then PREP again; reset after a connection stays
\* up for 60s" (tunnel.py:8), and the maximum from a refused login on until
\* then: the delay of a sleep is a closed form of the attempts before it.
BackoffLaw == \A i \in Inst : sup[i] = "sleep" => delay[i] = Expected(i)
=============================================================================
