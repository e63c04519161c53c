---------------------------- MODULE BackoffProofs ----------------------------
(***************************************************************************)
(* For any number of processes, any two delays and any faults: how long    *)
(* the supervisor sleeps between two attempts is a closed form of the      *)
(* attempts since its backoff was last reset.                              *)
(*                                                                         *)
(* The law speaks of a sleep; the invariant holds wherever the supervisor  *)
(* is, because the delay of the next sleep is what the attempts before it  *)
(* left behind.  Doublings is a recursive function: that it is one is      *)
(* proved first, from functions on 0..n that agree where they overlap.     *)
(***************************************************************************)
EXTENDS MCTunnelBackoff, TunnelProofs, WellFoundedInduction

-----------------------------------------------------------------------------
(* The doublings.                                                          *)

LEMMA LeastNumber ==
    ASSUME NEW T \in SUBSET Nat, T # {}
    PROVE  \E n \in T : \A m \in T : n <= m
  <1>1. PICK n \in T : \A m \in T : ~(<<m, n>> \in OpToRel(<, Nat))
    BY NatLessThanWellFounded, WFMin
  <1>2. ASSUME NEW m \in T PROVE n <= m
    <2>1. <<m, n>> \notin OpToRel(<, Nat)
      BY <1>1
    <2>2. ~(m < n)
      BY <2>1 DEF OpToRel
    <2>3. m \in Nat /\ n \in Nat
      OBVIOUS
    <2> QED
      BY <2>2, <2>3
  <1> QED
    BY <1>2

\* The first n + 1 of them.
Prefixes(n) == {h \in [0..n -> Nat] : /\ h[0] = MinDelay
                                      /\ \A k \in 1..n : h[k] = 2 * h[k - 1]}

LEMMA PrefixesExist == \A n \in Nat : Prefixes(n) # {}
  <1> SUFFICES ASSUME NEW least \in Nat, Prefixes(least) = {},
                      \A m \in Nat : Prefixes(m) = {} => least <= m
               PROVE  FALSE
    <2> DEFINE T == {n \in Nat : Prefixes(n) = {}}
    <2>1. T \in SUBSET Nat
      OBVIOUS
    <2>2. T # {} => \E n \in T : \A m \in T : n <= m
      BY <2>1, LeastNumber
    <2> QED
      BY <2>2
  <1>1. MinDelay \in Nat
    BY TunnelAssumption
  <1>2. CASE least = 0
    <2>1. [k \in 0..0 |-> MinDelay] \in Prefixes(0)
      BY <1>1 DEF Prefixes
    <2> QED
      BY <1>2, <2>1
  <1>3. CASE least # 0
    <2>1. least - 1 \in Nat /\ ~(least <= least - 1)
      BY <1>3
    <2>2. PICK h \in Prefixes(least - 1) : TRUE
      BY <2>1
    <2> DEFINE longer == [k \in 0..least |-> IF k = least THEN 2 * h[least - 1] ELSE h[k]]
    <2>3. h \in [0..least - 1 -> Nat] /\ h[0] = MinDelay
          /\ \A k \in 1..least - 1 : h[k] = 2 * h[k - 1]
      BY <2>2 DEF Prefixes
    <2>4. longer \in [0..least -> Nat]
      BY <1>3, <2>3
    <2>5. longer[0] = MinDelay
      BY <1>3, <2>3
    <2>6. ASSUME NEW k \in 1..least PROVE longer[k] = 2 * longer[k - 1]
      BY <1>3, <2>3
    <2> HIDE DEF longer
    <2>7. longer \in Prefixes(least)
      BY <2>4, <2>5, <2>6 DEF Prefixes
    <2> QED
      BY <2>7
  <1> QED
    BY <1>2, <1>3

LEMMA PrefixesAgree ==
    ASSUME NEW n \in Nat, NEW g \in Prefixes(n), NEW m \in Nat, n <= m,
           NEW h \in Prefixes(m), NEW k \in 0..n
    PROVE  g[k] = h[k]
  <1> SUFFICES ASSUME NEW least \in 0..n, g[least] # h[least],
                      \A j \in 0..n : g[j] # h[j] => least <= j
               PROVE  FALSE
    <2> DEFINE T == {j \in 0..n : g[j] # h[j]}
    <2>1. T \in SUBSET Nat
      OBVIOUS
    <2>2. T # {} => \E i \in T : \A j \in T : i <= j
      BY <2>1, LeastNumber
    <2> QED
      BY <2>2
  <1>1. least # 0
    BY DEF Prefixes
  <1>2. least - 1 \in 0..n /\ ~(least <= least - 1) /\ least \in 1..n /\ least \in 1..m
    BY <1>1
  <1>3. g[least - 1] = h[least - 1]
    BY <1>2
  <1>4. g[least] = 2 * g[least - 1] /\ h[least] = 2 * h[least - 1]
    BY <1>2 DEF Prefixes
  <1> QED
    BY <1>3, <1>4

\* The recursive definition defines a function.
LEMMA DoublingsProperties ==
    /\ Doublings \in [Nat -> Nat]
    /\ Doublings[0] = MinDelay
    /\ \A n \in Nat : Doublings[n + 1] = 2 * Doublings[n]
  <1> DEFINE prefix(n) == CHOOSE h \in Prefixes(n) : TRUE
             f == [n \in Nat |-> prefix(n)[n]]
  <1>1. ASSUME NEW n \in Nat PROVE prefix(n) \in Prefixes(n)
    BY PrefixesExist
  <1> HIDE DEF prefix
  <1>2. ASSUME NEW n \in Nat PROVE f[n] \in Nat
    BY <1>1 DEF Prefixes
  <1>3. f[0] = MinDelay
    <2>1. prefix(0)[0] = MinDelay
      BY <1>1 DEF Prefixes
    <2> QED
      BY <2>1
  <1>4. ASSUME NEW n \in Nat, n # 0 PROVE f[n] = 2 * f[n - 1]
    <2>1. n - 1 \in Nat /\ n - 1 <= n /\ n - 1 \in 0..n - 1 /\ n \in 1..n
      BY <1>4
    <2>2. prefix(n) \in Prefixes(n) /\ prefix(n - 1) \in Prefixes(n - 1)
      BY <1>1, <2>1
    <2>3. prefix(n - 1)[n - 1] = prefix(n)[n - 1]
      BY <2>1, <2>2, PrefixesAgree
    <2>4. prefix(n)[n] = 2 * prefix(n)[n - 1]
      BY <2>1, <2>2 DEF Prefixes
    <2> QED
      BY <2>1, <2>3, <2>4
  <1>5. f = [n \in Nat |-> IF n = 0 THEN MinDelay ELSE 2 * f[n - 1]]
    <2>1. \A n \in Nat : f[n] = IF n = 0 THEN MinDelay ELSE 2 * f[n - 1]
      BY <1>3, <1>4
    <2> HIDE DEF f
    <2>2. f = [n \in Nat |-> f[n]]
      BY DEF f
    <2> QED
      BY <2>1, <2>2
  <1>6. \E g : g = [n \in Nat |-> IF n = 0 THEN MinDelay ELSE 2 * g[n - 1]]
    BY <1>5
  <1> HIDE DEF f
  <1>7. Doublings = [n \in Nat |-> IF n = 0 THEN MinDelay ELSE 2 * Doublings[n - 1]]
    BY <1>6 DEF Doublings
  <1>8. ASSUME NEW g, g = [n \in Nat |-> IF n = 0 THEN MinDelay ELSE 2 * g[n - 1]]
        PROVE  \A n \in Nat : g[n] = f[n]
    <2> SUFFICES ASSUME NEW least \in Nat, g[least] # f[least],
                        \A j \in Nat : g[j] # f[j] => least <= j
                 PROVE  FALSE
      <3> DEFINE T == {j \in Nat : g[j] # f[j]}
      <3>1. T # {} => \E i \in T : \A j \in T : i <= j
        BY LeastNumber
      <3> QED
        BY <3>1
    <2>1. g[least] = IF least = 0 THEN MinDelay ELSE 2 * g[least - 1]
      BY <1>8
    <2>2. least # 0
      BY <1>3, <2>1
    <2>3. least - 1 \in Nat /\ ~(least <= least - 1)
      BY <2>2
    <2>4. g[least - 1] = f[least - 1]
      BY <2>3
    <2> QED
      BY <1>4, <2>1, <2>2, <2>4
  <1>9. \A n \in Nat : Doublings[n] = f[n]
    BY <1>7, <1>8
  <1>10. Doublings \in [Nat -> Nat]
    BY <1>2, <1>7, <1>9
  <1>11. ASSUME NEW n \in Nat PROVE f[n + 1] = 2 * f[n]
    <2>1. n + 1 \in Nat /\ n + 1 # 0 /\ (n + 1) - 1 = n
      OBVIOUS
    <2> QED
      BY <1>4, <2>1
  <1> QED
    BY <1>3, <1>9, <1>10, <1>11

-----------------------------------------------------------------------------
(* The attempts of an instance and the delay they leave behind.            *)

BInv ==
    /\ streak \in [Inst -> Nat] /\ refused \in [Inst -> BOOLEAN]
    /\ \A i \in Inst : /\ delay[i] = Expected(i)
                       /\ main[i] = "off" => delay[i] = MinDelay

\* The supervisor is told of an attempt or wakes up, the process is gone, or nothing
\* happens to the delay and to what the history is made of.
Told(i) == /\ sup[i] = "after" /\ sup'[i] = "sleep" /\ main'[i] # "off"
           /\ delay'[i] = IF auth[i] THEN MaxDelay
                          ELSE IF age[i] = 2 THEN MinDelay ELSE delay[i]
Woken(i) == /\ sup[i] = "sleep" /\ sup'[i] = "loop" /\ main'[i] # "off"
            /\ delay'[i] = IF 2 * delay[i] < MaxDelay THEN 2 * delay[i] ELSE MaxDelay
Over(i) == main'[i] = "off" /\ delay'[i] = MinDelay
Same(i) == /\ delay'[i] = delay[i]
           /\ main'[i] = "off" => main[i] = "off"
           /\ sup'[i] = "sleep" => sup[i] # "after"
           /\ sup'[i] = "loop" => sup[i] # "sleep"

\* What the steps of one process are for another, and for itself.
LEMMA DelayMoves ==
    ASSUME TypeOK, Lock, Next, NEW i \in Inst
    PROVE  Told(i) \/ Woken(i) \/ Over(i) \/ Same(i)
  <1>0. main \in [Inst -> MainPC] /\ sup \in [Inst -> SupPC] /\ delay \in [Inst -> MinDelay..MaxDelay]
    BY DEF Lock, TypeOK
  <1> USE DEF Main, Sup, mainVars, supVars
  <1>1. ASSUME NEW j \in Inst, Bind(j) \/ Shutdown(j) PROVE Same(i)
    BY <1>1, <1>0 DEF Bind, Shutdown, Same
  <1>2. ASSUME NEW j \in Inst, Vanish(j) PROVE Same(i) \/ Over(i)
    BY <1>2, <1>0 DEF Vanish, Same, Over
  <1>3. ASSUME NEW j \in Inst, MainStep(j) PROVE Same(i) \/ Over(i)
    <2>1. CASE ReadPidFile(j) \/ KillOrphan(j) \/ Join(j) \/ Close(j)
      BY <2>1, <1>0 DEF ReadPidFile, KillOrphan, Join, Close, Same
    <2>2. CASE StopChild(j) \/ ChildStopped(j)
      BY <2>2, <1>0 DEF StopChild, ChildStopped, Same
    <2>3. CASE Exit(j)
      BY <2>3, <1>2 DEF Exit
    <2> QED
      BY <1>3, <2>1, <2>2, <2>3 DEF MainStep
  <1>4. ASSUME NEW j \in Inst, SupStep(j) PROVE Same(i) \/ Told(i) \/ Woken(i)
    <2>1. CASE Loop(j) \/ PrepOk(j) \/ Popen(j) \/ Register(j) \/ WritePid(j)
      BY <2>1, <1>0 DEF Loop, PrepOk, Popen, Register, WritePid, Same
    <2>2. CASE Reap(j) \/ SeeStop(j) \/ DeclareUp(j) \/ Drop(j) \/ RemovePid(j)
      BY <2>2, <1>0 DEF Reap, SeeStop, DeclareUp, Drop, RemovePid, Same
    <2>3. CASE After(j)
      BY <2>3, <1>0, Zenon DEF After, Stable, Same, Told, Lock
    <2>4. CASE Wake(j)
      BY <2>4, <1>0 DEF Wake, Doubled, Same, Woken, Lock
    <2> QED
      BY <1>4, <2>1, <2>2, <2>3, <2>4 DEF SupStep
  <1>5. ASSUME NEW j \in Inst, FaultStep(j) PROVE Same(i) \/ Over(i)
    <2>1. CASE KillChild(j) \/ JoinTimeout(j) \/ PrepFails(j) \/ PrepRaises(j)
      BY <2>1, <1>0 DEF KillChild, JoinTimeout, PrepFails, PrepRaises, Same
    <2>2. CASE PopenFails(j) \/ GiveUp(j)
      BY <2>2, <1>0 DEF PopenFails, GiveUp, Same
    <2>3. CASE Crash(j)
      BY <2>3, <1>2 DEF Crash
    <2> QED
      BY <1>5, <2>1, <2>2, <2>3 DEF FaultStep
  <1>6. ASSUME NEW j \in Inst, Age(j) \/ PrepRuns(j) PROVE Same(i)
    BY <1>6 DEF Age, PrepRuns, Same
  <1>7. ASSUME NEW p \in Pids, Connect(p) \/ Disconnect(p) \/ Terminated(p) PROVE Same(i)
    BY <1>7 DEF Connect, Disconnect, Terminated, Same
  <1>8. ASSUME LatePrepRuns PROVE Same(i)
    BY <1>8 DEF LatePrepRuns, Same
  <1> QED
    BY <1>1, <1>3, <1>4, <1>5, <1>6, <1>7, <1>8 DEF Next

LEMMA BackoffInductive ==
    TypeOK /\ Lock /\ BInv /\ [Next /\ HistoryNext]_<<vars, streak, refused>> => BInv'
  <1> SUFFICES ASSUME TypeOK, Lock, BInv, [Next /\ HistoryNext]_<<vars, streak, refused>>
               PROVE  BInv'
    OBVIOUS
  <1>1. CASE UNCHANGED <<vars, streak, refused>>
    BY <1>1 DEF BInv, Expected, vars, mainVars, supVars
  <1>2. CASE Next /\ HistoryNext
    <2>1. streak \in [Inst -> Nat] /\ refused \in [Inst -> BOOLEAN] /\ auth \in [Inst -> BOOLEAN]
      BY DEF BInv, TypeOK
    <2>2. /\ streak' \in [Inst -> Nat] /\ refused' \in [Inst -> BOOLEAN]
      <3>1. /\ streak' = [i \in Inst |->
                   IF main'[i] = "off" \/ Reset(i) THEN 0
                   ELSE IF sup[i] = "sleep" /\ sup'[i] = "loop" THEN streak[i] + 1
                   ELSE streak[i]]
            /\ refused' = [i \in Inst |->
                   IF main'[i] = "off" THEN FALSE
                   ELSE IF sup[i] = "after" /\ sup'[i] = "sleep"
                   THEN auth[i] \/ (refused[i] /\ age[i] # 2) ELSE refused[i]]
        BY <1>2 DEF HistoryNext
      <3>2. streak' \in [Inst -> Nat]
        BY <2>1, <3>1
      <3>3. refused' \in [Inst -> BOOLEAN]
        BY <2>1, <3>1, Zenon
      <3> QED
        BY <3>2, <3>3
    <2>3. ASSUME NEW i \in Inst
          PROVE  delay'[i] = Expected(i)' /\ (main'[i] = "off" => delay'[i] = MinDelay)
      <3>1. /\ MinDelay \in Nat /\ MaxDelay \in Nat /\ MinDelay <= MaxDelay
            /\ delay[i] = Expected(i) /\ delay[i] \in Nat
            /\ main[i] = "off" => delay[i] = MinDelay
        BY TunnelAssumption DEF BInv, TypeOK
      <3>2. /\ streak'[i] = IF main'[i] = "off" \/ Reset(i) THEN 0
                            ELSE IF sup[i] = "sleep" /\ sup'[i] = "loop"
                            THEN streak[i] + 1 ELSE streak[i]
            /\ refused'[i] = IF main'[i] = "off" THEN FALSE
                             ELSE IF sup[i] = "after" /\ sup'[i] = "sleep"
                             THEN auth[i] \/ (refused[i] /\ age[i] # 2) ELSE refused[i]
        BY <1>2 DEF HistoryNext
      <3>3. PICK n \in Nat : n = streak[i]
        BY <2>1
      <3>4. Doublings[0] = MinDelay /\ Doublings[n] \in Nat /\ Doublings[n + 1] = 2 * Doublings[n]
        BY DoublingsProperties
      <3>5. Expected(i)' = IF refused'[i] \/ Doublings[streak'[i]] > MaxDelay
                           THEN MaxDelay ELSE Doublings[streak'[i]]
        BY DEF Expected
      <3>6. delay[i] = IF refused[i] \/ Doublings[n] > MaxDelay THEN MaxDelay ELSE Doublings[n]
        BY <3>1, <3>3 DEF Expected
      <3>7. Told(i) \/ Woken(i) \/ Over(i) \/ Same(i)
        BY <1>2, DelayMoves
      <3>8. CASE main'[i] = "off"
        <4>1. streak'[i] = 0 /\ ~refused'[i]
          BY <3>2, <3>8
        <4>2. delay'[i] = MinDelay
          BY <3>1, <3>7, <3>8 DEF Over, Same, Told, Woken
        <4> QED
          BY <3>1, <3>4, <3>5, <4>1, <4>2
      <3>9. CASE Told(i)
        <4>1. main'[i] # "off" /\ (Reset(i) <=> age[i] = 2)
          BY <3>9 DEF Told, Reset
        <4>2. /\ streak'[i] = IF age[i] = 2 THEN 0 ELSE n
              /\ refused'[i] <=> auth[i] \/ (refused[i] /\ age[i] # 2)
          BY <3>2, <3>3, <3>9, <4>1 DEF Told
        <4>3. delay'[i] = IF auth[i] THEN MaxDelay ELSE IF age[i] = 2 THEN MinDelay ELSE delay[i]
          BY <3>9 DEF Told
        <4> QED
          BY <3>1, <3>4, <3>5, <3>6, <4>1, <4>2, <4>3
      <3>10. CASE Woken(i)
        <4>1. main'[i] # "off" /\ ~Reset(i)
          BY <3>10 DEF Woken, Reset
        <4>2. streak'[i] = n + 1 /\ (refused'[i] <=> refused[i])
          BY <3>2, <3>3, <3>10, <4>1 DEF Woken
        <4>3. delay'[i] = IF 2 * delay[i] < MaxDelay THEN 2 * delay[i] ELSE MaxDelay
          BY <3>10 DEF Woken
        <4> QED
          BY <3>1, <3>4, <3>5, <3>6, <4>1, <4>2, <4>3
      <3>11. CASE Same(i) /\ main'[i] # "off"
        <4>1. streak'[i] = n /\ (refused'[i] <=> refused[i])
          BY <3>2, <3>3, <3>11 DEF Same, Reset
        <4> QED
          BY <3>5, <3>6, <3>11, <4>1 DEF Same
      <3> QED
        BY <3>7, <3>8, <3>9, <3>10, <3>11 DEF Over
    <2> QED
      BY <2>2, <2>3 DEF BInv
  <1> QED
    BY <1>1, <1>2

\* Whatever the connections do, a supervisor that sleeps does so for 1s, 2s, 4s ... up to
\* the maximum, and for the maximum from a refused login on (tunnel.py:8).
THEOREM BackoffKept == HistorySpec => []BackoffLaw
  <1>1. Init /\ HistoryInit => BInv
    <2> SUFFICES ASSUME Init, HistoryInit PROVE BInv
      OBVIOUS
    <2>1. MinDelay \in Nat /\ MaxDelay \in Nat /\ MinDelay <= MaxDelay /\ Doublings[0] = MinDelay
      BY TunnelAssumption, DoublingsProperties
    <2> QED
      BY <2>1 DEF Init, HistoryInit, BInv, Expected
  <1>2. [Next /\ HistoryNext]_<<vars, streak, refused>> => [Next]_vars
    OBVIOUS
  <1>3. BInv => BackoffLaw
    BY DEF BInv, BackoffLaw
  <1>4. TypeOK /\ Lock /\ BInv /\ [Next /\ HistoryNext]_<<vars, streak, refused>> => BInv'
    BY BackoffInductive
  <1>5. HistorySpec => Init /\ HistoryInit
                       /\ [][Next /\ HistoryNext]_<<vars, streak, refused>>
    BY DEF HistorySpec
  <1> QED
    BY <1>1, <1>2, <1>3, <1>4, <1>5, TypeCorrect, Locked, PTL DEF Spec
=============================================================================
