---------------------------- MODULE TunnelProofs ----------------------------
(***************************************************************************)
(* For any number of bridge processes and ssh pids: the port is the lock   *)
(* of the tunnel, a stop leaves nothing behind, and where ssh dies with    *)
(* its service there is one tunnel at most.                                *)
(*                                                                         *)
(* Three layers, each inductive given those below it: TypeOK; Lock, what   *)
(* the port excludes; and Care, what the processes know of each other's    *)
(* ssh and pid file as long as no supervisor outlives the stop() that      *)
(* joins it.  The last part is the refinement of TunnelSpec.               *)
(***************************************************************************)
EXTENDS Tunnel, TLAPS

Holding == {"bound", "orphan", "serving", "stopping", "killing", "joining", "closing"}

\* The port belongs to the process between its bind and its close, and the
\* supervisor is started while it does.
Lock ==
    \A i \in Inst :
        /\ main[i] \in Holding => port = i
        /\ main[i] \in {"off", "bound", "orphan"} => sup[i] = "none"

\* stop() has waited for the supervisor.
Joined == \A i \in Inst : main[i] \in {"closing", "closed"} => ~Running(i)

\* An ssh that lives is the one its supervisor deals with.
Children ==
    \A i \in Inst, p \in Pids : owner[p] = i /\ Alive(p) =>
        p = mine[i] /\ sup[i] \in {"register", "writepid", "wait", "terminate"}

\* kill_orphan acts on the pid file as it is, and from then on the file is
\* empty or names the ssh of the supervisor.
PidFile ==
    \A i \in Inst :
        /\ main[i] = "orphan" => held[i] = pidfile
        /\ main[i] \in Holding \ {"bound", "orphan"} /\ pidfile # None =>
               pidfile = mine[i] /\ sup[i] \in {"wait", "terminate", "drop", "rmpid"}

\* On Linux an ssh without its service has been told to end.
Orphans == \A p \in Pids : DieWithParent /\ owner[p] = None /\ Alive(p) => term[p]

Care == Joined /\ Children /\ PidFile /\ Orphans

-----------------------------------------------------------------------------
(* Types.                                                                  *)

\* What is left when a process is gone.
LEMMA VanishTypes ==
    ASSUME TypeOK, NEW i \in Inst, Vanish(i), faults' \in 0..MaxFaults
    PROVE  TypeOK'
  <1>1. late' \in BOOLEAN /\ term' \in [Pids -> BOOLEAN]
    BY Zenon DEF TypeOK, Vanish
  <1>2. delay' \in [Inst -> MinDelay..MaxDelay]
    BY TunnelAssumption DEF TypeOK, Vanish
  <1>3. owner' \in [Pids -> Inst \cup {None}]
    BY DEF TypeOK, Vanish
  <1>4. /\ st' \in [Pids -> {"free", "starting", "open", "dead"}]
        /\ port' \in Inst \cup {None}
    BY DEF TypeOK, Vanish
  <1>5. /\ main' \in [Inst -> MainPC] /\ stop' \in [Inst -> BOOLEAN]
        /\ held' \in [Inst -> Pids \cup {None}] /\ sup' \in [Inst -> SupPC]
        /\ shared' \in [Inst -> Pids \cup {None}] /\ mine' \in [Inst -> Pids \cup {None}]
        /\ state' \in [Inst -> States] /\ age' \in [Inst -> 0..2]
        /\ auth' \in [Inst -> BOOLEAN] /\ prep' \in [Inst -> {"none", "sent", "ran"}]
        /\ pidfile' \in Pids \cup {None} /\ sock' \in Pids \cup {None, Stale}
    BY DEF TypeOK, Vanish, MainPC, SupPC, States
  <1> QED
    BY <1>1, <1>2, <1>3, <1>4, <1>5 DEF TypeOK

\* Every step keeps every variable in its type.
LEMMA TypesInductive == TypeOK /\ [Next]_vars => TypeOK'
  <1> SUFFICES ASSUME TypeOK, [Next]_vars PROVE TypeOK'
    OBVIOUS
  <1> USE DEF Main, Sup, Fault, MyChild, Gone, Alive, mainVars, supVars, procVars,
              remoteVars
  <1>1. ASSUME NEW i \in Inst, Bind(i) PROVE TypeOK'
    BY <1>1 DEF Bind, TypeOK, MainPC
  <1>2. ASSUME NEW i \in Inst, ReadPidFile(i) PROVE TypeOK'
    BY <1>2 DEF ReadPidFile, TypeOK, MainPC
  <1>3. ASSUME NEW i \in Inst, KillOrphan(i) PROVE TypeOK'
    BY <1>3 DEF KillOrphan, Signal, TypeOK, MainPC, SupPC
  <1>4. ASSUME NEW i \in Inst, Shutdown(i) PROVE TypeOK'
    BY <1>4 DEF Shutdown, TypeOK, MainPC
  <1>5. ASSUME NEW i \in Inst, StopChild(i) PROVE TypeOK'
    <2>1. CASE shared[i] = None \/ Gone(i, shared[i])
      BY <1>5, <2>1 DEF StopChild, Collect, TypeOK, MainPC
    <2>2. CASE ~(shared[i] = None \/ Gone(i, shared[i]))
      BY <1>5, <2>2 DEF StopChild, Signal, TypeOK, MainPC
    <2> QED
      BY <2>1, <2>2
  <1>6. ASSUME NEW i \in Inst, ChildStopped(i) PROVE TypeOK'
    BY <1>6 DEF ChildStopped, Collect, TypeOK, MainPC
  <1>7. ASSUME NEW i \in Inst, KillChild(i) PROVE TypeOK'
    BY <1>7, TunnelAssumption DEF KillChild, Die, TypeOK, MainPC
  <1>8. ASSUME NEW i \in Inst, Join(i) PROVE TypeOK'
    BY <1>8 DEF Join, TypeOK, MainPC
  <1>9. ASSUME NEW i \in Inst, JoinTimeout(i) PROVE TypeOK'
    BY <1>9, TunnelAssumption DEF JoinTimeout, TypeOK, MainPC
  <1>10. ASSUME NEW i \in Inst, Close(i) PROVE TypeOK'
    BY <1>10 DEF Close, TypeOK, MainPC
  <1>11. ASSUME NEW i \in Inst, Exit(i) PROVE TypeOK'
    BY <1>11, VanishTypes DEF Exit, TypeOK
  <1>12. ASSUME NEW i \in Inst, Crash(i) PROVE TypeOK'
    BY <1>12, VanishTypes, TunnelAssumption DEF Crash, TypeOK
  <1>13. ASSUME NEW i \in Inst, Loop(i) PROVE TypeOK'
    BY <1>13 DEF Loop, TypeOK, SupPC, States
  <1>14. ASSUME NEW i \in Inst, PrepOk(i) PROVE TypeOK'
    BY <1>14 DEF PrepOk, TypeOK, SupPC
  <1>15. ASSUME NEW i \in Inst, PrepFails(i) PROVE TypeOK'
    <2>1. late' \in BOOLEAN
      BY <1>15, ZenonT(30) DEF PrepFails, TypeOK
    <2>2. auth' \in [Inst -> BOOLEAN]
      BY <1>15 DEF PrepFails, TypeOK
    <2> QED
      BY <1>15, <2>1, <2>2, TunnelAssumption DEF PrepFails, TypeOK, SupPC
  <1>16. ASSUME NEW i \in Inst, PrepRaises(i) PROVE TypeOK'
    BY <1>16, TunnelAssumption DEF PrepRaises, TypeOK, SupPC
  <1>17. ASSUME NEW i \in Inst, Popen(i) PROVE TypeOK'
    BY <1>17 DEF Popen, TypeOK, SupPC
  <1>18. ASSUME NEW i \in Inst, PopenFails(i) PROVE TypeOK'
    BY <1>18, TunnelAssumption DEF PopenFails, TypeOK, SupPC
  <1>19. ASSUME NEW i \in Inst, Register(i) PROVE TypeOK'
    BY <1>19 DEF Register, TypeOK, SupPC
  <1>20. ASSUME NEW i \in Inst, WritePid(i) PROVE TypeOK'
    BY <1>20, TunnelAssumption DEF WritePid, PidToWrite, TypeOK, SupPC
  <1>21. ASSUME NEW i \in Inst, Reap(i) PROVE TypeOK'
    BY <1>21 DEF Reap, Collect, TypeOK, SupPC
  <1>22. ASSUME NEW i \in Inst, SeeStop(i) PROVE TypeOK'
    BY <1>22 DEF SeeStop, Signal, TypeOK, SupPC
  <1>23. ASSUME NEW i \in Inst, DeclareUp(i) PROVE TypeOK'
    BY <1>23 DEF DeclareUp, TypeOK, States
  <1>24. ASSUME NEW i \in Inst, GiveUp(i) PROVE TypeOK'
    BY <1>24, TunnelAssumption DEF GiveUp, Die, TypeOK, SupPC
  <1>25. ASSUME NEW i \in Inst, Drop(i) PROVE TypeOK'
    BY <1>25 DEF Drop, TypeOK, SupPC
  <1>26. ASSUME NEW i \in Inst, RemovePid(i) PROVE TypeOK'
    BY <1>26 DEF RemovePid, TypeOK, SupPC
  <1>27. ASSUME NEW i \in Inst, After(i) PROVE TypeOK'
    BY <1>27, TunnelAssumption DEF After, Stable, TypeOK, SupPC, States
  <1>28. ASSUME NEW i \in Inst, Wake(i) PROVE TypeOK'
    BY <1>28, TunnelAssumption DEF Wake, Doubled, TypeOK, SupPC, States
  <1>29. ASSUME NEW i \in Inst, Age(i) PROVE TypeOK'
    BY <1>29 DEF Age, TypeOK
  <1>30. ASSUME NEW i \in Inst, PrepRuns(i) PROVE TypeOK'
    BY <1>30 DEF PrepRuns, PrepEffect, TypeOK
  <1>31. ASSUME NEW p \in Pids, Connect(p) PROVE TypeOK'
    BY <1>31 DEF Connect, Die, TypeOK
  <1>32. ASSUME NEW p \in Pids, Disconnect(p) PROVE TypeOK'
    <2>1. auth' \in [Inst -> BOOLEAN]
      <3>1. PICK a \in BOOLEAN : auth' = [i \in Inst |-> IF owner[p] = i THEN a ELSE auth[i]]
        BY <1>32, Zenon DEF Disconnect
      <3> QED
        BY <3>1, Zenon DEF TypeOK
    <2> QED
      BY <1>32, <2>1, TunnelAssumption DEF Disconnect, Die, TypeOK
  <1>33. ASSUME NEW p \in Pids, Terminated(p) PROVE TypeOK'
    BY <1>33 DEF Terminated, Die, TypeOK
  <1>34. CASE LatePrepRuns
    BY <1>34 DEF LatePrepRuns, PrepEffect, TypeOK
  <1>35. CASE UNCHANGED vars
    BY <1>35 DEF vars, TypeOK
  <1> QED
    BY <1>1, <1>2, <1>3, <1>4, <1>5, <1>6, <1>7, <1>8, <1>9, <1>10, <1>11, <1>12,
       <1>13, <1>14, <1>15, <1>16, <1>17, <1>18, <1>19, <1>20, <1>21, <1>22, <1>23,
       <1>24, <1>25, <1>26, <1>27, <1>28, <1>29, <1>30, <1>31, <1>32, <1>33, <1>34,
       <1>35
       DEF Next, MainStep, SupStep, FaultStep

-----------------------------------------------------------------------------
(* The port.                                                               *)

\* Every step keeps the port with the process whose supervisor may run.
LEMMA LockInductive == TypeOK /\ Lock /\ [Next]_vars => Lock'
  <1> SUFFICES ASSUME TypeOK, Lock, [Next]_vars PROVE Lock'
    OBVIOUS
  <1> USE DEF Main, Sup, Fault, MyChild, Gone, Alive, mainVars, supVars, procVars,
              remoteVars
  <1>1. ASSUME NEW i \in Inst, Bind(i) PROVE Lock'
    BY <1>1, TunnelAssumption DEF Bind, Lock
  <1>2. ASSUME NEW i \in Inst, ReadPidFile(i) PROVE Lock'
    BY <1>2 DEF ReadPidFile, Lock, Holding
  <1>3. ASSUME NEW i \in Inst, KillOrphan(i) PROVE Lock'
    BY <1>3 DEF KillOrphan, Signal, TypeOK, Lock, Holding
  <1>4. ASSUME NEW i \in Inst, Shutdown(i) PROVE Lock'
    BY <1>4 DEF Shutdown, Lock, Holding
  <1>5. ASSUME NEW i \in Inst, StopChild(i) PROVE Lock'
    BY <1>5 DEF StopChild, Collect, Signal, TypeOK, Lock, Holding
  <1>6. ASSUME NEW i \in Inst, ChildStopped(i) PROVE Lock'
    BY <1>6 DEF ChildStopped, Collect, Lock, Holding
  <1>7. ASSUME NEW i \in Inst, KillChild(i) PROVE Lock'
    BY <1>7 DEF KillChild, Die, Lock, Holding
  <1>8. ASSUME NEW i \in Inst, Join(i) PROVE Lock'
    BY <1>8 DEF Join, Lock, Holding
  <1>9. ASSUME NEW i \in Inst, JoinTimeout(i) PROVE Lock'
    BY <1>9 DEF JoinTimeout, Lock, Holding
  <1>10. ASSUME NEW i \in Inst, Close(i) PROVE Lock'
    BY <1>10 DEF Close, TypeOK, Lock, Holding
  <1>11. ASSUME NEW i \in Inst, Exit(i) PROVE Lock'
    BY <1>11 DEF Exit, Vanish, TypeOK, Lock, Holding
  <1>12. ASSUME NEW i \in Inst, Crash(i) PROVE Lock'
    BY <1>12 DEF Crash, Vanish, TypeOK, Lock, Holding
  <1>13. ASSUME NEW i \in Inst, Loop(i) PROVE Lock'
    BY <1>13 DEF Loop, TypeOK, Lock
  <1>14. ASSUME NEW i \in Inst, PrepOk(i) PROVE Lock'
    BY <1>14 DEF PrepOk, Lock
  <1>15. ASSUME NEW i \in Inst, PrepFails(i) PROVE Lock'
    BY <1>15 DEF PrepFails, Lock
  <1>16. ASSUME NEW i \in Inst, PrepRaises(i) PROVE Lock'
    BY <1>16 DEF PrepRaises, Lock
  <1>17. ASSUME NEW i \in Inst, Popen(i) PROVE Lock'
    BY <1>17 DEF Popen, Lock
  <1>18. ASSUME NEW i \in Inst, PopenFails(i) PROVE Lock'
    BY <1>18 DEF PopenFails, Lock
  <1>19. ASSUME NEW i \in Inst, Register(i) PROVE Lock'
    BY <1>19 DEF Register, Lock
  <1>20. ASSUME NEW i \in Inst, WritePid(i) PROVE Lock'
    BY <1>20 DEF WritePid, PidToWrite, Lock
  <1>21. ASSUME NEW i \in Inst, Reap(i) PROVE Lock'
    BY <1>21 DEF Reap, Collect, Lock
  <1>22. ASSUME NEW i \in Inst, SeeStop(i) PROVE Lock'
    BY <1>22 DEF SeeStop, Signal, Lock
  <1>23. ASSUME NEW i \in Inst, DeclareUp(i) PROVE Lock'
    BY <1>23 DEF DeclareUp, Lock
  <1>24. ASSUME NEW i \in Inst, GiveUp(i) PROVE Lock'
    BY <1>24 DEF GiveUp, Die, Lock
  <1>25. ASSUME NEW i \in Inst, Drop(i) PROVE Lock'
    BY <1>25 DEF Drop, Lock
  <1>26. ASSUME NEW i \in Inst, RemovePid(i) PROVE Lock'
    BY <1>26 DEF RemovePid, TypeOK, Lock
  <1>27. ASSUME NEW i \in Inst, After(i) PROVE Lock'
    BY <1>27 DEF After, Stable, TypeOK, Lock
  <1>28. ASSUME NEW i \in Inst, Wake(i) PROVE Lock'
    BY <1>28 DEF Wake, Doubled, TypeOK, Lock
  <1>29. ASSUME NEW i \in Inst, Age(i) PROVE Lock'
    BY <1>29 DEF Age, Lock
  <1>30. ASSUME NEW i \in Inst, PrepRuns(i) PROVE Lock'
    BY <1>30 DEF PrepRuns, PrepEffect, Lock
  <1>31. ASSUME NEW p \in Pids, Connect(p) PROVE Lock'
    BY <1>31 DEF Connect, Die, Lock
  <1>32. ASSUME NEW p \in Pids, Disconnect(p) PROVE Lock'
    BY <1>32 DEF Disconnect, Die, Lock
  <1>33. ASSUME NEW p \in Pids, Terminated(p) PROVE Lock'
    BY <1>33 DEF Terminated, Die, Lock
  <1>34. CASE LatePrepRuns
    BY <1>34 DEF LatePrepRuns, Lock
  <1>35. CASE UNCHANGED vars
    BY <1>35 DEF vars, Lock
  <1> QED
    BY <1>1, <1>2, <1>3, <1>4, <1>5, <1>6, <1>7, <1>8, <1>9, <1>10, <1>11, <1>12,
       <1>13, <1>14, <1>15, <1>16, <1>17, <1>18, <1>19, <1>20, <1>21, <1>22, <1>23,
       <1>24, <1>25, <1>26, <1>27, <1>28, <1>29, <1>30, <1>31, <1>32, <1>33, <1>34,
       <1>35
       DEF Next, MainStep, SupStep, FaultStep

\* Two supervisors run at a time only when one was given up by its process.
LEMMA LockSafe == TypeOK /\ Lock => OneSupervisor
  BY DEF TypeOK, MainPC, Lock, Holding, OneSupervisor, Running

-----------------------------------------------------------------------------
(* The ssh and the pid file.                                               *)

\* Every step keeps what the processes know of each other's leavings.
LEMMA CareInductive ==
    ASSUME "slow" \notin Faults
    PROVE  TypeOK /\ Lock /\ Care /\ [Next]_vars => Care'
  <1> SUFFICES ASSUME TypeOK, Lock, Care, [Next]_vars PROVE Care'
    OBVIOUS
  <1> USE DEF Main, Sup, Fault, MyChild, Gone, Alive, mainVars, supVars, procVars,
              remoteVars
  <1>1. ASSUME NEW i \in Inst, Bind(i) PROVE Care'
    BY <1>1 DEF Bind, Care, Joined, Children, PidFile, Orphans, Running
  <1>2. ASSUME NEW i \in Inst, ReadPidFile(i) PROVE Care'
    BY <1>2 DEF ReadPidFile, TypeOK, Care, Joined, Children, PidFile, Orphans, Running
  <1>3. ASSUME NEW i \in Inst, KillOrphan(i) PROVE Care'
    BY <1>3
       DEF KillOrphan, Signal, TypeOK, Lock, Holding, Care, Joined, Children, PidFile,
           Orphans, Running
  <1>4. ASSUME NEW i \in Inst, Shutdown(i) PROVE Care'
    BY <1>4 DEF Shutdown, Holding, Care, Joined, Children, PidFile, Orphans, Running
  <1>5. ASSUME NEW i \in Inst, StopChild(i) PROVE Care'
    BY <1>5
       DEF StopChild, Collect, Signal, TypeOK, Holding, Care, Joined, Children,
           PidFile, Orphans, Running
  <1>6. ASSUME NEW i \in Inst, ChildStopped(i) PROVE Care'
    BY <1>6
       DEF ChildStopped, Collect, TypeOK, Holding, Care, Joined, Children, PidFile,
           Orphans, Running
  <1>7. ASSUME NEW i \in Inst, KillChild(i) PROVE Care'
    BY <1>7
       DEF KillChild, Die, Holding, Care, Joined, Children, PidFile, Orphans, Running
  <1>8. ASSUME NEW i \in Inst, Join(i) PROVE Care'
    BY <1>8 DEF Join, Holding, Care, Joined, Children, PidFile, Orphans, Running
  <1>9. ASSUME NEW i \in Inst, JoinTimeout(i) PROVE Care'
    BY <1>9 DEF JoinTimeout, Care
  <1>10. ASSUME NEW i \in Inst, Close(i) PROVE Care'
    BY <1>10 DEF Close, Holding, Care, Joined, Children, PidFile, Orphans, Running
  <1>11. ASSUME NEW i \in Inst, Exit(i) PROVE Care'
    BY <1>11
       DEF Exit, Vanish, TypeOK, Holding, Care, Joined, Children, PidFile, Orphans,
           Running
  <1>12. ASSUME NEW i \in Inst, Crash(i) PROVE Care'
    <2>1. Joined' /\ Children' /\ PidFile'
      BY <1>12, TunnelAssumption
         DEF Crash, Vanish, TypeOK, Lock, Holding, Care, Joined, Children, PidFile, Running
    <2>2. Orphans'
      <3> SUFFICES ASSUME NEW p \in Pids, DieWithParent, owner'[p] = None, Alive(p)'
                   PROVE  term'[p]
        BY DEF Orphans
      <3>1. term'[p] <=> term[p] \/ owner[p] = i
        BY <1>12, Zenon DEF Crash, Vanish, KilledWith
      <3>2. owner[p] = i \/ (owner[p] = None /\ Alive(p))
        BY <1>12, TunnelAssumption DEF Crash, Vanish, TypeOK
      <3> QED
        BY <3>1, <3>2 DEF Care, Orphans
    <2> QED
      BY <2>1, <2>2 DEF Care
  <1>13. ASSUME NEW i \in Inst, Loop(i) PROVE Care'
    BY <1>13 DEF Loop, TypeOK, Care, Joined, Children, PidFile, Orphans, Running
  <1>14. ASSUME NEW i \in Inst, PrepOk(i) PROVE Care'
    BY <1>14 DEF PrepOk, Care, Joined, Children, PidFile, Orphans, Running
  <1>15. ASSUME NEW i \in Inst, PrepFails(i) PROVE Care'
    BY <1>15 DEF PrepFails, Care, Joined, Children, PidFile, Orphans, Running
  <1>16. ASSUME NEW i \in Inst, PrepRaises(i) PROVE Care'
    BY <1>16 DEF PrepRaises, Care, Joined, Children, PidFile, Orphans, Running
  <1>17. ASSUME NEW i \in Inst, Popen(i) PROVE Care'
    BY <1>17, TunnelAssumption
       DEF Popen, TypeOK, Care, Joined, Children, PidFile, Orphans, Running
  <1>18. ASSUME NEW i \in Inst, PopenFails(i) PROVE Care'
    BY <1>18 DEF PopenFails, Care, Joined, Children, PidFile, Orphans, Running
  <1>19. ASSUME NEW i \in Inst, Register(i) PROVE Care'
    BY <1>19 DEF Register, Care, Joined, Children, PidFile, Orphans, Running
  <1>20. ASSUME NEW i \in Inst, WritePid(i) PROVE Care'
    <2>1. Joined' /\ Children' /\ Orphans'
      BY <1>20, TunnelAssumption
         DEF WritePid, TypeOK, Care, Joined, Children, Orphans, Running
    <2>2. PidFile'
      <3>1. main[i] \in Holding \ {"bound", "orphan"} /\ port = i
        BY <1>20 DEF WritePid, TypeOK, MainPC, Lock, Holding, Care, Joined, Running
      <3>2. \A j \in Inst : j # i => main[j] \notin Holding
        BY <3>1 DEF Lock
      <3> QED
        BY <1>20, <3>1, <3>2, TunnelAssumption
           DEF WritePid, PidToWrite, TypeOK, Care, PidFile, Holding
    <2> QED
      BY <2>1, <2>2 DEF Care
  <1>21. ASSUME NEW i \in Inst, Reap(i) PROVE Care'
    BY <1>21, TunnelAssumption
       DEF Reap, Collect, TypeOK, Care, Joined, Children, PidFile, Orphans, Running
  <1>22. ASSUME NEW i \in Inst, SeeStop(i) PROVE Care'
    BY <1>22 DEF SeeStop, Signal, Care, Joined, Children, PidFile, Orphans, Running
  <1>23. ASSUME NEW i \in Inst, DeclareUp(i) PROVE Care'
    BY <1>23 DEF DeclareUp, Care, Joined, Children, PidFile, Orphans, Running
  <1>24. ASSUME NEW i \in Inst, GiveUp(i) PROVE Care'
    BY <1>24
       DEF GiveUp, Die, TypeOK, Care, Joined, Children, PidFile, Orphans, Running
  <1>25. ASSUME NEW i \in Inst, Drop(i) PROVE Care'
    BY <1>25 DEF Drop, Care, Joined, Children, PidFile, Orphans, Running
  <1>26. ASSUME NEW i \in Inst, RemovePid(i) PROVE Care'
    <2>1. Joined' /\ Children' /\ Orphans'
      BY <1>26, TunnelAssumption
         DEF RemovePid, TypeOK, Care, Joined, Children, Orphans, Running
    <2>2. PidFile'
      <3>1. main[i] \in Holding \ {"bound", "orphan"} /\ port = i
        BY <1>26 DEF RemovePid, TypeOK, MainPC, Lock, Holding, Care, Joined, Running
      <3>2. \A j \in Inst : j # i => main[j] \notin Holding
        BY <3>1 DEF Lock
      <3> QED
        BY <1>26, <3>1, <3>2, TunnelAssumption
           DEF RemovePid, TypeOK, Care, PidFile, Holding
    <2> QED
      BY <2>1, <2>2 DEF Care
  <1>27. ASSUME NEW i \in Inst, After(i) PROVE Care'
    BY <1>27
       DEF After, Stable, TypeOK, Care, Joined, Children, PidFile, Orphans, Running
  <1>28. ASSUME NEW i \in Inst, Wake(i) PROVE Care'
    BY <1>28
       DEF Wake, Doubled, TypeOK, Care, Joined, Children, PidFile, Orphans, Running
  <1>29. ASSUME NEW i \in Inst, Age(i) PROVE Care'
    BY <1>29 DEF Age, Care, Joined, Children, PidFile, Orphans, Running
  <1>30. ASSUME NEW i \in Inst, PrepRuns(i) PROVE Care'
    BY <1>30
       DEF PrepRuns, PrepEffect, Care, Joined, Children, PidFile, Orphans, Running
  <1>31. ASSUME NEW p \in Pids, Connect(p) PROVE Care'
    BY <1>31
       DEF Connect, Die, TypeOK, Care, Joined, Children, PidFile, Orphans, Running
  <1>32. ASSUME NEW p \in Pids, Disconnect(p) PROVE Care'
    BY <1>32 DEF Disconnect, Die, Care, Joined, Children, PidFile, Orphans, Running
  <1>33. ASSUME NEW p \in Pids, Terminated(p) PROVE Care'
    BY <1>33 DEF Terminated, Die, Care, Joined, Children, PidFile, Orphans, Running
  <1>34. CASE LatePrepRuns
    BY <1>34 DEF LatePrepRuns, Care, Joined, Children, PidFile, Orphans, Running
  <1>35. CASE UNCHANGED vars
    BY <1>35 DEF vars, Care, Joined, Children, PidFile, Orphans, Running
  <1> QED
    BY <1>1, <1>2, <1>3, <1>4, <1>5, <1>6, <1>7, <1>8, <1>9, <1>10, <1>11, <1>12,
       <1>13, <1>14, <1>15, <1>16, <1>17, <1>18, <1>19, <1>20, <1>21, <1>22, <1>23,
       <1>24, <1>25, <1>26, <1>27, <1>28, <1>29, <1>30, <1>31, <1>32, <1>33, <1>34,
       <1>35
       DEF Next, MainStep, SupStep, FaultStep

\* What it says of a stopped bridge and, on Linux, of the tunnels there are.
LEMMA CareSafe ==
    ASSUME TypeOK, Lock, Care
    PROVE  CleanStop /\ (DieWithParent => OneTunnel)
  <1>1. CleanStop
    BY DEF TypeOK, SupPC, Care, Children, PidFile, Holding, Running, CleanStop
  <1>2. ASSUME DieWithParent, NEW p \in Pids, Alive(p), ~term[p]
        PROVE  \E i \in Inst : port = i /\ p = mine[i]
    <2>1. PICK i \in Inst : owner[p] = i
      BY <1>2 DEF TypeOK, Care, Orphans
    <2>2. p = mine[i] /\ sup[i] \in {"register", "writepid", "wait", "terminate"}
      BY <1>2, <2>1 DEF Care, Children
    <2>3. main[i] \in Holding
      BY <2>2 DEF TypeOK, MainPC, Lock, Holding, Care, Joined, Running
    <2> QED
      BY <2>2, <2>3 DEF Lock
  <1>3. DieWithParent => OneTunnel
    BY <1>2 DEF OneTunnel
  <1> QED
    BY <1>1, <1>3

\* Every step keeps the pid file on the ssh the supervisor waits for.
LEMMA RecordedInductive ==
    ASSUME Faults \cap {"slow", "disk"} = {}
    PROVE  TypeOK /\ Lock /\ Care /\ Recorded /\ [Next]_vars => Recorded'
  <1> SUFFICES ASSUME TypeOK, Lock, Care, Recorded, [Next]_vars PROVE Recorded'
    OBVIOUS
  <1> USE DEF Main, Sup, Fault, MyChild, Gone, Alive, mainVars, supVars, procVars,
              remoteVars
  <1>1. ASSUME NEW i \in Inst, Bind(i) PROVE Recorded'
    BY <1>1 DEF Bind, Recorded
  <1>2. ASSUME NEW i \in Inst, ReadPidFile(i) PROVE Recorded'
    BY <1>2 DEF ReadPidFile, Recorded
  <1>3. ASSUME NEW i \in Inst, KillOrphan(i) PROVE Recorded'
    <2>1. main[i] \in Holding
      BY <1>3 DEF KillOrphan, TypeOK, MainPC, Lock, Holding, Care, Joined, Running
    <2>2. \A j \in Inst : j # i => ~Running(j)
      BY <2>1 DEF TypeOK, MainPC, Lock, Holding, Care, Joined, Running
    <2> QED
      BY <1>3, <2>2 DEF KillOrphan, Signal, TypeOK, Running, Recorded
  <1>4. ASSUME NEW i \in Inst, Shutdown(i) PROVE Recorded'
    BY <1>4 DEF Shutdown, Recorded
  <1>5. ASSUME NEW i \in Inst, StopChild(i) PROVE Recorded'
    BY <1>5, TunnelAssumption DEF StopChild, Collect, Signal, TypeOK, Recorded
  <1>6. ASSUME NEW i \in Inst, ChildStopped(i) PROVE Recorded'
    BY <1>6, TunnelAssumption DEF ChildStopped, Collect, TypeOK, Recorded
  <1>7. ASSUME NEW i \in Inst, KillChild(i) PROVE Recorded'
    BY <1>7 DEF KillChild, Die, Recorded
  <1>8. ASSUME NEW i \in Inst, Join(i) PROVE Recorded'
    BY <1>8 DEF Join, Recorded
  <1>9. ASSUME NEW i \in Inst, JoinTimeout(i) PROVE Recorded'
    BY <1>9 DEF JoinTimeout, Recorded
  <1>10. ASSUME NEW i \in Inst, Close(i) PROVE Recorded'
    BY <1>10 DEF Close, Recorded
  <1>11. ASSUME NEW i \in Inst, Exit(i) PROVE Recorded'
    BY <1>11, TunnelAssumption DEF Exit, Vanish, TypeOK, Recorded
  <1>12. ASSUME NEW i \in Inst, Crash(i) PROVE Recorded'
    BY <1>12, TunnelAssumption DEF Crash, Vanish, TypeOK, Recorded
  <1>13. ASSUME NEW i \in Inst, Loop(i) PROVE Recorded'
    BY <1>13 DEF Loop, TypeOK, Recorded
  <1>14. ASSUME NEW i \in Inst, PrepOk(i) PROVE Recorded'
    BY <1>14 DEF PrepOk, Recorded
  <1>15. ASSUME NEW i \in Inst, PrepFails(i) PROVE Recorded'
    BY <1>15 DEF PrepFails, Recorded
  <1>16. ASSUME NEW i \in Inst, PrepRaises(i) PROVE Recorded'
    BY <1>16 DEF PrepRaises, Recorded
  <1>17. ASSUME NEW i \in Inst, Popen(i) PROVE Recorded'
    BY <1>17 DEF Popen, Recorded
  <1>18. ASSUME NEW i \in Inst, PopenFails(i) PROVE Recorded'
    BY <1>18 DEF PopenFails, Recorded
  <1>19. ASSUME NEW i \in Inst, Register(i) PROVE Recorded'
    BY <1>19 DEF Register, Recorded
  <1>20. ASSUME NEW i \in Inst, WritePid(i) PROVE Recorded'
    <2>1. main[i] \in Holding
      BY <1>20 DEF WritePid, TypeOK, MainPC, Lock, Holding, Care, Joined, Running
    <2>2. \A j \in Inst : j # i => ~Running(j)
      BY <2>1 DEF TypeOK, MainPC, Lock, Holding, Care, Joined, Running
    <2> QED
      BY <1>20, <2>2 DEF WritePid, PidToWrite, TypeOK, Running, Recorded
  <1>21. ASSUME NEW i \in Inst, Reap(i) PROVE Recorded'
    BY <1>21, TunnelAssumption DEF Reap, Collect, TypeOK, Recorded
  <1>22. ASSUME NEW i \in Inst, SeeStop(i) PROVE Recorded'
    BY <1>22 DEF SeeStop, Signal, Recorded
  <1>23. ASSUME NEW i \in Inst, DeclareUp(i) PROVE Recorded'
    BY <1>23 DEF DeclareUp, Recorded
  <1>24. ASSUME NEW i \in Inst, GiveUp(i) PROVE Recorded'
    BY <1>24 DEF GiveUp, Die, Recorded
  <1>25. ASSUME NEW i \in Inst, Drop(i) PROVE Recorded'
    BY <1>25 DEF Drop, Recorded
  <1>26. ASSUME NEW i \in Inst, RemovePid(i) PROVE Recorded'
    <2>1. main[i] \in Holding
      BY <1>26 DEF RemovePid, TypeOK, MainPC, Lock, Holding, Care, Joined, Running
    <2>2. \A j \in Inst : j # i => ~Running(j)
      BY <2>1 DEF TypeOK, MainPC, Lock, Holding, Care, Joined, Running
    <2> QED
      BY <1>26, <2>2 DEF RemovePid, TypeOK, Running, Recorded
  <1>27. ASSUME NEW i \in Inst, After(i) PROVE Recorded'
    BY <1>27 DEF After, Stable, TypeOK, Recorded
  <1>28. ASSUME NEW i \in Inst, Wake(i) PROVE Recorded'
    BY <1>28 DEF Wake, Doubled, TypeOK, Recorded
  <1>29. ASSUME NEW i \in Inst, Age(i) PROVE Recorded'
    BY <1>29 DEF Age, Recorded
  <1>30. ASSUME NEW i \in Inst, PrepRuns(i) PROVE Recorded'
    BY <1>30 DEF PrepRuns, PrepEffect, Recorded
  <1>31. ASSUME NEW p \in Pids, Connect(p) PROVE Recorded'
    BY <1>31 DEF Connect, Die, TypeOK, Recorded
  <1>32. ASSUME NEW p \in Pids, Disconnect(p) PROVE Recorded'
    BY <1>32 DEF Disconnect, Die, Recorded
  <1>33. ASSUME NEW p \in Pids, Terminated(p) PROVE Recorded'
    BY <1>33 DEF Terminated, Die, Recorded
  <1>34. CASE LatePrepRuns
    BY <1>34 DEF LatePrepRuns, Recorded
  <1>35. CASE UNCHANGED vars
    BY <1>35 DEF vars, Recorded
  <1> QED
    BY <1>1, <1>2, <1>3, <1>4, <1>5, <1>6, <1>7, <1>8, <1>9, <1>10, <1>11, <1>12,
       <1>13, <1>14, <1>15, <1>16, <1>17, <1>18, <1>19, <1>20, <1>21, <1>22, <1>23,
       <1>24, <1>25, <1>26, <1>27, <1>28, <1>29, <1>30, <1>31, <1>32, <1>33, <1>34,
       <1>35
       DEF Next, MainStep, SupStep, FaultStep

-----------------------------------------------------------------------------
(* The theorems.                                                           *)

\* Nothing runs yet; a pid file from before is as good as none.
LEMMA Initial == Init => TypeOK /\ Lock /\ Care /\ Recorded
  <1> SUFFICES ASSUME Init PROVE TypeOK /\ Lock /\ Care /\ Recorded
    OBVIOUS
  <1>1. /\ delay \in [Inst -> MinDelay..MaxDelay] /\ age \in [Inst -> 0..2]
        /\ faults \in 0..MaxFaults
    BY TunnelAssumption DEF Init
  <1>2. TypeOK
    BY <1>1 DEF Init, TypeOK, MainPC, SupPC, States
  <1>3. Lock
    BY DEF Init, Lock, Holding
  <1>4. Care
    BY DEF Init, Care, Joined, Children, PidFile, Orphans, Alive, Holding
  <1>5. Recorded
    BY DEF Init, Recorded
  <1> QED
    BY <1>2, <1>3, <1>4, <1>5

\* All variables of the tunnel keep their types, whatever faults happen; the
\* delay in particular stays between its bounds.
THEOREM TypeCorrect == Spec => []TypeOK
  BY Initial, TypesInductive, PTL DEF Spec

\* The lock, whatever faults happen.
LEMMA Locked == Spec => []Lock
  BY Initial, TypeCorrect, LockInductive, PTL DEF Spec

\* Binding the port before start() and closing it after stop() keeps a second
\* supervisor of this host out, for any number of processes and any faults.
THEOREM OneSupervisorAtATime == Spec => []OneSupervisor
  BY TypeCorrect, Locked, LockSafe, PTL

\* The care, when join(timeout=10) never gives up.
LEMMA Careful == ASSUME "slow" \notin Faults PROVE Spec => []Care
  BY Initial, TypeCorrect, Locked, CareInductive, PTL DEF Spec

\* A stop() that has joined its supervisor leaves no ssh and no pid file,
\* wherever in an attempt the event was set.
THEOREM StopsClean == ASSUME "slow" \notin Faults PROVE Spec => []CleanStop
  BY TypeCorrect, Locked, Careful, CareSafe, PTL

\* Where ssh dies with its service, no crash and no restart ever makes two
\* tunnels of this host that both mean to stay.
THEOREM OneTunnelOnLinux ==
    ASSUME "slow" \notin Faults, DieWithParent
    PROVE  Spec => []OneTunnel
  BY TypeCorrect, Locked, Careful, CareSafe, PTL

\* As long as it can be written, the pid file names the ssh the supervisor
\* waits for, so that kill_orphan of the next start can find it.
THEOREM AlwaysRecorded ==
    ASSUME Faults \cap {"slow", "disk"} = {}
    PROVE  Spec => []Recorded
  <1>1. Spec => []Care
    BY Careful
  <1> QED
    BY <1>1, Initial, TypeCorrect, Locked, RecordedInductive, PTL DEF Spec

-----------------------------------------------------------------------------
(* The detailed tunnel implements TunnelSpec where ssh dies with its service.*)

\* The refinement mapping.
live == {p \in Pids : Alive(p) /\ ~term[p]}
dialled == {<<owner[p], p>> : p \in live}
promised == <<port, dialled>>

\* What may happen to tunnels while none is dialled: some end.
Ending == live' \subseteq live /\ \A p \in live' : owner'[p] = owner[p]

RInv == TypeOK /\ Lock /\ Care

\* A tunnel that is meant to stay is that of the process that has the port, and
\* its supervisor deals with it.
LEMMA Kept ==
    ASSUME RInv, DieWithParent, NEW p \in live
    PROVE  /\ port \in Inst /\ owner[p] = port /\ p = mine[port]
           /\ sup[port] \in {"register", "writepid", "wait", "terminate"}
  <1>1. PICK i \in Inst : owner[p] = i
    BY DEF live, RInv, TypeOK, Care, Orphans
  <1>2. p = mine[i] /\ sup[i] \in {"register", "writepid", "wait", "terminate"}
    BY <1>1 DEF live, RInv, Care, Children
  <1>3. main[i] \in Holding
    BY <1>2 DEF RInv, TypeOK, MainPC, Lock, Holding, Care, Joined, Running
  <1> QED
    BY <1>1, <1>2, <1>3 DEF RInv, Lock

\* Without a word about the port, a tunnel fewer is one that hangs up.
LEMMA Fewer ==
    ASSUME RInv, DieWithParent, port' = port, Ending
    PROVE  [Promise!Next]_promised
  <1>1. CASE live' = live
    <2>1. dialled' = dialled
      BY <1>1 DEF dialled, Ending
    <2> QED
      BY <2>1 DEF promised
  <1>2. CASE live' # live
    <2>1. PICK p \in live : p \notin live'
      BY <1>2 DEF Ending
    <2>2. live' = {}
      BY <2>1, Kept DEF Ending
    <2>3. dialled # {} /\ dialled' = {}
      BY <2>1, <2>2 DEF dialled
    <2>4. Promise!Hang
      BY <2>3 DEF Promise!Hang, dialled, live
    <2> QED
      BY <2>4 DEF Promise!Next
  <1> QED
    BY <1>1, <1>2

\* A process that is gone takes its tunnel with it, and no other's.
LEMMA TakesItsTunnel ==
    ASSUME RInv, DieWithParent, NEW i \in Inst, Vanish(i)
    PROVE  [Promise!Next]_promised
  <1>1. CASE port = i
    <2>1. port' = None /\ port # None
      BY <1>1, TunnelAssumption DEF Vanish
    <2>2. live' = {}
      <3> SUFFICES ASSUME NEW p \in Pids, Alive(p)', ~term[p]' PROVE FALSE
        BY DEF live
      <3>1. Alive(p) /\ ~term[p] /\ owner[p] # i
        BY DEF Vanish, Alive, KilledWith
      <3>2. owner[p] = i
        BY <1>1, <3>1, Kept DEF live
      <3> QED
        BY <3>1, <3>2
    <2>3. dialled' = {}
      BY <2>2 DEF dialled
    <2>4. Promise!Release
      BY <2>1, <2>3 DEF Promise!Release, dialled, live
    <2> QED
      BY <2>4 DEF Promise!Next
  <1>2. CASE port # i
    <2>1. port' = port /\ live' \subseteq live
      BY <1>2 DEF Vanish, live, Alive
    <2>2. ASSUME NEW p \in live' PROVE owner'[p] = owner[p]
      <3>1. p \in live /\ owner[p] # i
        BY <1>2, <2>1, <2>2, Kept
      <3> QED
        BY <3>1 DEF Vanish, live
    <2> QED
      BY <2>1, <2>2, Fewer DEF Ending
  <1> QED
    BY <1>1, <1>2

\* Every step is a step of the promise, or leaves it as it is.
LEMMA PromiseStep ==
    ASSUME RInv, DieWithParent, [Next]_vars
    PROVE  [Promise!Next]_promised
  <1> USE DEF Main, Sup, mainVars, supVars, procVars, remoteVars
  <1>t. TypeOK
    BY DEF RInv
  <1>1. ASSUME NEW i \in Inst, Bind(i) PROVE [Promise!Next]_promised
    <2>1. port = None /\ port' = i /\ dialled' = dialled
      BY <1>1 DEF Bind, dialled, live, Alive
    <2>2. Promise!Take(i)
      BY <2>1 DEF Promise!Take, dialled, live
    <2> QED
      BY <2>2 DEF Promise!Next
  <1>2. ASSUME NEW i \in Inst, Popen(i) PROVE [Promise!Next]_promised
    <2>1. port = i /\ port # None
      <3>1. main[i] \in Holding
        BY <1>2 DEF Popen, RInv, TypeOK, MainPC, Lock, Holding, Care, Joined, Running
      <3> QED
        BY <3>1, TunnelAssumption DEF RInv, Lock
    <2>2. live = {}
      BY <1>2, <2>1, Kept DEF Popen
    <2>3. PICK p \in Pids : /\ st' = [st EXCEPT ![p] = "starting"]
                            /\ term' = [term EXCEPT ![p] = FALSE]
                            /\ owner' = [owner EXCEPT ![p] = i]
      BY <1>2 DEF Popen
    <2>4. live' = {p}
      <3>1. Alive(p)' /\ ~term[p]'
        BY <2>3, <1>t DEF TypeOK, Alive
      <3>2. \A q \in Pids \ {p} : st'[q] = st[q] /\ term'[q] = term[q]
        BY <2>3, <1>t DEF TypeOK
      <3> QED
        BY <2>2, <3>1, <3>2 DEF live, Alive
    <2>5. dialled = {} /\ dialled' = {<<i, p>>}
      <3>1. owner'[p] = i
        BY <2>3, <1>t DEF TypeOK
      <3> QED
        BY <2>2, <2>4, <3>1 DEF dialled
    <2>6. Promise!Dial(i, p)
      BY <1>2, <2>1, <2>5 DEF Promise!Dial, dialled, live, Popen
    <2> QED
      BY <2>6 DEF Promise!Next
  <1>3. ASSUME NEW i \in Inst, Close(i) PROVE [Promise!Next]_promised
    <2>1. port = i /\ port # None /\ port' = None
      BY <1>3, TunnelAssumption DEF Close, RInv, Lock, Holding
    <2>2. live = {} /\ live' = live
      BY <1>3, <2>1, Kept DEF Close, RInv, Care, Joined, Running, live, Alive
    <2>3. dialled' = {}
      BY <2>2 DEF dialled
    <2>4. Promise!Release
      BY <2>1, <2>3 DEF Promise!Release, dialled, live
    <2> QED
      BY <2>4 DEF Promise!Next
  <1>4. ASSUME NEW i \in Inst, Exit(i) \/ Crash(i) PROVE [Promise!Next]_promised
    BY <1>4, TakesItsTunnel DEF Exit, Crash
  <1>5. ASSUME NEW i \in Inst, KillOrphan(i) \/ StopChild(i) \/ SeeStop(i)
        PROVE  port' = port /\ Ending
    <2>1. CASE KillOrphan(i)
      BY <2>1, <1>t DEF KillOrphan, Signal, Ending, live, Alive, TypeOK
    <2>2. CASE StopChild(i)
      BY <2>2, <1>t DEF StopChild, Signal, Collect, Ending, live, Alive, TypeOK
    <2>3. CASE SeeStop(i)
      BY <2>3, <1>t DEF SeeStop, Signal, Ending, live, Alive, TypeOK
    <2> QED
      BY <1>5, <2>1, <2>2, <2>3
  <1>6. ASSUME NEW i \in Inst, ChildStopped(i) \/ KillChild(i) \/ Reap(i) \/ GiveUp(i)
        PROVE  port' = port /\ Ending
    <2>1. CASE ChildStopped(i)
      BY <2>1, <1>t DEF ChildStopped, Collect, Ending, live, Alive, TypeOK
    <2>2. CASE KillChild(i)
      BY <2>2, <1>t DEF KillChild, Die, Ending, live, Alive, TypeOK
    <2>3. CASE Reap(i)
      BY <2>3, <1>t DEF Reap, Collect, Ending, live, Alive, TypeOK
    <2>4. CASE GiveUp(i)
      BY <2>4, <1>t DEF GiveUp, Die, Ending, live, Alive, TypeOK
    <2> QED
      BY <1>6, <2>1, <2>2, <2>3, <2>4
  <1>7. ASSUME NEW p \in Pids, Connect(p) \/ Disconnect(p) \/ Terminated(p)
        PROVE  port' = port /\ Ending
    <2>1. CASE Connect(p)
      BY <2>1, <1>t DEF Connect, Die, Ending, live, Alive, TypeOK
    <2>2. CASE Disconnect(p)
      BY <2>2, <1>t DEF Disconnect, Die, Ending, live, Alive, TypeOK
    <2>3. CASE Terminated(p)
      BY <2>3, <1>t DEF Terminated, Die, Ending, live, Alive, TypeOK
    <2> QED
      BY <1>7, <2>1, <2>2, <2>3
  <1>8. ASSUME NEW i \in Inst,
               \/ ReadPidFile(i) \/ Shutdown(i) \/ Join(i) \/ JoinTimeout(i)
               \/ Loop(i) \/ PrepOk(i) \/ PrepFails(i) \/ PrepRaises(i) \/ PopenFails(i)
               \/ Register(i) \/ WritePid(i) \/ DeclareUp(i) \/ Drop(i) \/ RemovePid(i)
               \/ After(i) \/ Wake(i) \/ Age(i) \/ PrepRuns(i)
        PROVE  port' = port /\ Ending
    <2>1. UNCHANGED <<port, st, term, owner>>
      BY <1>8 DEF ReadPidFile, Shutdown, Join, JoinTimeout, Loop, PrepOk, PrepFails,
                  PrepRaises, PopenFails, Register, WritePid, DeclareUp, Drop, RemovePid,
                  After, Wake, Age, PrepRuns
    <2> QED
      BY <2>1 DEF Ending, live, Alive
  <1>9. ASSUME LatePrepRuns \/ UNCHANGED vars PROVE port' = port /\ Ending
    BY <1>9 DEF LatePrepRuns, vars, Ending, live, Alive
  <1> QED
    BY <1>1, <1>2, <1>3, <1>4, <1>5, <1>6, <1>7, <1>8, <1>9, Fewer
       DEF Next, MainStep, SupStep, FaultStep

\* No process has the port and there is no tunnel.
LEMMA PromiseInitial == Init => Promise!Init
  BY DEF Init, Promise!Init, Alive

\* For any number of processes: one at a time has the host's port, only it dials,
\* never beside a tunnel that is meant to stay, and it does not let go of the port
\* while there is one.  It needs what the code needs: that ssh dies with its
\* service and that no supervisor outlives the stop() that joins it.
THEOREM TunnelKeepsPromise ==
    ASSUME "slow" \notin Faults, DieWithParent
    PROVE  Spec => KeepsPromise
  <1>1. Spec => [](TypeOK /\ Lock /\ Care)
    BY TypeCorrect, Locked, Careful, PTL
  <1>2. TypeOK /\ Lock /\ Care /\ [Next]_vars =>
            [Promise!Next]_<<port, {<<owner[p], p>> : p \in {q \in Pids : Alive(q) /\ ~term[q]}}>>
    BY PromiseStep DEF RInv, promised, dialled, live
  <1> QED
    BY <1>1, <1>2, PromiseInitial, PTL DEF Spec, KeepsPromise, Promise!Spec
=============================================================================
