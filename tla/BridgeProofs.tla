---------------------------- MODULE BridgeProofs ----------------------------
(***************************************************************************)
(* For any number of connections and any capacities: the permits of the    *)
(* bridge are accounted for, and the client is told the truth.             *)
(*                                                                         *)
(* TypeOK is not inductive: that no semaphore ever exceeds its capacity    *)
(* follows from PermitsAccounted, and that from the stage each connection  *)
(* has reached (Stages), which also carries ToldTheTruth.                  *)
(* The last part is the refinement of LaunchSpec.                          *)
(***************************************************************************)
EXTENDS Bridge, FiniteSetTheorems, TLAPS

AdmittedPC == {"waiting", "refusing", "reading", "launching", "popen", "reply",
               "finishing", "leaving", "dropped"}
HandlingPC == {"reading", "launching", "popen", "reply", "finishing"}
EarlyPC == {"idle", "backlog", "turning", "waiting", "refusing", "reading", "launching",
            "popen"}

In(P) == {c \in Conns : conn[c] \in P}

\* TypeOK without the upper bounds of the semaphores.
Types ==
    /\ server \in {"serving", "stopping", "exited"}
    /\ conn \in [Conns -> ConnPC]
    /\ kind \in [Conns -> Kinds]
    /\ answer \in [Conns -> Answers]
    /\ client \in [Conns -> {"idle", "waiting", "ok", "refused", "failed",
                             "timeout", "closed"}]
    /\ admitted \in Nat /\ active \in Nat /\ slots \in Nat
    /\ child \in [Conns -> {"none", "running", "reaped", "lost", "raised"}]
    /\ faults \in 0..MaxFaults

Permits ==
    /\ admitted + Cardinality(In(AdmittedPC)) = MaxActive + MaxWaiting
    /\ active + Cardinality(In(HandlingPC)) = MaxActive
    /\ slots + Cardinality(Launching) = MaxChildren

\* What has happened by the time a connection has reached its stage.
Stage(c) ==
    /\ conn[c] \in EarlyPC => child[c] = "none"
    /\ conn[c] = "reply" => answer[c] # "none"
    /\ kind[c] = "open" =>
         /\ conn[c] = "reply" => (answer[c] = "ok" <=> Started(c))
         /\ client[c] = "ok" => Started(c)
         /\ client[c] \in {"refused", "failed"} =>
                ~Started(c) /\ conn[c] \in {"finishing", "leaving", "done"}

Stages == \A c \in Conns : Stage(c)

IInv == Types /\ Permits /\ Stages

-----------------------------------------------------------------------------
(* Counting: one connection changes, every set gains or loses one member.  *)

Bit(b) == IF b THEN 1 ELSE 0

\* Two sets of connections that differ at most in c differ in size by what
\* they say of c.
LEMMA CountChange ==
    ASSUME NEW S \in SUBSET Conns, NEW T \in SUBSET Conns, NEW c \in Conns,
           \A d \in Conns \ {c} : d \in S <=> d \in T
    PROVE  /\ Cardinality(S) \in Nat /\ Cardinality(T) \in Nat
           /\ Cardinality(T) = Cardinality(S) + Bit(c \in T) - Bit(c \in S)
  <1>1. IsFiniteSet(S) /\ IsFiniteSet(T)
    BY FS_Subset, BridgeAssumption
  <1>2. Cardinality(S) \in Nat /\ Cardinality(T) \in Nat
    BY <1>1, FS_CardinalityType
  <1>3. CASE c \in S <=> c \in T
    <2>1. S = T
      BY <1>3
    <2> QED
      BY <2>1, <1>2 DEF Bit
  <1>4. CASE c \in S /\ c \notin T
    <2>1. T = S \ {c}
      BY <1>4
    <2> QED
      BY <2>1, <1>1, <1>2, <1>4, FS_RemoveElement DEF Bit
  <1>5. CASE c \notin S /\ c \in T
    <2>1. T = S \cup {c}
      BY <1>5
    <2> QED
      BY <2>1, <1>1, <1>2, <1>5, FS_AddElement DEF Bit
  <1> QED
    BY <1>3, <1>4, <1>5

\* The sets of Permits are those of PermitsAccounted.
LEMMA SameSets ==
    In(AdmittedPC) = Inside \cup Dropped /\ In(HandlingPC) = Handling
  BY DEF In, AdmittedPC, HandlingPC, Inside, Dropped, Handling

UsesLaunch(c) == conn[c] = "popen" \/ child[c] \in {"running", "lost", "raised"}

\* A step that changes one connection keeps the invariant when it keeps it of
\* that connection and takes or gives back the permits the move calls for.
LEMMA Local ==
    ASSUME IInv, Types', NEW c \in Conns,
           \A d \in Conns \ {c} :
               /\ conn'[d] = conn[d] /\ kind'[d] = kind[d] /\ answer'[d] = answer[d]
               /\ client'[d] = client[d] /\ child'[d] = child[d],
           Stage(c)',
           admitted' = admitted + Bit(conn[c] \in AdmittedPC) - Bit(conn'[c] \in AdmittedPC),
           active' = active + Bit(conn[c] \in HandlingPC) - Bit(conn'[c] \in HandlingPC),
           slots' = slots + Bit(UsesLaunch(c)) - Bit(UsesLaunch(c)')
    PROVE  IInv'
  <1>1. Stages'
    <2> SUFFICES ASSUME NEW d \in Conns PROVE Stage(d)'
      BY DEF Stages
    <2>1. CASE d = c
      BY <2>1
    <2>2. CASE d # c
      BY <2>2 DEF Started, IInv, Stages, Stage
    <2> QED
      BY <2>1, <2>2
  <1>2. admitted' + Cardinality(In(AdmittedPC)') = MaxActive + MaxWaiting
    <2>1. /\ In(AdmittedPC) \in SUBSET Conns /\ In(AdmittedPC)' \in SUBSET Conns
          /\ \A d \in Conns \ {c} : d \in In(AdmittedPC) <=> d \in In(AdmittedPC)'
          /\ c \in In(AdmittedPC) <=> conn[c] \in AdmittedPC
          /\ c \in In(AdmittedPC)' <=> conn'[c] \in AdmittedPC
      BY DEF In
    <2>2. /\ Cardinality(In(AdmittedPC)) \in Nat /\ Cardinality(In(AdmittedPC)') \in Nat
          /\ Cardinality(In(AdmittedPC)') = Cardinality(In(AdmittedPC))
               + Bit(conn'[c] \in AdmittedPC) - Bit(conn[c] \in AdmittedPC)
      BY <2>1, CountChange
    <2> QED
      BY <2>2 DEF IInv, Types, Permits, Bit
  <1>3. active' + Cardinality(In(HandlingPC)') = MaxActive
    <2>1. /\ In(HandlingPC) \in SUBSET Conns /\ In(HandlingPC)' \in SUBSET Conns
          /\ \A d \in Conns \ {c} : d \in In(HandlingPC) <=> d \in In(HandlingPC)'
          /\ c \in In(HandlingPC) <=> conn[c] \in HandlingPC
          /\ c \in In(HandlingPC)' <=> conn'[c] \in HandlingPC
      BY DEF In
    <2>2. /\ Cardinality(In(HandlingPC)) \in Nat /\ Cardinality(In(HandlingPC)') \in Nat
          /\ Cardinality(In(HandlingPC)') = Cardinality(In(HandlingPC))
               + Bit(conn'[c] \in HandlingPC) - Bit(conn[c] \in HandlingPC)
      BY <2>1, CountChange
    <2> QED
      BY <2>2 DEF IInv, Types, Permits, Bit
  <1>4. slots' + Cardinality(Launching') = MaxChildren
    <2>1. /\ Launching \in SUBSET Conns /\ Launching' \in SUBSET Conns
          /\ \A d \in Conns \ {c} : d \in Launching <=> d \in Launching'
          /\ c \in Launching <=> UsesLaunch(c)
          /\ c \in Launching' <=> UsesLaunch(c)'
      BY DEF Launching, UsesLaunch
    <2>2. /\ Cardinality(Launching) \in Nat /\ Cardinality(Launching') \in Nat
          /\ Cardinality(Launching') = Cardinality(Launching)
               + Bit(UsesLaunch(c)') - Bit(UsesLaunch(c))
      BY <2>1, CountChange DEF Bit
    <2> QED
      BY <2>2 DEF IInv, Types, Permits, Bit
  <1> QED
    BY <1>1, <1>2, <1>3, <1>4 DEF IInv, Permits

-----------------------------------------------------------------------------
(* The inductive invariant.                                                *)

\* A new server has all its permits and no connection.
LEMMA Initial == Init => IInv
  <1> SUFFICES ASSUME Init PROVE IInv
    OBVIOUS
  <1>1. Types
    BY BridgeAssumption DEF Init, Types, ConnPC, Kinds, Answers
  <1>2. In(AdmittedPC) = {} /\ In(HandlingPC) = {} /\ Launching = {}
    BY DEF Init, In, AdmittedPC, HandlingPC, Launching
  <1>3. Permits
    BY <1>2, FS_EmptySet, BridgeAssumption DEF Init, Permits
  <1>4. Stages
    BY DEF Init, Stages, Stage
  <1> QED
    BY <1>1, <1>3, <1>4 DEF IInv

\* Every step of the server, its threads and its clients keeps the invariant.
LEMMA Inductive == IInv /\ [Next]_vars => IInv'
  <1> SUFFICES ASSUME IInv, [Next]_vars PROVE IInv'
    OBVIOUS
  <1> USE DEF Move, Up, Started
  <1>1. ASSUME NEW c \in Conns, Connect(c) PROVE IInv'
    <2>1. Types'
      BY <1>1 DEF Connect, IInv, Types, ConnPC
    <2>2. Stage(c)'
      BY <1>1 DEF Connect, IInv, Types, Stages, Stage, EarlyPC
    <2> QED
      BY <1>1, <2>1, <2>2, Local
         DEF Connect, Types, Bit, UsesLaunch, AdmittedPC, HandlingPC
  <1>2. ASSUME NEW c \in Conns, GiveUp(c) PROVE IInv'
    <2>1. Types'
      BY <1>2 DEF GiveUp, IInv, Types
    <2>2. Stage(c)'
      BY <1>2 DEF GiveUp, IInv, Stages, Stage
    <2> QED
      BY <1>2, <2>1, <2>2, Local DEF GiveUp, Types, Bit, UsesLaunch
  <1>3. ASSUME NEW c \in Conns, Accept(c) PROVE IInv'
    <2>1. Types'
      BY <1>3 DEF Accept, IInv, Types, ConnPC
    <2>2. Stage(c)'
      BY <1>3 DEF Accept, IInv, Stages, Stage, EarlyPC
    <2> QED
      BY <1>3, <2>1, <2>2, Local
         DEF Accept, IInv, Types, Bit, UsesLaunch, AdmittedPC, HandlingPC
  <1>4. ASSUME NEW c \in Conns, TurnAway(c) PROVE IInv'
    <2>1. Types'
      BY <1>4 DEF TurnAway, IInv, Types, ConnPC
    <2>2. Stage(c)'
      BY <1>4 DEF TurnAway, IInv, Stages, Stage, EarlyPC
    <2> QED
      BY <1>4, <2>1, <2>2, Local
         DEF TurnAway, Types, Bit, UsesLaunch, AdmittedPC, HandlingPC
  <1>5. ASSUME NEW c \in Conns, TurnedAway(c) PROVE IInv'
    <2>1. Types'
      BY <1>5 DEF TurnedAway, Tell, IInv, Types, ConnPC
    <2>2. Stage(c)'
      BY <1>5 DEF TurnedAway, Tell, IInv, Types, Stages, Stage, EarlyPC
    <2> QED
      BY <1>5, <2>1, <2>2, Local
         DEF TurnedAway, Tell, Types, Bit, UsesLaunch, AdmittedPC, HandlingPC
  <1>6. ASSUME NEW c \in Conns, SpawnFails(c) PROVE IInv'
    <2>1. Types'
      BY <1>6, BridgeAssumption DEF SpawnFails, Fault, Tell, IInv, Types, ConnPC
    <2>2. Stage(c)'
      BY <1>6 DEF SpawnFails, Tell, IInv, Stages, Stage, EarlyPC
    <2> QED
      BY <1>6, <2>1, <2>2, Local
         DEF SpawnFails, Tell, IInv, Types, Bit, UsesLaunch, AdmittedPC, HandlingPC
  <1>7. ASSUME NEW c \in Conns, Acquire(c) PROVE IInv'
    <2>1. Types'
      BY <1>7 DEF Acquire, IInv, Types, ConnPC
    <2>2. Stage(c)'
      BY <1>7 DEF Acquire, IInv, Stages, Stage, EarlyPC
    <2> QED
      BY <1>7, <2>1, <2>2, Local
         DEF Acquire, IInv, Types, Bit, UsesLaunch, AdmittedPC, HandlingPC
  <1>8. ASSUME NEW c \in Conns, AcquireTimeout(c) PROVE IInv'
    <2>1. Types'
      BY <1>8 DEF AcquireTimeout, IInv, Types, ConnPC
    <2>2. Stage(c)'
      BY <1>8 DEF AcquireTimeout, IInv, Stages, Stage, EarlyPC
    <2> QED
      BY <1>8, <2>1, <2>2, Local
         DEF AcquireTimeout, Types, Bit, UsesLaunch, AdmittedPC, HandlingPC
  <1>9. ASSUME NEW c \in Conns, Refuse(c) PROVE IInv'
    <2>1. Types'
      BY <1>9 DEF Refuse, Tell, IInv, Types, ConnPC
    <2>2. Stage(c)'
      BY <1>9 DEF Refuse, Tell, IInv, Types, Stages, Stage, EarlyPC
    <2> QED
      BY <1>9, <2>1, <2>2, Local
         DEF Refuse, Tell, Types, Bit, UsesLaunch, AdmittedPC, HandlingPC
  <1>10. ASSUME NEW c \in Conns, HandleRequest(c) PROVE IInv'
    <2>1. Types'
      BY <1>10 DEF HandleRequest, Respond, IInv, Types, ConnPC, Answers
    <2>2. Stage(c)'
      BY <1>10 DEF HandleRequest, Respond, IInv, Types, Stages, Stage, EarlyPC
    <2> QED
      BY <1>10, <2>1, <2>2, Local
         DEF HandleRequest, Respond, Types, Bit, UsesLaunch, AdmittedPC, HandlingPC
  <1>11. ASSUME NEW c \in Conns, ReadTimeout(c) PROVE IInv'
    <2>1. Types'
      BY <1>11 DEF ReadTimeout, Respond, IInv, Types, ConnPC, Answers
    <2>2. Stage(c)'
      BY <1>11 DEF ReadTimeout, Respond, IInv, Types, Stage, EarlyPC
    <2> QED
      BY <1>11, <2>1, <2>2, Local
         DEF ReadTimeout, Respond, Types, Bit, UsesLaunch, AdmittedPC, HandlingPC
  <1>12. ASSUME NEW c \in Conns, TakeSlot(c) PROVE IInv'
    <2>1. Types'
      BY <1>12 DEF TakeSlot, Respond, IInv, Types, ConnPC, Answers
    <2>2. Stage(c)'
      BY <1>12 DEF TakeSlot, Respond, IInv, Types, Stages, Stage, EarlyPC
    <2> QED
      BY <1>12, <2>1, <2>2, Local
         DEF TakeSlot, Respond, IInv, Types, Bit, UsesLaunch, AdmittedPC, HandlingPC,
             EarlyPC, Stage
  <1>13. ASSUME NEW c \in Conns, Launch(c) PROVE IInv'
    <2>1. Types'
      BY <1>13 DEF Launch, Respond, IInv, Types, ConnPC, Answers
    <2>2. Stage(c)'
      BY <1>13 DEF Launch, Respond, IInv, Types, Stages, Stage, EarlyPC
    <2> QED
      BY <1>13, <2>1, <2>2, Local
         DEF Launch, Respond, Types, Bit, UsesLaunch, AdmittedPC, HandlingPC
  <1>14. ASSUME NEW c \in Conns, LaunchFails(c) PROVE IInv'
    <2>1. Types'
      BY <1>14, BridgeAssumption
         DEF LaunchFails, Fault, Respond, IInv, Types, ConnPC, Answers
    <2>2. Stage(c)'
      BY <1>14 DEF LaunchFails, Respond, IInv, Types, Stages, Stage, EarlyPC
    <2> QED
      BY <1>14, <2>1, <2>2, Local
         DEF LaunchFails, Respond, IInv, Types, Bit, UsesLaunch, AdmittedPC, HandlingPC,
             EarlyPC, Stages, Stage
  <1>15. ASSUME NEW c \in Conns, ReapFails(c) PROVE IInv'
    <2>1. Types'
      BY <1>15, BridgeAssumption DEF ReapFails, Fault, IInv, Types, ConnPC
    <2>2. Stage(c)'
      BY <1>15 DEF ReapFails, IInv, Types, Stages, Stage, EarlyPC
    <2> QED
      BY <1>15, <2>1, <2>2, Local
         DEF ReapFails, Types, Bit, UsesLaunch, AdmittedPC, HandlingPC
  <1>21. ASSUME NEW c \in Conns, LaunchRaises(c) PROVE IInv'
    <2>1. Types'
      BY <1>21 DEF LaunchRaises, IInv, Types, ConnPC
    <2>2. Stage(c)'
      BY <1>21 DEF LaunchRaises, IInv, Types, Stages, Stage, EarlyPC
    <2> QED
      BY <1>21, <2>1, <2>2, Local
         DEF LaunchRaises, Types, Bit, UsesLaunch, AdmittedPC, HandlingPC
  <1>16. ASSUME NEW c \in Conns, Reply(c) PROVE IInv'
    <2>1. Types'
      BY <1>16 DEF Reply, Tell, IInv, Types, Stages, Stage, ConnPC, Answers
    <2>2. Stage(c)'
      BY <1>16 DEF Reply, Tell, IInv, Types, Stages, Stage, EarlyPC
    <2> QED
      BY <1>16, <2>1, <2>2, Local
         DEF Reply, Tell, Types, Bit, UsesLaunch, AdmittedPC, HandlingPC
  <1>17. ASSUME NEW c \in Conns, Finish(c) PROVE IInv'
    <2>1. Types'
      BY <1>17 DEF Finish, Tell, IInv, Types, ConnPC
    <2>2. Stage(c)'
      BY <1>17 DEF Finish, Tell, IInv, Stages, Stage, EarlyPC
    <2> QED
      BY <1>17, <2>1, <2>2, Local
         DEF Finish, Tell, Types, Bit, UsesLaunch, AdmittedPC, HandlingPC
  <1>18. ASSUME NEW c \in Conns, Leave(c) PROVE IInv'
    <2>1. Types'
      BY <1>18 DEF Leave, IInv, Types, ConnPC
    <2>2. Stage(c)'
      BY <1>18 DEF Leave, IInv, Stages, Stage, EarlyPC
    <2> QED
      BY <1>18, <2>1, <2>2, Local
         DEF Leave, Types, Bit, UsesLaunch, AdmittedPC, HandlingPC
  <1>19. ASSUME NEW c \in Conns, Reap(c) PROVE IInv'
    <2>1. Types'
      BY <1>19 DEF Reap, IInv, Types
    <2>2. Stage(c)'
      BY <1>19 DEF Reap, IInv, Stages, Stage
    <2> QED
      BY <1>19, <2>1, <2>2, Local DEF Reap, Types, Bit, UsesLaunch, EarlyPC, Stage
  <1>20. ASSUME Stop \/ Exit \/ UNCHANGED vars PROVE IInv'
    <2>1. Types'
      BY <1>20 DEF Stop, Exit, vars, IInv, Types
    <2>2. Permits'
      BY <1>20 DEF Stop, Exit, vars, IInv, Permits, In, Launching
    <2>3. Stages'
      BY <1>20 DEF Stop, Exit, vars, IInv, Stages, Stage
    <2> QED
      BY <2>1, <2>2, <2>3 DEF IInv
  <1> QED
    BY <1>1, <1>2, <1>3, <1>4, <1>5, <1>6, <1>7, <1>8, <1>9, <1>10, <1>11, <1>12, <1>13,
       <1>14, <1>15, <1>16, <1>17, <1>18, <1>19, <1>20, <1>21
       DEF Next, MainStep, ThreadStep

-----------------------------------------------------------------------------
(* The theorems.                                                           *)

\* A semaphore whose permits are accounted for does not exceed its capacity.
LEMMA Implied == IInv => TypeOK /\ PermitsAccounted /\ ToldTheTruth
  <1> SUFFICES ASSUME IInv PROVE TypeOK /\ PermitsAccounted /\ ToldTheTruth
    OBVIOUS
  <1>1. PermitsAccounted
    BY SameSets DEF IInv, Permits, PermitsAccounted
  <1>2. /\ Cardinality(In(AdmittedPC)) \in Nat /\ Cardinality(In(HandlingPC)) \in Nat
        /\ Cardinality(Launching) \in Nat
    <2>1. /\ In(AdmittedPC) \in SUBSET Conns /\ In(HandlingPC) \in SUBSET Conns
          /\ Launching \in SUBSET Conns
      BY DEF In, Launching
    <2> QED
      BY <2>1, FS_Subset, FS_CardinalityType, BridgeAssumption
  <1>3. TypeOK
    BY <1>2 DEF IInv, Types, Permits, TypeOK
  <1>4. ToldTheTruth
    BY DEF IInv, Stages, Stage, ToldTheTruth
  <1> QED
    BY <1>1, <1>3, <1>4

\* The invariant holds of every state the bridge can reach.
THEOREM Invariant == Spec => []IInv
  BY Initial, Inductive, PTL DEF Spec

\* The semaphores of BridgeServer and Launcher stay between 0 and their
\* capacities: no release is ever one too many.
THEOREM TypeCorrect == Spec => []TypeOK
  BY Invariant, Implied, PTL

\* Every path through process_request, the handler and launch() gives back
\* exactly the permits it took, but for the three that lose one and are counted
\* (SpawnFails, ReapFails, LaunchRaises), for any number of connections.
THEOREM PermitsAlwaysAccounted == Spec => []PermitsAccounted
  BY Invariant, Implied, PTL

\* A client that was told "ok" had its folder opened, one that got an error
\* did not and will not.
THEOREM ClientsAreToldTheTruth == Spec => []ToldTheTruth
  BY Invariant, Implied, PTL

-----------------------------------------------------------------------------
(* The server implements LaunchSpec.                                       *)

\* The refinement mapping.
told == [c \in Conns |-> Told(c)]
launched == {c \in Conns : Started(c)}
running == {c \in Conns : child[c] \in {"running", "lost"}}
promised == <<told, launched, running>>

\* A client that has not sent anything has nothing to learn.
Unsent == \A c \in Conns : conn[c] = "idle" => client[c] = "idle"
RInv == IInv /\ Unsent

\* Nobody learns anything of a request before it is made.
LEMMA NothingIsKnownUnsent == Unsent /\ IInv /\ [Next]_vars => Unsent'
  <1> SUFFICES ASSUME Unsent, Types, [Next]_vars PROVE Unsent'
    BY DEF IInv
  <1> USE DEF Unsent, Types, Move, Up
  <1>1. ASSUME NEW c \in Conns, Connect(c) \/ GiveUp(c) \/ Reap(c) PROVE Unsent'
    BY <1>1 DEF Connect, GiveUp, Reap
  <1>2. ASSUME NEW c \in Conns, MainStep(c) PROVE Unsent'
    BY <1>2 DEF MainStep, Accept, TurnAway, TurnedAway, SpawnFails, Tell
  <1>3. ASSUME NEW c \in Conns, ThreadStep(c) PROVE Unsent'
    <2>1. CASE Acquire(c) \/ AcquireTimeout(c) \/ Refuse(c)
      BY <2>1 DEF Acquire, AcquireTimeout, Refuse, Tell
    <2>2. CASE HandleRequest(c) \/ ReadTimeout(c) \/ TakeSlot(c)
      BY <2>2 DEF HandleRequest, ReadTimeout, TakeSlot
    <2>3. CASE Launch(c) \/ LaunchFails(c) \/ LaunchRaises(c) \/ ReapFails(c)
      BY <2>3 DEF Launch, LaunchFails, LaunchRaises, ReapFails
    <2>4. CASE Reply(c) \/ Finish(c) \/ Leave(c)
      BY <2>4 DEF Reply, Finish, Leave, Tell
    <2> QED
      BY <1>3, <2>1, <2>2, <2>3, <2>4 DEF ThreadStep
  <1>4. ASSUME Stop \/ Exit \/ UNCHANGED vars PROVE Unsent'
    BY <1>4 DEF Stop, Exit, vars
  <1> QED
    BY <1>1, <1>2, <1>3, <1>4 DEF Next

-----------------------------------------------------------------------------
(* Steps of the promise.                                                   *)

\* What happens to one connection's client, and to nothing else, is a step of the
\* promise if it is one for that client.
LEMMA Learning ==
    ASSUME Types, NEW c \in Conns, kind' = kind, child' = child,
           \A d \in Conns \ {c} : client'[d] = client[d],
           \/ Told(c)' = Told(c)
           \/ Told(c) = "pending" /\ Told(c)' = "unknown"
           \/ Told(c) = "pending" /\ Told(c)' = "ok" /\ Started(c)
           \/ Told(c) = "pending" /\ Told(c)' \in {"refused", "failed"} /\ ~Started(c)
    PROVE  [Promise!Next]_promised
  <1>1. /\ launched' = launched /\ running' = running
        /\ told' = [told EXCEPT ![c] = Told(c)']
    <2>1. \A d \in Conns \ {c} : Told(d)' = Told(d)
      BY DEF Told
    <2> QED
      BY <2>1 DEF Started, launched, running, told
  <1>2. CASE Told(c)' = Told(c)
    <2>1. told' = told
      BY <1>1, <1>2 DEF told
    <2> QED
      BY <1>1, <2>1 DEF promised
  <1>3. CASE Told(c) = "pending" /\ Told(c)' = "unknown"
    <2>1. told' = [d \in Conns |-> IF d \in {c} THEN "unknown" ELSE told[d]]
      BY <1>1, <1>3 DEF told
    <2>2. Promise!Silence({c})
      BY <1>1, <1>3, <2>1 DEF Promise!Silence, told, launched, running
    <2>3. {c} \in SUBSET Conns
      OBVIOUS
    <2> QED
      BY <2>2, <2>3 DEF Promise!Next
  <1>4. CASE Told(c) = "pending" /\ Told(c)' = "ok" /\ Started(c)
    <2>1. Promise!Tell(c)
      BY <1>1, <1>4 DEF Promise!Tell, Promise!TellOk, told, launched, running
    <2> QED
      BY <2>1 DEF Promise!Next
  <1>5. CASE Told(c) = "pending" /\ Told(c)' \in {"refused", "failed"} /\ ~Started(c)
    <2>1. Promise!Tell(c)
      BY <1>1, <1>5 DEF Promise!Tell, Promise!TellNo, told, launched, running
    <2> QED
      BY <2>1 DEF Promise!Next
  <1> QED
    BY <1>2, <1>3, <1>4, <1>5

\* Neither a client nor a launch is concerned.
LEMMA Internal ==
    ASSUME kind' = kind, child' = child, client' = client
    PROVE  [Promise!Next]_promised
  <1>1. promised' = promised
    BY DEF Started, promised, told, launched, running, Told
  <1> QED
    BY <1>1

\* The slot that a launch has taken is one of MaxChildren, and its request has
\* not been answered.
LEMMA LaunchTakesASlot ==
    ASSUME RInv, NEW c \in Conns, conn[c] = "popen", kind' = kind, client' = client,
           NEW now \in {"running", "lost"}, child' = [child EXCEPT ![c] = now]
    PROVE  Promise!Next
  <1>1. child[c] = "none" /\ Told(c) \notin {"refused", "failed"}
    BY DEF RInv, IInv, Types, Stages, Stage, EarlyPC, Told
  <1>2. Cardinality(running) < MaxChildren
    <2>1. /\ Launching \in SUBSET Conns /\ running \in SUBSET Launching
          /\ c \in Launching /\ c \notin running
      BY <1>1 DEF Launching, running
    <2>2. IsFiniteSet(Launching) /\ IsFiniteSet(running)
      BY <2>1, FS_Subset, BridgeAssumption
    <2>3. /\ Cardinality(running) < Cardinality(Launching)
          /\ Cardinality(running) \in Nat /\ Cardinality(Launching) \in Nat
      BY <2>1, <2>2, FS_Subset, FS_CardinalityType
    <2> QED
      BY <2>3, BridgeAssumption DEF RInv, IInv, Types, Permits
  <1>3. /\ launched' = launched \cup {c} /\ running' = running \cup {c}
        /\ told' = told
    BY DEF Started, RInv, IInv, Types, launched, running, told, Told
  <1>4. c \notin launched /\ told[c] \notin {"refused", "failed"}
    BY <1>1 DEF Started, launched, told
  <1>5. Promise!Cardinality(running) = Cardinality(running)
    BY DEF Promise!Cardinality, Cardinality
  <1>6. Promise!Launch(c)
    BY <1>2, <1>3, <1>4, <1>5 DEF Promise!Launch, told, launched, running
  <1> QED
    BY <1>6 DEF Promise!Next

\* A new server has promised nothing yet.
LEMMA PromiseInitial == Init => Promise!Init /\ Unsent
  BY DEF Started, Init, Promise!Init, Told, Unsent

\* Every step is a step of the promise, or leaves it as it is.
LEMMA PromiseStep == RInv /\ [Next]_vars => [Promise!Next]_promised
  <1> SUFFICES ASSUME RInv, [Next]_vars PROVE [Promise!Next]_promised
    OBVIOUS
  <1>t. Types
    BY DEF RInv, IInv
  <1> USE DEF Move, Up
  <1>1. ASSUME NEW c \in Conns, Connect(c) PROVE [Promise!Next]_promised
    <2>1. Told(c) = "pending" /\ Told(c)' = "pending"
      BY <1>1, <1>t DEF Connect, Told, RInv, Unsent, Types
    <2>2. \A d \in Conns \ {c} : Told(d)' = Told(d)
      BY <1>1, <1>t DEF Connect, Told, Types
    <2>3. promised' = promised
      BY <1>1, <2>1, <2>2 DEF Started, Connect, promised, told, launched, running
    <2> QED
      BY <2>3
  <1>2. ASSUME NEW c \in Conns, GiveUp(c) PROVE [Promise!Next]_promised
    BY <1>2, <1>t, Learning DEF GiveUp, Told, Types
  <1>3. ASSUME NEW c \in Conns, Accept(c) \/ TurnAway(c) PROVE [Promise!Next]_promised
    BY <1>3, Internal DEF Accept, TurnAway
  <1>4. ASSUME NEW c \in Conns, TurnedAway(c) \/ Refuse(c) PROVE [Promise!Next]_promised
    <2>1. child[c] = "none"
      BY <1>4 DEF TurnedAway, Refuse, RInv, IInv, Stages, Stage, EarlyPC
    <2> QED
      BY <1>4, <1>t, <2>1, Learning DEF Started, TurnedAway, Refuse, Tell, Told, Types
  <1>5. ASSUME NEW c \in Conns, SpawnFails(c) \/ Finish(c) PROVE [Promise!Next]_promised
    BY <1>5, <1>t, Learning DEF SpawnFails, Finish, Tell, Told, Types
  <1>6. ASSUME NEW c \in Conns, \/ Acquire(c) \/ AcquireTimeout(c) \/ HandleRequest(c)
                                \/ ReadTimeout(c) \/ TakeSlot(c)
        PROVE [Promise!Next]_promised
    BY <1>6, Internal DEF Acquire, AcquireTimeout, HandleRequest, ReadTimeout, TakeSlot
  <1>7. ASSUME NEW c \in Conns, Launch(c) \/ ReapFails(c) PROVE [Promise!Next]_promised
    BY <1>7, LaunchTakesASlot DEF Launch, ReapFails
  <1>8. ASSUME NEW c \in Conns, LaunchFails(c) \/ Leave(c) PROVE [Promise!Next]_promised
    BY <1>8, Internal DEF LaunchFails, Leave
  <1>13. ASSUME NEW c \in Conns, LaunchRaises(c) PROVE [Promise!Next]_promised
    <2>1. child[c] = "none"
      BY <1>13 DEF LaunchRaises, RInv, IInv, Stages, Stage, EarlyPC
    <2>2. launched' = launched /\ running' = running /\ told' = told
      BY <1>13, <1>t, <2>1 DEF LaunchRaises, Types, launched, running, told, Told, Started
    <2> QED
      BY <2>2 DEF promised
  <1>9. ASSUME NEW c \in Conns, Reply(c) PROVE [Promise!Next]_promised
    <2>1. /\ answer[c] \in {"ok", "refused", "failed"}
          /\ kind[c] = "open" => (answer[c] = "ok" <=> Started(c))
      BY <1>9, <1>t DEF Reply, RInv, IInv, Types, Stages, Stage, Answers
    <2> QED
      BY <1>9, <1>t, <2>1, Learning DEF Reply, Tell, Told, Types
  <1>10. ASSUME NEW c \in Conns, Reap(c) PROVE [Promise!Next]_promised
    <2>1. /\ launched' = launched /\ running' = running \ {c} /\ c \in running
          /\ told' = told
      BY <1>10, <1>t DEF Started, Reap, Types, launched, running, told, Told
    <2>2. Promise!End(c)
      BY <2>1 DEF Promise!End, launched, running, told
    <2> QED
      BY <2>2 DEF Promise!Next
  <1>11. ASSUME Exit PROVE [Promise!Next]_promised
    <2> DEFINE C == {c \in Conns : kind[c] = "open" /\ client[c] = "waiting"}
    <2>1. \A c \in C : told[c] = "pending"
      BY DEF told, Told
    <2>2. told' = [c \in Conns |-> IF c \in C THEN "unknown" ELSE told[c]]
      BY <1>11, <1>t DEF Exit, told, Told, Types
    <2>3. launched' = launched /\ running' = running
      BY <1>11 DEF Started, Exit, launched, running
    <2>4. Promise!Silence(C)
      BY <2>1, <2>2, <2>3 DEF Promise!Silence, told, launched, running
    <2>5. C \in SUBSET Conns
      OBVIOUS
    <2> QED
      BY <2>4, <2>5 DEF Promise!Next
  <1>12. ASSUME Stop \/ UNCHANGED vars PROVE [Promise!Next]_promised
    BY <1>12, Internal DEF Stop, vars
  <1> QED
    BY <1>1, <1>2, <1>3, <1>4, <1>5, <1>6, <1>7, <1>8, <1>9, <1>10, <1>11, <1>12, <1>13
       DEF Next, MainStep, ThreadStep

\* A `code` command gets at most one launch for its request, at most MaxChildren
\* run at a time, and what it prints agrees with what was done and will be done:
\* whatever threads, timeouts, failures and a stop do, the server is an
\* implementation of LaunchSpec.
THEOREM ServerKeepsPromise == Spec => KeepsPromise
  <1>1. Init => RInv
    BY Initial, PromiseInitial DEF RInv
  <1>2. RInv /\ [Next]_vars => RInv'
    BY Inductive, NothingIsKnownUnsent DEF RInv
  <1>3. RInv /\ [Next]_vars => [Promise!Next]_<<[c \in Conns |-> Told(c)],
                {c \in Conns : Started(c)}, {c \in Conns : child[c] \in {"running", "lost"}}>>
    BY PromiseStep DEF promised, told, launched, running
  <1> QED
    BY <1>1, <1>2, <1>3, PromiseInitial, PTL DEF Spec, KeepsPromise, Promise!Spec
=============================================================================
