--------------------------- MODULE LifecycleProofs ---------------------------
(***************************************************************************)
(* For any number of remotes and any failures: whatever command is cut     *)
(* short at whatever step, the remote of the settings keeps their token,   *)
(* and an update keeps the choice of the service.                          *)
(*                                                                         *)
(* Neither is inductive: what a command has read and has still to write is *)
(* what they depend on, so the invariant says what a command knows at each *)
(* of its steps.                                                           *)
(***************************************************************************)
EXTENDS Lifecycle, FiniteSetTheorems, TLAPS

\* Every step that names its remote has one.
Aimed ==
    \/ pc \in {"upgrade", "reinstall", "remote", "stop", "env", "record", "unregister", "save"}
    \/ pc = "unlink" /\ op \in {"install", "update"}
    => tgt \in Remotes

\* Until it is written, the token is the one of the settings if there are any, and
\* from InstallRemote on the remote has it.
Keeping ==
    /\ pc \in {"remote", "stop", "env"} =>
          tok \in Tokens /\ (env # None => env.token = tok)
    /\ pc \in {"stop", "env"} => remote[tgt].token = tok

\* From WriteEnv on an installation has settings to start a bridge from; the
\* service is also started by an uninstall that puts it back.
Written ==
    /\ pc \in {"record", "unregister", "save", "verify"} => env \in Settings
    /\ pc \in {"unit", "enable", "start"} /\ op # "uninstall" => env \in Settings
    /\ pc = "unlink" /\ op \in {"install", "update"} => env \in Settings
    /\ pc = "unremote" => op = "uninstall"

\* From its new program on an update has the choice that the manifest records, and
\* neither it nor an installation ever takes a step of an uninstall.
Chosen ==
    /\ pc = "record" => svc
    /\ pc \in {"unregister", "save"} => ~svc
    /\ pc = "unlink" /\ op \in {"install", "update"} => ~svc
    /\ op = "update" /\ pc \notin {"idle", "upgrade", "reinstall"} /\ disk # None =>
          disk.service = svc
    /\ pc \in {"unstop", "unremote", "unservice", "undo"} => op \notin {"install", "update"}

\* TypeOK in three parts: what is on the machines, what the command holds, and
\* what is counted.
Machines ==
    /\ env \in Settings \cup {None} /\ disk \in Records \cup {None}
    /\ unit \in {"absent", "written", "enabled"} /\ asked \in {"no", "yes", "ignored"}
    /\ bridge \in {None} \cup [by : {"service", "user", "install"}, token : Tokens,
                               alias : Remotes, ver : Versions]
    /\ remote \in [Remotes -> {None} \cup [token : Tokens, ver : Versions]]

Command ==
    /\ op \in {"none", "install", "update", "uninstall", "host-only"} /\ pc \in Steps
    /\ told \in {"none", "installed", "updated", "current", "uninstalled",
                 "nothing", "refused", "failed", "problems", "interrupted"}
    /\ tgt \in Remotes \cup {None} /\ svc \in BOOLEAN /\ tok \in Tokens \cup {None}
    /\ mem \in Records \cup {Blank}

Counts ==
    /\ version \in Versions /\ latest \in Versions /\ version <= latest
    /\ faults \in 0..MaxFaults

Knows == Aimed /\ Keeping /\ Written /\ Chosen /\ Paired

IInv == Machines /\ Command /\ Counts /\ Knows

-----------------------------------------------------------------------------
(* Counting: there are more tokens than are in use.                        *)

LEMMA OneMore ==
    ASSUME NEW S, IsFiniteSet(S), NEW x
    PROVE  /\ IsFiniteSet(S \cup {x}) /\ Cardinality(S) \in Nat
           /\ Cardinality(S \cup {x}) <= Cardinality(S) + 1
           /\ Cardinality(S) <= Cardinality(S) + 1
  <1>1. Cardinality(S) \in Nat
    BY FS_CardinalityType
  <1>2. Cardinality(S \cup {x}) \in {Cardinality(S), Cardinality(S) + 1}
    BY FS_AddElement
  <1> QED
    BY <1>1, <1>2, FS_AddElement

LEMMA FreshIsAToken ==
    ASSUME Machines
    PROVE  Fresh \in Tokens
  <1> DEFINE Busy == {r \in Remotes : remote[r] # None}
  <1> DEFINE OnRemotes == {remote[r].token : r \in Busy}
  <1> DEFINE f == [r \in Busy |-> remote[r].token]
  <1> DEFINE OnBridge == IF bridge = None THEN OnRemotes ELSE OnRemotes \cup {bridge.token}
  <1>1. IsFiniteSet(Busy) /\ Cardinality(Busy) <= Cardinality(Remotes)
    BY FS_Subset, LifecycleAssumption
  <1>2. IsFiniteSet(OnRemotes) /\ Cardinality(OnRemotes) <= Cardinality(Busy)
    <2>1. f \in Surjection(Busy, OnRemotes)
      BY DEF Surjection
    <2> QED
      BY ONLY <1>1, <2>1, FS_Surjection
  <1>3. /\ IsFiniteSet(OnBridge) /\ Cardinality(OnRemotes) \in Nat
        /\ Cardinality(OnBridge) <= Cardinality(OnRemotes) + 1
    BY <1>2, OneMore
  <1>4. InUse = IF env = None THEN OnBridge ELSE OnBridge \cup {env.token}
    BY DEF InUse
  <1>5. /\ IsFiniteSet(InUse) /\ Cardinality(OnBridge) \in Nat
        /\ Cardinality(InUse) <= Cardinality(OnBridge) + 1
    <2> HIDE DEF OnBridge
    <2> QED
      BY <1>3, <1>4, OneMore
  <1>6. /\ Cardinality(Remotes) \in Nat /\ Cardinality(Busy) \in Nat
        /\ Cardinality(InUse) \in Nat /\ Cardinality(Tokens) \in Nat
    BY <1>1, <1>5, FS_CardinalityType, LifecycleAssumption
  <1>7. Cardinality(InUse) < Cardinality(Tokens)
    <2> HIDE DEF OnRemotes, OnBridge, Busy
    <2> QED
      BY <1>1, <1>2, <1>3, <1>5, <1>6, LifecycleAssumption
  <1>8. \E t \in Tokens : t \notin InUse
    <2> SUFFICES ASSUME Tokens \subseteq InUse PROVE FALSE
      OBVIOUS
    <2>1. Cardinality(Tokens) <= Cardinality(InUse)
      BY <1>5, FS_Subset
    <2> QED
      BY <2>1, <1>6, <1>7
  <1> QED
    BY <1>8 DEF Fresh

-----------------------------------------------------------------------------

LEMMA TypesAre == TypeOK <=> Machines /\ Command /\ Counts
  BY DEF TypeOK, Machines, Command, Counts

LEMMA InitEstablishes == Init => IInv
  <1> SUFFICES ASSUME Init PROVE IInv
    OBVIOUS
  <1> USE DEF Init
  <1>1. Machines
    BY DEF Machines
  <1>2. Command
    BY DEF Command, Steps, Blank
  <1>3. Counts
    BY LifecycleAssumption DEF Counts, Versions
  <1>4. Knows
    BY DEF Knows, Aimed, Keeping, Written, Chosen, Paired
  <1> QED
    BY <1>1, <1>2, <1>3, <1>4 DEF IInv

-----------------------------------------------------------------------------
(* Every step of every command, and of the world, preserves the invariant. *)

USE DEF Blank, hostVars, svcVars, pkgVars, choiceVars, cmdVars, vars,
        Step, End, Fails, Fault, IInv, Knows

\* What Prepare reads of the settings and of the manifest.
LEMMA Prepared ==
    ASSUME IInv, NEW requested \in {"yes", "no", "keep"}, Prepare(requested)
    PROVE  /\ svc' \in BOOLEAN /\ tok' \in Tokens /\ mem' \in Records \cup {Blank}
           /\ env # None => tok' = env.token
           /\ requested = "keep" /\ disk # None => svc' = disk.service
           /\ pc' = "remote" /\ told' = "none"
  <1>1. tok' \in Tokens /\ (env # None => tok' = env.token)
    BY FreshIsAToken DEF Machines, Settings, Prepare, KeptToken
  <1>2. svc' \in BOOLEAN
    BY DEF Prepare, ChooseService, Machines, Records
  <1>3. requested = "keep" /\ disk # None => svc' = disk.service
    BY DEF Prepare, ChooseService, Machines, Records
  <1> QED
    BY <1>1, <1>2, <1>3 DEF Prepare, Machines, Blank

LEMMA ARecord ==
    ASSUME NEW b \in BOOLEAN, NEW r \in Remotes
    PROVE  [service |-> b, alias |-> r] \in Records
  BY DEF Records

LEMMA Serves ==
    ASSUME Machines, Counts, env \in Settings, NEW who \in {"service", "user", "install"}
    PROVE  Serving(who) \in [by : {"service", "user", "install"}, token : Tokens,
                             alias : Remotes, ver : Versions]
  BY DEF Counts, Serving, Settings


LEMMA HostStopKeeps == ASSUME IInv, HostStop PROVE IInv'
  <1> USE DEF HostStop, StopService, StillIgnored, RunBy
  <1>1. Machines'
    BY DEF Machines
  <1>2. Command'
    BY DEF Command, Steps
  <1>3. Counts'
    BY LifecycleAssumption DEF Counts
  <1>4. Knows'
    BY DEF Aimed, Keeping, Written, Chosen, Paired
  <1> QED
    BY <1>1, <1>2, <1>3, <1>4

LEMMA WriteUnitKeeps == ASSUME IInv, WriteUnit PROVE IInv'
  <1> USE DEF WriteUnit
  <1>1. Machines'
    BY DEF Machines
  <1>2. Command'
    BY DEF Command, Steps
  <1>3. Counts'
    BY LifecycleAssumption DEF Counts
  <1>4. Knows'
    BY DEF Aimed, Keeping, Written, Chosen, Paired
  <1> QED
    BY <1>1, <1>2, <1>3, <1>4

LEMMA EnableKeeps == ASSUME IInv, Enable PROVE IInv'
  <1> USE DEF Enable
  <1>1. Machines'
    BY DEF Machines
  <1>2. Command'
    BY DEF Command, Steps
  <1>3. Counts'
    BY LifecycleAssumption DEF Counts
  <1>4. Knows'
    BY DEF Aimed, Keeping, Written, Chosen, Paired
  <1> QED
    BY <1>1, <1>2, <1>3, <1>4

LEMMA RestartKeeps == ASSUME IInv, Restart PROVE IInv'
  <1> USE DEF Restart, Started, RunBy
  <1>1. Machines'
    BY DEF Machines
  <1>2. Command'
    BY DEF Command, Steps
  <1>3. Counts'
    BY LifecycleAssumption DEF Counts
  <1>4. Knows'
    BY DEF Aimed, Keeping, Written, Chosen, Paired
  <1> QED
    BY <1>1, <1>2, <1>3, <1>4

LEMMA UnregisterKeeps == ASSUME IInv, Unregister PROVE IInv'
  <1> USE DEF Unregister, RemoveService, StopService, StillIgnored, RunBy
  <1>1. Machines'
    BY DEF Machines
  <1>2. Command'
    BY DEF Command, Steps
  <1>3. Counts'
    BY LifecycleAssumption DEF Counts
  <1>4. Knows'
    BY DEF Aimed, Keeping, Written, Chosen, Paired
  <1> QED
    BY <1>1, <1>2, <1>3, <1>4

LEMMA UnlinkKeeps == ASSUME IInv, Unlink PROVE IInv'
  <1> USE DEF Unlink
  <1>1. Machines'
    BY DEF Machines
  <1>2. Command'
    BY DEF Command, Steps
  <1>3. Counts'
    BY LifecycleAssumption DEF Counts
  <1>4. Knows'
    BY DEF Aimed, Keeping, Written, Chosen, Paired
  <1> QED
    BY <1>1, <1>2, <1>3, <1>4

LEMMA WaitForTunnelKeeps == ASSUME IInv, WaitForTunnel PROVE IInv'
  <1> USE DEF WaitForTunnel, DropTemporary, RunBy
  <1>1. Machines'
    BY DEF Machines
  <1>2. Command'
    BY DEF Command, Steps
  <1>3. Counts'
    BY LifecycleAssumption DEF Counts
  <1>4. Knows'
    BY DEF Aimed, Keeping, Written, Chosen, Paired
  <1> QED
    BY <1>1, <1>2, <1>3, <1>4

LEMMA CheckRemoteKeeps == ASSUME IInv, CheckRemote PROVE IInv'
  <1> USE DEF CheckRemote, DropTemporary, RunBy
  <1>1. Machines'
    BY DEF Machines
  <1>2. Command'
    BY DEF Command, Steps
  <1>3. Counts'
    BY LifecycleAssumption DEF Counts
  <1>4. Knows'
    BY DEF Aimed, Keeping, Written, Chosen, Paired
  <1> QED
    BY <1>1, <1>2, <1>3, <1>4

LEMMA UpgradeKeeps == ASSUME IInv, Upgrade PROVE IInv'
  <1> USE DEF Upgrade, Versions
  <1>1. Machines'
    BY DEF Machines
  <1>2. Command'
    BY DEF Command, Steps
  <1>3. Counts'
    BY LifecycleAssumption DEF Counts
  <1>4. Knows'
    BY DEF Aimed, Keeping, Written, Chosen, Paired
  <1> QED
    BY <1>1, <1>2, <1>3, <1>4

LEMMA TakeDownKeeps == ASSUME IInv, TakeDown PROVE IInv'
  <1> USE DEF TakeDown, StopService, StillIgnored, RunBy
  <1>1. Machines'
    BY DEF Machines
  <1>2. Command'
    BY DEF Command, Steps
  <1>3. Counts'
    BY LifecycleAssumption DEF Counts
  <1>4. Knows'
    BY DEF Aimed, Keeping, Written, Chosen, Paired
  <1> QED
    BY <1>1, <1>2, <1>3, <1>4

LEMMA RemoveServicesKeeps == ASSUME IInv, RemoveServices PROVE IInv'
  <1> USE DEF RemoveServices, RemoveService, StopService, StillIgnored, RunBy
  <1>1. Machines'
    BY DEF Machines
  <1>2. Command'
    BY DEF Command, Steps
  <1>3. Counts'
    BY LifecycleAssumption DEF Counts
  <1>4. Knows'
    BY DEF Aimed, Keeping, Written, Chosen, Paired
  <1> QED
    BY <1>1, <1>2, <1>3, <1>4

LEMMA UndoKeeps == ASSUME IInv, Undo PROVE IInv'
  <1> USE DEF Undo
  <1>1. Machines'
    BY DEF Machines
  <1>2. Command'
    BY DEF Command, Steps
  <1>3. Counts'
    BY LifecycleAssumption DEF Counts
  <1>4. Knows'
    BY DEF Aimed, Keeping, Written, Chosen, Paired
  <1> QED
    BY <1>1, <1>2, <1>3, <1>4

LEMMA InstallRemoteKeeps == ASSUME IInv, InstallRemote PROVE IInv'
  <1> DEFINE installed == [remote EXCEPT ![tgt] = [token |-> tok, ver |-> version]]
  <1>1. pc = "remote" /\ tgt \in Remotes /\ tok \in Tokens /\ remote' \in {remote, installed}
    BY DEF InstallRemote, Aimed, Keeping
  <1>2. installed \in [Remotes -> {None} \cup [token : Tokens, ver : Versions]]
    BY <1>1 DEF Machines, Counts
  <1>3. Machines'
    BY <1>1, <1>2 DEF Machines, InstallRemote
  <1>4. Command'
    BY DEF Command, Steps, InstallRemote
  <1>5. Counts'
    BY LifecycleAssumption DEF Counts, InstallRemote
  <1>6. Paired'
    <2> SUFFICES ASSUME env # None, remote'[env.alias] # None
                 PROVE  remote'[env.alias].token = env.token
      BY DEF Paired, InstallRemote
    <2>1. env.alias \in Remotes /\ env.token = tok
      BY <1>1 DEF Machines, Settings, Keeping
    <2>2. CASE remote' = installed /\ env.alias = tgt
      BY <1>1, <2>1, <2>2 DEF Machines
    <2>3. CASE remote'[env.alias] = remote[env.alias]
      BY <2>3 DEF Paired
    <2> QED
      BY <1>1, <2>1, <2>2, <2>3 DEF Machines
  <1>7. Keeping'
    BY <1>1 DEF Keeping, InstallRemote, Machines
  <1>8. (Aimed /\ Written /\ Chosen)'
    BY <1>1 DEF Aimed, Written, Chosen, InstallRemote
  <1> QED
    BY <1>3, <1>4, <1>5, <1>6, <1>7, <1>8

LEMMA WriteEnvKeeps == ASSUME IInv, WriteEnv PROVE IInv'
  <1> USE DEF WriteEnv
  <1>1. tgt \in Remotes /\ tok \in Tokens /\ remote[tgt].token = tok
    BY DEF Aimed, Keeping
  <1>2. Machines'
    BY <1>1 DEF Machines, Settings
  <1>3. Command'
    BY DEF Command, Steps
  <1>4. Counts'
    BY LifecycleAssumption DEF Counts
  <1>5. Written'
    BY <1>1 DEF Written, Settings
  <1>6. (Aimed /\ Keeping /\ Chosen /\ Paired)'
    BY <1>1 DEF Aimed, Keeping, Chosen, Paired
  <1> QED
    BY <1>2, <1>3, <1>4, <1>5, <1>6

LEMMA RecordKeeps == ASSUME IInv, Record PROVE IInv'
  <1> DEFINE record == [service |-> TRUE, alias |-> tgt]
  <1>1. tgt \in Remotes /\ svc = TRUE
    BY DEF Record, Aimed, Chosen, Command
  <1>2. record \in Records
    BY <1>1, ARecord
  <1>3. disk' = disk \/ disk' = record
    BY DEF Record
  <1>4. Machines'
    <2> HIDE DEF record
    <2> QED
      BY <1>2, <1>3 DEF Record, Machines
  <1>5. Command'
    BY DEF Record, Command, Steps
  <1>6. Counts'
    BY LifecycleAssumption DEF Record, Counts
  <1>7. Chosen'
    <2>1. record.service = TRUE
      OBVIOUS
    <2>2. svc' = svc \/ pc' = "idle"
      BY DEF Record
    <2>3. pc' \in {"idle", "unit", "verify"}
      BY DEF Record
    <2>4. CASE disk' = record
      <3> HIDE DEF record
      <3> QED
        BY <1>1, <2>1, <2>2, <2>3, <2>4 DEF Chosen
    <2>5. CASE disk' = disk
      BY <2>5 DEF Record, Chosen
    <2> QED
      BY <1>3, <2>4, <2>5
  <1>8. (Aimed /\ Keeping /\ Written /\ Paired)'
    BY <1>1 DEF Record, Aimed, Keeping, Written, Paired
  <1> QED
    BY <1>4, <1>5, <1>6, <1>7, <1>8

LEMMA SaveKeeps == ASSUME IInv, Save PROVE IInv'
  <1> DEFINE record == [service |-> FALSE, alias |-> tgt]
  <1>1. tgt \in Remotes /\ svc = FALSE
    BY DEF Save, Aimed, Chosen, Command
  <1>2. record \in Records
    BY <1>1, ARecord
  <1>3. disk' = disk \/ disk' = record
    BY DEF Save
  <1>4. Machines'
    <2> HIDE DEF record
    <2> QED
      BY <1>2, <1>3 DEF Save, Machines
  <1>5. Command'
    BY DEF Save, Command, Steps
  <1>6. Counts'
    BY LifecycleAssumption DEF Save, Counts
  <1>7. Chosen'
    <2>1. record.service = FALSE
      OBVIOUS
    <2>2. svc' = svc \/ pc' = "idle"
      BY DEF Save
    <2>3. pc' \in {"idle", "unit", "verify"}
      BY DEF Save
    <2>4. CASE disk' = record
      <3> HIDE DEF record
      <3> QED
        BY <1>1, <2>1, <2>2, <2>3, <2>4 DEF Chosen
    <2>5. CASE disk' = disk
      BY <2>5 DEF Save, Chosen
    <2> QED
      BY <1>3, <2>4, <2>5
  <1>8. (Aimed /\ Keeping /\ Written /\ Paired)'
    BY <1>1 DEF Save, Aimed, Keeping, Written, Paired
  <1> QED
    BY <1>4, <1>5, <1>6, <1>7, <1>8

LEMMA VerifyKeeps == ASSUME IInv, Verify PROVE IInv'
  <1>1. Serving("install") \in [by : {"service", "user", "install"}, token : Tokens,
                                alias : Remotes, ver : Versions]
    BY Serves DEF Verify, Written
  <1>2. Machines'
    BY <1>1 DEF Verify, Machines
  <1>3. Command'
    BY DEF Verify, Command, Steps
  <1>4. Counts'
    BY DEF Verify, Counts
  <1>5. Knows'
    BY DEF Verify, Aimed, Keeping, Written, Chosen, Paired
  <1> QED
    BY <1>2, <1>3, <1>4, <1>5

LEMMA UninstallRemoteKeeps == ASSUME IInv, UninstallRemote PROVE IInv'
  <1> DEFINE cleaned == [remote EXCEPT ![tgt] = None]
  <1>1. remote' \in {remote, cleaned}
    BY DEF UninstallRemote
  <1>2. Machines'
    BY <1>1 DEF UninstallRemote, Machines
  <1>3. Command'
    BY DEF UninstallRemote, Command, Steps
  <1>4. Counts'
    BY LifecycleAssumption DEF UninstallRemote, Counts
  <1>5. Paired'
    <2>1. \A r \in Remotes : remote'[r] \in {remote[r], None}
      BY <1>1 DEF Machines
    <2>2. env # None => env.alias \in Remotes
      BY DEF Machines, Settings
    <2> QED
      BY <2>1, <2>2 DEF UninstallRemote, Paired
  <1>6. (Aimed /\ Keeping /\ Written /\ Chosen)'
    BY DEF UninstallRemote, Aimed, Keeping, Written, Chosen
  <1> QED
    BY <1>2, <1>3, <1>4, <1>5, <1>6

LEMMA InstallKeeps ==
    ASSUME IInv, NEW r \in Remotes, NEW requested \in {"yes", "no", "keep"},
           Install(r, requested)
    PROVE  IInv'
  <1> USE DEF Install
  <1>1. /\ svc' \in BOOLEAN /\ tok' \in Tokens /\ mem' \in Records \cup {Blank}
        /\ env # None => tok' = env.token
        /\ pc' = "remote" /\ told' = "none"
    BY Prepared
  <1>2. Machines'
    BY DEF Machines
  <1>3. Command'
    BY <1>1 DEF Command, Steps
  <1>4. Counts'
    BY DEF Counts
  <1>5. Knows'
    BY <1>1 DEF Aimed, Keeping, Written, Chosen, Paired
  <1> QED
    BY <1>2, <1>3, <1>4, <1>5

LEMMA ReinstallKeeps == ASSUME IInv, Reinstall PROVE IInv'
  <1> USE DEF Reinstall
  <1>1. /\ svc' \in BOOLEAN /\ tok' \in Tokens /\ mem' \in Records \cup {Blank}
        /\ env # None => tok' = env.token
        /\ disk # None => svc' = disk.service
        /\ pc' = "remote" /\ told' = "none"
    BY Prepared
  <1>2. Machines'
    BY DEF Machines
  <1>3. Command'
    BY <1>1 DEF Command, Steps
  <1>4. Counts'
    BY DEF Counts
  <1>5. (Aimed /\ Keeping /\ Written /\ Paired)'
    BY <1>1 DEF Aimed, Keeping, Written, Paired
  <1>6. Chosen'
    BY <1>1 DEF Chosen
  <1> QED
    BY <1>2, <1>3, <1>4, <1>5, <1>6

LEMMA UpdateKeeps == ASSUME IInv, NEW r \in Remotes, Update(r) PROVE IInv'
  <1> USE DEF Update, StopService, StillIgnored, RunBy
  <1>1. Machines'
    BY DEF Machines
  <1>2. Command'
    BY DEF Command, Steps
  <1>3. Counts'
    BY LifecycleAssumption DEF Counts
  <1>4. Knows'
    BY DEF Aimed, Keeping, Written, Chosen, Paired
  <1> QED
    BY <1>1, <1>2, <1>3, <1>4

LEMMA UninstallKeeps ==
    ASSUME IInv, NEW kind \in {"uninstall", "host-only"}, Uninstall(kind)
    PROVE  IInv'
  <1> DEFINE manifest == IF disk # None THEN disk ELSE Fallback
  <1>1. manifest \in Records \cup {Blank} /\ manifest.alias \in Remotes \cup {None}
    BY ARecord DEF Machines, Fallback, Settings, Records
  <1>2. /\ pc = "idle" /\ op' = kind /\ tgt' = manifest.alias /\ svc' = svc /\ tok' = tok
        /\ \/ told' = "nothing" /\ pc' = pc /\ mem' = mem
           \/ told' = "none" /\ pc' = "unstop" /\ mem' = manifest
    BY DEF Uninstall
  <1>3. Machines'
    BY DEF Uninstall, Machines
  <1>4. Command'
    <2> HIDE DEF manifest
    <2> QED
      BY <1>1, <1>2 DEF Command, Steps
  <1>5. Counts'
    BY DEF Uninstall, Counts
  <1>6. Knows'
    <2> HIDE DEF manifest
    <2> QED
      BY <1>2 DEF Uninstall, Aimed, Keeping, Written, Chosen, Paired
  <1> QED
    BY <1>3, <1>4, <1>5, <1>6

\* The world changes what runs and what is published.
LEMMA BridgesKeep ==
    ASSUME IInv, ServiceStart \/ ServeStart \/ ServeStop
    PROVE  IInv'
  <1> USE DEF ServiceStart, ServeStart, ServeStop, Restarts
  <1>1. env # None => \A who \in {"service", "user"} :
            Serving(who) \in [by : {"service", "user", "install"}, token : Tokens,
                             alias : Remotes, ver : Versions]
    BY Serves DEF Machines
  <1>2. Machines'
    BY <1>1 DEF Machines
  <1>3. Command'
    BY DEF Command, Steps
  <1>4. Counts'
    BY DEF Counts
  <1>5. Knows'
    BY DEF Aimed, Keeping, Written, Chosen, Paired
  <1> QED
    BY <1>2, <1>3, <1>4, <1>5

LEMMA WorldKeeps ==
    ASSUME IInv, Publish \/ Interrupt \/ Reboot
    PROVE  IInv'
  <1> USE DEF Publish, Interrupt, Reboot, DropTemporary, RunBy
  <1>1. Machines'
    BY DEF Machines
  <1>2. Command'
    BY DEF Command, Steps
  <1>3. Counts'
    BY LifecycleAssumption DEF Counts, Versions
  <1>4. Knows'
    BY DEF Aimed, Keeping, Written, Chosen, Paired
  <1> QED
    BY <1>1, <1>2, <1>3, <1>4

LEMMA StutterKeeps == ASSUME IInv, UNCHANGED vars PROVE IInv'
  <1>1. Machines'
    BY DEF Machines
  <1>2. (Command /\ Counts)'
    BY DEF Command, Counts
  <1>3. Knows'
    BY DEF Aimed, Keeping, Written, Chosen, Paired
  <1> QED
    BY <1>1, <1>2, <1>3

LEMMA StepKeeps == IInv /\ [Next]_vars => IInv'
  <1> SUFFICES ASSUME IInv, [Next]_vars PROVE IInv'
    OBVIOUS
  <1> USE DEF Next
  <1>1. CASE \E r \in Remotes : \E requested \in {"yes", "no", "keep"} : Install(r, requested)
    BY <1>1, InstallKeeps
  <1>2. CASE \E r \in Remotes : Update(r)
    BY <1>2, UpdateKeeps
  <1>3. CASE \E kind \in {"uninstall", "host-only"} : Uninstall(kind)
    BY <1>3, UninstallKeeps
  <1>4. CASE CommandStep
    BY <1>4, InstallRemoteKeeps, HostStopKeeps, WriteEnvKeeps, RecordKeeps, WriteUnitKeeps,
       EnableKeeps, RestartKeeps, UnregisterKeeps, UnlinkKeeps, SaveKeeps, VerifyKeeps,
       WaitForTunnelKeeps, CheckRemoteKeeps, UpgradeKeeps, ReinstallKeeps, TakeDownKeeps,
       UninstallRemoteKeeps, RemoveServicesKeeps, UndoKeeps DEF CommandStep
  <1>5. CASE ServiceStart \/ ServeStart \/ ServeStop
    BY <1>5, BridgesKeep
  <1>6. CASE Publish \/ Interrupt \/ Reboot
    BY <1>6, WorldKeeps
  <1>7. CASE UNCHANGED vars
    BY <1>7, StutterKeeps
  <1> HIDE DEF IInv, vars
  <1> QED
    BY <1>1, <1>2, <1>3, <1>4, <1>5, <1>6, <1>7

\* The choice on the disk is written by installations only, and the one that an
\* update runs writes the choice that it read.
LEMMA StepKeepsChoice ==
    ASSUME IInv, [Next]_vars, op = "update", pc # "idle", disk # None
    PROVE  disk' # None /\ disk'.service = disk.service
  <1>1. CASE disk' = disk
    BY <1>1
  <1>2. CASE disk' # disk
    <2>1. Record \/ Save \/ Undo
      BY <1>2 DEF Next, CommandStep, Install, Update, Uninstall, InstallRemote, HostStop,
         WriteEnv, WriteUnit, Enable, Restart, Unregister, Unlink, Verify, WaitForTunnel,
         CheckRemote, Upgrade, Reinstall, TakeDown, UninstallRemote, RemoveServices,
         ServiceStart, ServeStart, ServeStop, Publish, Interrupt, Reboot
    <2>2. ~Undo
      BY DEF Undo, Chosen
    <2>3. CASE Record
      <3> DEFINE record == [service |-> TRUE, alias |-> tgt]
      <3>1. record \in Records /\ record.service = TRUE
        BY <2>3, ARecord DEF Record, Aimed
      <3>2. disk' = record /\ svc = TRUE /\ disk.service = svc
        BY <1>2, <2>3 DEF Record, Chosen, Command
      <3> HIDE DEF record
      <3> QED
        BY <3>1, <3>2, LifecycleAssumption
    <2>4. CASE Save
      <3> DEFINE record == [service |-> FALSE, alias |-> tgt]
      <3>1. record \in Records /\ record.service = FALSE
        BY <2>4, ARecord DEF Save, Aimed
      <3>2. disk' = record /\ svc = FALSE /\ disk.service = svc
        BY <1>2, <2>4 DEF Save, Chosen, Command
      <3> HIDE DEF record
      <3> QED
        BY <3>1, <3>2, LifecycleAssumption
    <2> QED
      BY <2>1, <2>2, <2>3, <2>4
  <1> QED
    BY <1>1, <1>2

-----------------------------------------------------------------------------
(* The theorems.                                                           *)

LEMMA Invariance == Spec => []IInv
  <1> HIDE DEF IInv, vars
  <1> QED
    BY InitEstablishes, StepKeeps, PTL DEF Spec

\* Under any number of failures every variable of the host's commands keeps its
\* type: no command acts on a remote, a token or a record it does not have.
THEOREM TypeCorrect == Spec => []TypeOK
  <1>1. IInv => TypeOK
    BY TypesAre
  <1> HIDE DEF IInv
  <1> QED
    BY <1>1, Invariance, PTL

\* For any number of remotes and any failures, crashes and restarts of the host,
\* the remote that the settings name has their token (install.py:110-145).
THEOREM RemoteStaysPaired == Spec => []Paired
  <1>1. IInv => Paired
    OBVIOUS
  <1> HIDE DEF IInv
  <1> QED
    BY <1>1, Invariance, PTL

\* For any number of remotes and any failures no step of an update changes the
\* recorded choice of the service (install.py:179-188, update.py:87).
THEOREM UpdatesKeepTheChoice == Spec => UpdateKeepsChoice
  <1>1. IInv /\ [Next]_vars =>
          [op = "update" /\ pc # "idle" /\ disk # None =>
               disk' # None /\ disk'.service = disk.service]_vars
    BY StepKeepsChoice
  <1> HIDE DEF IInv, vars
  <1> QED
    BY <1>1, Invariance, PTL DEF Spec, UpdateKeepsChoice

-----------------------------------------------------------------------------
(***************************************************************************)
(* What one failure can do: what a command may say when it ends, and what  *)
(* the next one can still undo.                                            *)
(*                                                                         *)
(* IInv says what a command knows; here is what it has done by each of its *)
(* steps, and that one failure is not enough to tear host.env, manifest    *)
(* and service apart.  With two failures it can be.                        *)
(***************************************************************************)

\* With any number of failures: a service runs where one is enabled or was not stopped
\* when it should have been, the installer's own bridge while it verifies.
Running ==
    /\ asked = "yes" => unit = "enabled" /\ pc # "unlink"
    /\ RunBy("service") => asked # "no"
    /\ RunBy("install") => pc \in {"wait", "check"}
    /\ pc = "start" => unit = "enabled"

\* The manifest a command holds is the one on disk, or what stands in for it.
Read ==
    /\ pc \in {"remote", "stop", "env", "record", "unregister"} =>
          mem = IF disk = None THEN Blank ELSE disk
    /\ pc \in {"unstop", "unremote", "unservice"} =>
          mem = (IF disk # None THEN disk ELSE Fallback) /\ mem # Blank

\* Nothing is said before the end, and each step belongs to its commands.
Underway ==
    /\ pc # "idle" => told = "none"
    /\ pc \in {"upgrade", "reinstall", "remote", "stop", "env", "record", "unregister", "save",
              "verify", "wait", "check"} => op \in {"install", "update"}
    /\ pc \in {"unit", "enable", "start"} => op \in {"install", "update", "uninstall"}

Order == Running /\ Read /\ Underway

\* Until something fails, settings and manifest come and go together.
Whole ==
    faults = 0 /\ pc \notin {"record", "unregister", "save"} => (env = None <=> disk = None)

\* What is registered is recorded, and has settings to start from.
HasService == disk # None /\ disk.service /\ env # None
Registered ==
    /\ unit # "absent" => HasService
    /\ pc \in {"unit", "enable", "start"} => HasService /\ (op = "uninstall" => faults # 0)
    /\ pc \in {"save", "undo"} => unit = "absent"

\* While the remote is cleaned nothing that the service manager runs is up, or will be,
\* unless it ignored the stop.
Cleaning ==
    /\ pc = "unremote" =>
          /\ asked # "yes"
          /\ \/ bridge = None
             \/ RunBy("service") /\ asked = "ignored"
             \/ RunBy("user") /\ mem.service
    /\ pc \in {"unservice", "unlink", "undo"} /\ op = "uninstall" /\ tgt # None => remote[tgt] = None

Single == Whole /\ Registered /\ Cleaning

\* What an installation has done by each of its steps.
InstalledRemote ==
    {"stop", "env", "record", "unregister", "save", "verify", "wait", "check"}
    \cup (IF op = "uninstall" THEN {} ELSE {"unit", "enable", "start"})
    \cup (IF op \in {"install", "update"} THEN {"unlink"} ELSE {})
WroteEnv == InstalledRemote \ {"stop", "env"}
WroteRecord == WroteEnv \ {"record", "unregister", "unlink", "save"}
Verifying == {"verify", "wait", "check"}

Done ==
    /\ pc \in InstalledRemote =>
          tgt \in Remotes /\ remote[tgt] = [token |-> tok, ver |-> version]
    /\ pc \in WroteEnv => env = [token |-> tok, alias |-> tgt]
    /\ pc \in WroteRecord => disk = [service |-> svc, alias |-> tgt]
    /\ pc \in {"unit", "enable", "start"} /\ op # "uninstall" => svc
    /\ pc \in Verifying =>
          /\ svc <=> unit = "enabled"
          /\ svc <=> asked = "yes"
          /\ RunBy("service") /\ asked # "ignored" => bridge.ver = version

\* The failure of an uninstall is the one there is: nothing undoes what it put back.
PutBackOnce == op = "uninstall" /\ told = "failed" => faults # 0 /\ PutBack

-----------------------------------------------------------------------------
(* Every step of every command, and of the world, preserves each of them.  *)

USE DEF Blank, hostVars, svcVars, pkgVars, choiceVars, cmdVars, vars,
        Step, End, Fails, Fault, RunBy, Knows

LEMMA StepOrder == IInv /\ Order /\ [Next]_vars => Order'
  <1> SUFFICES ASSUME IInv, Order, [Next]_vars PROVE Order'
    OBVIOUS
  <1> USE DEF Order, Running, Read, Underway, IInv, Machines, Command
  <1>1. CASE InstallRemote
    BY <1>1 DEF InstallRemote
  <1>2. CASE HostStop
    BY <1>2 DEF HostStop, StopService, StillIgnored
  <1>3. CASE WriteEnv
    BY <1>3 DEF WriteEnv
  <1>4. CASE Record
    BY <1>4 DEF Record
  <1>5. CASE WriteUnit
    BY <1>5 DEF WriteUnit
  <1>6. CASE Enable
    BY <1>6 DEF Enable
  <1>7. CASE Restart
    BY <1>7 DEF Restart, Started
  <1>8. CASE Unregister
    BY <1>8 DEF Unregister, RemoveService, StopService, StillIgnored
  <1>9. CASE Save
    BY <1>9 DEF Save
  <1>10. CASE Verify
    BY <1>10 DEF Verify, Serving
  <1>11. CASE WaitForTunnel
    BY <1>11 DEF WaitForTunnel, DropTemporary
  <1>12. CASE CheckRemote
    BY <1>12 DEF CheckRemote, DropTemporary
  <1>13. CASE Upgrade
    BY <1>13 DEF Upgrade
  <1>14. CASE Reinstall
    BY <1>14 DEF Reinstall, Prepare
  <1>15. CASE TakeDown
    BY <1>15 DEF TakeDown, StopService, StillIgnored, Fallback
  <1>16. CASE UninstallRemote
    BY <1>16 DEF UninstallRemote, Fallback, Written
  <1>17. CASE RemoveServices
    BY <1>17 DEF RemoveServices, RemoveService, StopService, StillIgnored
  <1>18. CASE Undo
    BY <1>18 DEF Undo
  <1>19. CASE ServiceStart
    BY <1>19 DEF ServiceStart, Restarts, Serving, Fallback
  <1>20. CASE ServeStart
    BY <1>20 DEF ServeStart, Serving
  <1>21. CASE ServeStop
    BY <1>21 DEF ServeStop, Fallback
  <1>22. CASE Publish
    BY <1>22 DEF Publish, Fallback
  <1>23. CASE Interrupt
    BY <1>23 DEF Interrupt, DropTemporary
  <1>24. CASE Reboot
    BY <1>24 DEF Reboot
  <1>25. CASE \E r \in Remotes, requested \in {"yes", "no", "keep"} : Install(r, requested)
    BY <1>25 DEF Install, Prepare
  <1>26. CASE \E r \in Remotes : Update(r)
    BY <1>26 DEF Update, StopService, StillIgnored
  <1>27. CASE \E kind \in {"uninstall", "host-only"} : Uninstall(kind)
    <2>1. PICK kind \in {"uninstall", "host-only"} : Uninstall(kind)
      BY <1>27
    <2>2. UNCHANGED <<disk, env, unit, asked, bridge>>
          /\ \/ pc' = "idle" /\ pc = "idle"
             \/ /\ pc' = "unstop" /\ told' = "none" /\ mem' # Blank /\ pc = "idle"
                /\ mem' = IF disk # None THEN disk ELSE Fallback
      BY <2>1 DEF Uninstall
    <2>3. Read'
      BY <2>2 DEF Fallback
    <2>4. Running' /\ Underway'
      BY <2>2
    <2> QED
      BY <2>3, <2>4
  <1>28. CASE UNCHANGED vars
    BY <1>28 DEF Fallback
  <1>29. CASE Unlink
    BY <1>29 DEF Unlink
  <1> QED
    BY <1>1, <1>2, <1>3, <1>4, <1>5, <1>6, <1>7, <1>8, <1>9, <1>10, <1>11, <1>12, <1>13, <1>14,
       <1>15, <1>16, <1>17, <1>18, <1>19, <1>20, <1>21, <1>22, <1>23, <1>24, <1>25,
       <1>26, <1>27, <1>28, <1>29 DEF Next, CommandStep

\* A record or settings that were written are there, with what was written.
LEMMA Something ==
    /\ \A b \in BOOLEAN, r \in Remotes : LET rec == [service |-> b, alias |-> r] IN
          rec # None /\ rec.service = b /\ rec.alias = r
    /\ \A k \in Tokens, r \in Remotes : LET set == [token |-> k, alias |-> r] IN
          set # None /\ set.token = k /\ set.alias = r
    /\ \A set \in Settings : set # None
  <1>1. None \notin Records /\ None \notin Settings
    BY LifecycleAssumption
  <1> QED
    BY <1>1 DEF Records, Settings

\* A fault is the first one, and the last.
LEMMA OneFault ==
    ASSUME faults' <= 1, Counts, NEW kind, Fault(kind)
    PROVE  faults = 0 /\ faults' = 1
  BY LifecycleAssumption DEF Counts

LEMMA NoMoreFaults ==
    ASSUME faults' <= 1, Counts, faults # 0
    PROVE  \A kind : ~Fault(kind)
  BY LifecycleAssumption DEF Counts

LEMMA StepSingle == faults' <= 1 /\ IInv /\ Order /\ Single /\ [Next]_vars => Single'
  <1> SUFFICES ASSUME faults' <= 1, IInv, Order, Single, [Next]_vars PROVE Single'
    OBVIOUS
  <1> USE DEF Single, Whole, HasService, Registered, Cleaning, Order, Running, Read, Underway,
              IInv, Machines, Command, Counts
  <1>1. CASE InstallRemote
    BY <1>1 DEF InstallRemote
  <1>2. CASE HostStop
    BY <1>2 DEF HostStop, StopService, StillIgnored
  <1>3. CASE WriteEnv
    <2>1. /\ pc = "env" /\ UNCHANGED <<disk, unit, asked, bridge, remote>>
          /\ \/ pc' = "idle" /\ faults' # 0 /\ env' = env
             \/ pc' \in {"record", "unregister"} /\ env' # None /\ faults' = faults
      BY <1>3, Something DEF WriteEnv, Aimed, Keeping
    <2> QED
      BY <2>1
  <1>4. CASE Record
    <2> DEFINE rec == [service |-> TRUE, alias |-> tgt]
    <2>1. rec # None /\ rec.service = TRUE
      BY <1>4, Something DEF Record, Aimed
    <2>2. /\ UNCHANGED <<env, unit, asked, bridge, remote, op>> /\ pc = "record"
          /\ \/ pc' = "idle" /\ faults' # 0 /\ disk' = disk
             \/ pc' = "unit" /\ disk' = rec /\ faults' = faults
      BY <1>4 DEF Record
    <2>3. env # None
      BY <2>2, Something DEF Written
    <2> HIDE DEF rec
    <2> QED
      BY <2>1, <2>2, <2>3
  <1>5. CASE WriteUnit
    BY <1>5 DEF WriteUnit
  <1>6. CASE Enable
    BY <1>6 DEF Enable
  <1>7. CASE Restart
    BY <1>7 DEF Restart, Started
  <1>8. CASE Unregister
    <2>1. /\ pc = "unregister" /\ mem = (IF disk = None THEN Blank ELSE disk)
          /\ UNCHANGED <<env, disk, remote, tgt, op>>
          /\ \/ mem.service /\ pc' = "unlink" /\ unit' \in {unit, "written"}
                /\ (unit = "absent" => unit' = "absent")
             \/ ~mem.service /\ pc' = "save" /\ unit' = unit
      BY <1>8 DEF Unregister, RemoveService
    <2>2. env # None
      BY <2>1, Something DEF Written
    <2>3. Whole'
      BY <2>1, <2>2
    <2>4. Registered'
      BY <2>1
    <2>5. Cleaning'
      BY <2>1
    <2> QED
      BY <2>3, <2>4, <2>5
  <1>9. CASE Save
    <2> DEFINE rec == [service |-> FALSE, alias |-> tgt]
    <2>1. rec # None /\ rec.service = FALSE
      BY <1>9, Something DEF Save, Aimed
    <2>2. /\ UNCHANGED <<env, unit, asked, bridge, remote, op>> /\ pc = "save"
          /\ \/ pc' = "idle" /\ faults' # 0 /\ disk' = disk
             \/ pc' = "verify" /\ disk' = rec /\ faults' = faults
      BY <1>9 DEF Save
    <2>3. env # None
      BY <2>2, Something DEF Written
    <2> HIDE DEF rec
    <2> QED
      BY <2>1, <2>2, <2>3
  <1>10. CASE Verify
    BY <1>10 DEF Verify, Serving
  <1>11. CASE WaitForTunnel
    BY <1>11 DEF WaitForTunnel, DropTemporary
  <1>12. CASE CheckRemote
    BY <1>12 DEF CheckRemote, DropTemporary
  <1>13. CASE Upgrade
    BY <1>13 DEF Upgrade
  <1>14. CASE Reinstall
    BY <1>14 DEF Reinstall, Prepare
  <1>15. CASE TakeDown
    BY <1>15 DEF TakeDown, StopService, StillIgnored, Fallback
  <1>16. CASE UninstallRemote
    <2>1. /\ pc = "unremote" /\ mem = (IF disk # None THEN disk ELSE Fallback) /\ mem # Blank
          /\ pc' \in {"unservice", "unit", "idle"}
          /\ UNCHANGED <<env, disk, unit, asked, bridge, op, tgt>>
      BY <1>16 DEF UninstallRemote
    <2>2. pc' = "unit" => mem.service /\ faults = 0 /\ faults' = 1
      <3>1. pc' = "unit" => mem.service /\ Fault("ssh")
        BY <1>16 DEF UninstallRemote
      <3> QED
        BY <3>1, OneFault
    <2>3. faults = 0 /\ mem.service => HasService
      BY <2>1 DEF Fallback
    <2>4. pc' = "unservice" /\ tgt # None => remote'[tgt] = None
      BY <1>16, <2>1 DEF UninstallRemote
    <2>5. Whole'
      BY <1>16, <2>1 DEF UninstallRemote
    <2>6. Registered'
      BY <2>1, <2>2, <2>3
    <2>7. Cleaning'
      BY <2>1, <2>4
    <2> QED
      BY <2>5, <2>6, <2>7
  <1>17. CASE RemoveServices
    BY <1>17 DEF RemoveServices, RemoveService, StopService, StillIgnored
  <1>18. CASE Undo
    BY <1>18 DEF Undo
  <1>19. CASE ServiceStart
    BY <1>19 DEF ServiceStart, Restarts, Serving, Fallback
  <1>20. CASE ServeStart
    BY <1>20 DEF ServeStart, Serving
  <1>21. CASE ServeStop
    BY <1>21 DEF ServeStop, Fallback
  <1>22. CASE Publish
    BY <1>22 DEF Publish, Fallback
  <1>23. CASE Interrupt
    BY <1>23 DEF Interrupt, DropTemporary
  <1>24. CASE Reboot
    BY <1>24 DEF Reboot
  <1>25. CASE \E r \in Remotes, requested \in {"yes", "no", "keep"} : Install(r, requested)
    BY <1>25 DEF Install, Prepare
  <1>26. CASE \E r \in Remotes : Update(r)
    BY <1>26 DEF Update, StopService, StillIgnored
  <1>27. CASE \E kind \in {"uninstall", "host-only"} : Uninstall(kind)
    BY <1>27 DEF Uninstall, Fallback
  <1>28. CASE UNCHANGED vars
    BY <1>28 DEF Fallback
  <1>29. CASE Unlink
    BY <1>29 DEF Unlink
  <1> QED
    BY <1>1, <1>2, <1>3, <1>4, <1>5, <1>6, <1>7, <1>8, <1>9, <1>10, <1>11, <1>12, <1>13, <1>14,
       <1>15, <1>16, <1>17, <1>18, <1>19, <1>20, <1>21, <1>22, <1>23, <1>24, <1>25,
       <1>26, <1>27, <1>28, <1>29 DEF Next, CommandStep

LEMMA StepDone == IInv /\ Order /\ Single /\ Done /\ [Next]_vars => Done'
  <1> SUFFICES ASSUME IInv, Order, Single, Done, [Next]_vars PROVE Done'
    OBVIOUS
  <1> USE DEF Done, Single, Verifying, InstalledRemote, WroteEnv, WroteRecord,
              HasService, Registered, Order, Running, Read, Underway, IInv, Machines, Command
  <1>1. CASE InstallRemote
    BY <1>1 DEF InstallRemote, Aimed
  <1>2. CASE HostStop
    BY <1>2 DEF HostStop, StopService, StillIgnored
  <1>3. CASE WriteEnv
    BY <1>3 DEF WriteEnv
  <1>4. CASE Record
    <2>1. svc = TRUE
      BY <1>4 DEF Record, Chosen
    <2> QED
      BY <1>4, <2>1 DEF Record
  <1>5. CASE WriteUnit
    BY <1>5 DEF WriteUnit
  <1>6. CASE Enable
    BY <1>6 DEF Enable
  <1>7. CASE Restart
    BY <1>7 DEF Restart, Started
  <1>8. CASE Unregister
    BY <1>8 DEF Unregister, RemoveService, StopService, StillIgnored
  <1>9. CASE Save
    <2>1. svc = FALSE /\ unit = "absent" /\ asked # "yes"
      BY <1>9 DEF Save, Chosen
    <2> QED
      BY <1>9, <2>1 DEF Save
  <1>10. CASE Verify
    BY <1>10 DEF Verify, Serving
  <1>11. CASE WaitForTunnel
    BY <1>11 DEF WaitForTunnel, DropTemporary
  <1>12. CASE CheckRemote
    BY <1>12 DEF CheckRemote, DropTemporary
  <1>13. CASE Upgrade
    BY <1>13 DEF Upgrade
  <1>14. CASE Reinstall
    BY <1>14 DEF Reinstall, Prepare
  <1>15. CASE TakeDown
    BY <1>15 DEF TakeDown, StopService, StillIgnored, Fallback
  <1>16. CASE UninstallRemote
    BY <1>16 DEF UninstallRemote, Written
  <1>17. CASE RemoveServices
    BY <1>17 DEF RemoveServices, RemoveService, StopService, StillIgnored, Chosen
  <1>18. CASE Undo
    BY <1>18 DEF Undo
  <1>19. CASE ServiceStart
    BY <1>19 DEF ServiceStart, Restarts, Serving, Fallback
  <1>20. CASE ServeStart
    BY <1>20 DEF ServeStart, Serving
  <1>21. CASE ServeStop
    BY <1>21 DEF ServeStop, Fallback
  <1>22. CASE Publish
    BY <1>22 DEF Publish, Fallback
  <1>23. CASE Interrupt
    BY <1>23 DEF Interrupt, DropTemporary
  <1>24. CASE Reboot
    BY <1>24 DEF Reboot
  <1>25. CASE \E r \in Remotes, requested \in {"yes", "no", "keep"} : Install(r, requested)
    BY <1>25 DEF Install, Prepare
  <1>26. CASE \E r \in Remotes : Update(r)
    BY <1>26 DEF Update, StopService, StillIgnored
  <1>27. CASE \E kind \in {"uninstall", "host-only"} : Uninstall(kind)
    BY <1>27 DEF Uninstall, Fallback
  <1>28. CASE UNCHANGED vars
    BY <1>28 DEF Fallback
  <1>29. CASE Unlink
    BY <1>29 DEF Unlink
  <1> QED
    BY <1>1, <1>2, <1>3, <1>4, <1>5, <1>6, <1>7, <1>8, <1>9, <1>10, <1>11, <1>12, <1>13, <1>14,
       <1>15, <1>16, <1>17, <1>18, <1>19, <1>20, <1>21, <1>22, <1>23, <1>24, <1>25,
       <1>26, <1>27, <1>28, <1>29 DEF Next, CommandStep

LEMMA StepAgreed == IInv /\ Order /\ Single /\ Done /\ Agreed /\ [Next]_vars => Agreed'
  <1> SUFFICES ASSUME IInv, Order, Single, Done, Agreed, [Next]_vars PROVE Agreed'
    OBVIOUS
  <1> USE DEF Agreed, Done, Single, Verifying, InstalledRemote, WroteEnv, WroteRecord,
              HasService, Registered, Order, Running, Read, Underway, IInv, Machines, Command
  <1>1. CASE InstallRemote
    BY <1>1 DEF InstallRemote
  <1>2. CASE HostStop
    BY <1>2 DEF HostStop, StopService, StillIgnored
  <1>3. CASE WriteEnv
    BY <1>3 DEF WriteEnv
  <1>4. CASE Record
    BY <1>4 DEF Record
  <1>5. CASE WriteUnit
    BY <1>5 DEF WriteUnit
  <1>6. CASE Enable
    BY <1>6 DEF Enable
  <1>7. CASE Restart
    BY <1>7 DEF Restart, Started
  <1>8. CASE Unregister
    BY <1>8 DEF Unregister, RemoveService, StopService, StillIgnored
  <1>9. CASE Save
    BY <1>9 DEF Save
  <1>10. CASE Verify
    BY <1>10 DEF Verify, Serving
  <1>11. CASE WaitForTunnel
    BY <1>11 DEF WaitForTunnel, DropTemporary
  <1>12. CASE CheckRemote
    <2>1. /\ pc = "check" /\ UNCHANGED <<env, disk, unit, asked, remote, version, tgt>>
          /\ \/ told' = "failed"
             \/ Accepted /\ told' \in {"installed", "updated"}
          /\ bridge' \in {bridge, None}
      BY <1>12 DEF CheckRemote, DropTemporary
    <2>2. /\ remote[tgt] = [token |-> tok, ver |-> version] /\ env = [token |-> tok, alias |-> tgt]
          /\ disk = [service |-> svc, alias |-> tgt]
      BY <2>1
    <2>3. /\ svc <=> unit = "enabled"
          /\ svc <=> asked = "yes"
          /\ RunBy("service") /\ asked # "ignored" => bridge.ver = version
      BY <2>1
    <2>4. Accepted => bridge.alias = tgt /\ bridge.token = env.token
      BY <2>2 DEF Accepted, Reaches
    <2>5. env # None /\ disk # None
      BY <2>1, <2>2, Something DEF Aimed, Written
    <2> QED
      BY <2>1, <2>2, <2>3, <2>4, <2>5
  <1>13. CASE Upgrade
    BY <1>13 DEF Upgrade
  <1>14. CASE Reinstall
    BY <1>14 DEF Reinstall, Prepare
  <1>15. CASE TakeDown
    BY <1>15 DEF TakeDown, StopService, StillIgnored, Fallback
  <1>16. CASE UninstallRemote
    BY <1>16 DEF UninstallRemote, Fallback
  <1>17. CASE RemoveServices
    BY <1>17 DEF RemoveServices, RemoveService, StopService, StillIgnored
  <1>18. CASE Undo
    BY <1>18 DEF Undo
  <1>19. CASE ServiceStart
    BY <1>19 DEF ServiceStart, Restarts, Serving, Fallback
  <1>20. CASE ServeStart
    BY <1>20 DEF ServeStart, Serving
  <1>21. CASE ServeStop
    BY <1>21 DEF ServeStop, Fallback
  <1>22. CASE Publish
    BY <1>22 DEF Publish, Fallback
  <1>23. CASE Interrupt
    BY <1>23 DEF Interrupt, DropTemporary
  <1>24. CASE Reboot
    BY <1>24 DEF Reboot
  <1>25. CASE \E r \in Remotes, requested \in {"yes", "no", "keep"} : Install(r, requested)
    BY <1>25 DEF Install, Prepare
  <1>26. CASE \E r \in Remotes : Update(r)
    BY <1>26 DEF Update, StopService, StillIgnored
  <1>27. CASE \E kind \in {"uninstall", "host-only"} : Uninstall(kind)
    BY <1>27 DEF Uninstall, Fallback
  <1>28. CASE UNCHANGED vars
    BY <1>28 DEF Fallback
  <1>29. CASE Unlink
    BY <1>29 DEF Unlink
  <1> QED
    BY <1>1, <1>2, <1>3, <1>4, <1>5, <1>6, <1>7, <1>8, <1>9, <1>10, <1>11, <1>12, <1>13, <1>14,
       <1>15, <1>16, <1>17, <1>18, <1>19, <1>20, <1>21, <1>22, <1>23, <1>24, <1>25,
       <1>26, <1>27, <1>28, <1>29 DEF Next, CommandStep

LEMMA StepClean == IInv /\ Order /\ Single /\ Clean /\ [Next]_vars => Clean'
  <1> SUFFICES ASSUME IInv, Order, Single, Clean, [Next]_vars PROVE Clean'
    OBVIOUS
  <1> USE DEF Clean, Single, Cleaning, HasService, Registered, Order,
              Running, Read, Underway, IInv, Machines, Command
  <1>1. CASE InstallRemote
    BY <1>1 DEF InstallRemote
  <1>2. CASE HostStop
    BY <1>2 DEF HostStop, StopService, StillIgnored
  <1>3. CASE WriteEnv
    BY <1>3 DEF WriteEnv
  <1>4. CASE Record
    BY <1>4 DEF Record
  <1>5. CASE WriteUnit
    BY <1>5 DEF WriteUnit
  <1>6. CASE Enable
    BY <1>6 DEF Enable
  <1>7. CASE Restart
    BY <1>7 DEF Restart, Started
  <1>8. CASE Unregister
    BY <1>8 DEF Unregister, RemoveService, StopService, StillIgnored
  <1>9. CASE Save
    BY <1>9 DEF Save
  <1>10. CASE Verify
    BY <1>10 DEF Verify, Serving
  <1>11. CASE WaitForTunnel
    BY <1>11 DEF WaitForTunnel, DropTemporary
  <1>12. CASE CheckRemote
    BY <1>12 DEF CheckRemote, DropTemporary
  <1>13. CASE Upgrade
    BY <1>13 DEF Upgrade
  <1>14. CASE Reinstall
    BY <1>14 DEF Reinstall, Prepare
  <1>15. CASE TakeDown
    BY <1>15 DEF TakeDown, StopService, StillIgnored, Fallback
  <1>16. CASE UninstallRemote
    BY <1>16 DEF UninstallRemote, Fallback
  <1>17. CASE RemoveServices
    BY <1>17 DEF RemoveServices, RemoveService, StopService, StillIgnored
  <1>18. CASE Undo
    BY <1>18 DEF Undo
  <1>19. CASE ServiceStart
    BY <1>19 DEF ServiceStart, Restarts, Serving, Fallback
  <1>20. CASE ServeStart
    BY <1>20 DEF ServeStart, Serving
  <1>21. CASE ServeStop
    BY <1>21 DEF ServeStop, Fallback
  <1>22. CASE Publish
    BY <1>22 DEF Publish, Fallback
  <1>23. CASE Interrupt
    BY <1>23 DEF Interrupt, DropTemporary
  <1>24. CASE Reboot
    BY <1>24 DEF Reboot
  <1>25. CASE \E r \in Remotes, requested \in {"yes", "no", "keep"} : Install(r, requested)
    BY <1>25 DEF Install, Prepare
  <1>26. CASE \E r \in Remotes : Update(r)
    BY <1>26 DEF Update, StopService, StillIgnored
  <1>27. CASE \E kind \in {"uninstall", "host-only"} : Uninstall(kind)
    BY <1>27 DEF Uninstall, Fallback
  <1>28. CASE UNCHANGED vars
    BY <1>28 DEF Fallback
  <1>29. CASE Unlink
    BY <1>29 DEF Unlink
  <1> QED
    BY <1>1, <1>2, <1>3, <1>4, <1>5, <1>6, <1>7, <1>8, <1>9, <1>10, <1>11, <1>12, <1>13, <1>14,
       <1>15, <1>16, <1>17, <1>18, <1>19, <1>20, <1>21, <1>22, <1>23, <1>24, <1>25,
       <1>26, <1>27, <1>28, <1>29 DEF Next, CommandStep

LEMMA StepPutBack ==
    faults' <= 1 /\ IInv /\ Order /\ Single /\ PutBackOnce /\ [Next]_vars => PutBackOnce'
  <1> SUFFICES ASSUME faults' <= 1, IInv, Order, Single, PutBackOnce, [Next]_vars
               PROVE  PutBackOnce'
    OBVIOUS
  <1> USE DEF PutBackOnce, PutBack, Single, Cleaning, HasService, Registered, Order,
              Running, Read, Underway, IInv, Machines, Command
  <1>1. CASE InstallRemote
    BY <1>1 DEF InstallRemote
  <1>2. CASE HostStop
    BY <1>2 DEF HostStop, StopService, StillIgnored
  <1>3. CASE WriteEnv
    BY <1>3 DEF WriteEnv
  <1>4. CASE Record
    BY <1>4 DEF Record
  <1>5. CASE WriteUnit
    <2>1. op = "uninstall" => faults # 0 /\ \A kind : ~Fault(kind)
      <3>1. op = "uninstall" => faults # 0
        BY <1>5 DEF WriteUnit
      <3> QED
        BY <3>1, NoMoreFaults
    <2> QED
      BY <1>5, <2>1 DEF WriteUnit
  <1>6. CASE Enable
    <2>1. op = "uninstall" => faults # 0 /\ \A kind : ~Fault(kind)
      <3>1. op = "uninstall" => faults # 0
        BY <1>6 DEF Enable
      <3> QED
        BY <3>1, NoMoreFaults
    <2> QED
      BY <1>6, <2>1 DEF Enable
  <1>7. CASE Restart
    <2>1. op = "uninstall" => faults # 0 /\ \A kind : ~Fault(kind)
      <3>1. op = "uninstall" => faults # 0
        BY <1>7 DEF Restart
      <3> QED
        BY <3>1, NoMoreFaults
    <2> QED
      BY <1>7, <2>1 DEF Restart, Started
  <1>8. CASE Unregister
    BY <1>8 DEF Unregister, RemoveService, StopService, StillIgnored
  <1>9. CASE Save
    BY <1>9 DEF Save
  <1>10. CASE Verify
    BY <1>10 DEF Verify, Serving
  <1>11. CASE WaitForTunnel
    BY <1>11 DEF WaitForTunnel, DropTemporary
  <1>12. CASE CheckRemote
    BY <1>12 DEF CheckRemote, DropTemporary
  <1>13. CASE Upgrade
    BY <1>13 DEF Upgrade
  <1>14. CASE Reinstall
    BY <1>14 DEF Reinstall, Prepare
  <1>15. CASE TakeDown
    BY <1>15 DEF TakeDown, StopService, StillIgnored, Fallback
  <1>16. CASE UninstallRemote
    <2>1. /\ pc = "unremote" /\ mem = (IF disk # None THEN disk ELSE Fallback)
          /\ UNCHANGED <<env, disk, unit, asked, op>>
          /\ \/ told' # "failed"
             \/ ~mem.service /\ Fault("ssh")
      BY <1>16 DEF UninstallRemote
    <2>2. Fault("ssh") => faults' # 0
      BY OneFault
    <2> QED
      BY <2>1, <2>2
  <1>17. CASE RemoveServices
    BY <1>17 DEF RemoveServices, RemoveService, StopService, StillIgnored
  <1>18. CASE Undo
    BY <1>18 DEF Undo
  <1>19. CASE ServiceStart
    BY <1>19 DEF ServiceStart, Restarts, Serving, Fallback
  <1>20. CASE ServeStart
    BY <1>20 DEF ServeStart, Serving
  <1>21. CASE ServeStop
    BY <1>21 DEF ServeStop, Fallback
  <1>22. CASE Publish
    BY <1>22 DEF Publish, Fallback
  <1>23. CASE Interrupt
    BY <1>23 DEF Interrupt, DropTemporary
  <1>24. CASE Reboot
    <2>1. faults = 0 /\ faults' = 1
      BY <1>24, OneFault DEF Reboot
    <2> QED
      BY <1>24, <2>1 DEF Reboot
  <1>25. CASE \E r \in Remotes, requested \in {"yes", "no", "keep"} : Install(r, requested)
    BY <1>25 DEF Install, Prepare
  <1>26. CASE \E r \in Remotes : Update(r)
    BY <1>26 DEF Update, StopService, StillIgnored
  <1>27. CASE \E kind \in {"uninstall", "host-only"} : Uninstall(kind)
    BY <1>27 DEF Uninstall, Fallback
  <1>28. CASE UNCHANGED vars
    BY <1>28 DEF Fallback
  <1>29. CASE Unlink
    BY <1>29 DEF Unlink
  <1> QED
    BY <1>1, <1>2, <1>3, <1>4, <1>5, <1>6, <1>7, <1>8, <1>9, <1>10, <1>11, <1>12, <1>13, <1>14,
       <1>15, <1>16, <1>17, <1>18, <1>19, <1>20, <1>21, <1>22, <1>23, <1>24, <1>25,
       <1>26, <1>27, <1>28, <1>29 DEF Next, CommandStep

-----------------------------------------------------------------------------
(* The theorems.                                                           *)

LEMMA InitOutcomes == Init => Order /\ Single /\ Done /\ Agreed /\ Clean /\ PutBackOnce
  <1> SUFFICES ASSUME Init
               PROVE  Order /\ Single /\ Done /\ Agreed /\ Clean /\ PutBackOnce
    OBVIOUS
  <1> USE DEF Init
  <1>1. Order
    BY DEF Order, Running, Read, Underway
  <1>2. Single
    BY DEF Single, Whole, Registered, Cleaning
  <1>3. Done
    BY DEF Done, Verifying, InstalledRemote, WroteEnv, WroteRecord
  <1>4. Agreed /\ Clean /\ PutBackOnce
    BY DEF Agreed, Clean, PutBackOnce
  <1> QED
    BY <1>1, <1>2, <1>3, <1>4

\* A second failure is never taken back.
LEMMA FaultsGrow == IInv /\ [Next]_vars => faults' \in Nat /\ faults <= faults'
  <1> SUFFICES ASSUME IInv, [Next]_vars PROVE faults' \in Nat /\ faults <= faults'
    OBVIOUS
  <1>1. faults \in Nat
    BY LifecycleAssumption DEF IInv, Counts
  <1>2. faults' = faults \/ faults' = faults + 1
    BY DEF Next, CommandStep, InstallRemote, HostStop, WriteEnv, Record, WriteUnit, Enable, Restart,
           Unregister, Unlink, Save, Verify, WaitForTunnel, CheckRemote, Upgrade, Reinstall, TakeDown,
           UninstallRemote, RemoveServices, Undo, ServiceStart, ServeStart, ServeStop, Publish,
           Interrupt, Reboot, Install, Update, Uninstall,
           StopService, RemoveService
  <1> QED
    BY <1>1, <1>2

Outcome == Single /\ Done /\ Agreed /\ Clean /\ PutBackOnce

LEMMA Outcomes == Spec => [](faults <= 1 => Outcome)
  <1>1. Init => Order /\ (faults <= 1 => Outcome)
    BY InitOutcomes DEF Outcome
  <1>2. IInv /\ Order /\ (faults <= 1 => Outcome) /\ [Next]_vars =>
            Order' /\ (faults <= 1 => Outcome)'
    <2> SUFFICES ASSUME IInv, Order, faults <= 1 => Outcome, [Next]_vars
                 PROVE  Order' /\ (faults' <= 1 => Outcome')
      OBVIOUS
    <2>1. Order'
      BY StepOrder
    <2>2. ASSUME faults' <= 1 PROVE Outcome'
      <3>1. faults <= 1
        BY <2>2, FaultsGrow, LifecycleAssumption DEF IInv, Counts
      <3>2. Outcome
        BY <3>1
      <3> QED
        BY <2>2, <3>2, StepSingle, StepDone, StepAgreed, StepClean, StepPutBack DEF Outcome
    <2> QED
      BY <2>1, <2>2
  <1> HIDE DEF IInv, vars, Outcome
  <1> QED
    BY <1>1, <1>2, Invariance, PTL DEF Spec

\* For any number of remotes and until a second failure a registered service is one
\* that the next `uninstall` unregisters, at every step of every command
\* (install.py:148-160, uninstall.py:39-44).
THEOREM ServiceStaysRemovable == Spec => [](faults <= 1 => Removable)
  <1>1. (faults <= 1 => Outcome) => (faults <= 1 => Removable)
    BY DEF Outcome, Single, Registered, HasService, Removable
  <1> QED
    BY <1>1, Outcomes, PTL

\* For any number of remotes and until a second failure, an ignored stop being one: a
\* service keeps a tunnel to a remote that is being cleaned, or starts one meanwhile,
\* only where the service manager ignored the stop; nothing else of the host does, but
\* a `serve` beside a recorded service (uninstall.py:79-83, service.py:103-106).
THEOREM TunnelIsDown == Spec => [](faults <= 1 => DownWhileCleaning)
  <1>1. (faults <= 1 => Outcome) => (faults <= 1 => DownWhileCleaning)
    BY DEF Outcome, Single, Cleaning, DownWhileCleaning
  <1> QED
    BY <1>1, Outcomes, PTL

\* For any number of remotes and until a second failure an installation or an update
\* that reports success leaves both machines agreeing, and no bridge with other settings
\* has answered its check (install.py:162-170, 358-378).  A service of an old release is
\* still running only where the service manager ignored a stop (service.py:106, 159).
THEOREM SuccessMeansAgreement == Spec => [](faults <= 1 => Agreed)
  <1>1. (faults <= 1 => Outcome) => (faults <= 1 => Agreed)
    BY DEF Outcome
  <1> QED
    BY <1>1, Outcomes, PTL

\* For any number of remotes and until a second failure an uninstall that reports success
\* has left nothing registered or written on the host, nor on the remote it names, and
\* what it left running is a `serve` or a service whose stop the service manager ignored,
\* and which it will not start again (uninstall.py:79-97, service.py:156-167).
THEOREM SuccessMeansGone == Spec => [](faults <= 1 => Clean)
  <1>1. (faults <= 1 => Outcome) => (faults <= 1 => Clean)
    BY DEF Outcome
  <1> QED
    BY <1>1, Outcomes, PTL

\* For any number of remotes, when the only failure is that the remote could not be
\* cleaned, the service is registered, asked to run and has its settings (uninstall.py:84-90).
THEOREM ServiceIsPutBack == Spec => [](faults <= 1 => PutBack)
  <1>1. (faults <= 1 => Outcome) => (faults <= 1 => PutBack)
    BY DEF Outcome, PutBackOnce, PutBack
  <1> QED
    BY <1>1, Outcomes, PTL
=============================================================================
