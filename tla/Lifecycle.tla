------------------------------ MODULE Lifecycle ------------------------------
(***************************************************************************)
(* The commands of the host, `install`, `update`, `uninstall` and `serve`  *)
(* (install.py, update.py, uninstall.py, cli.py), with the login service   *)
(* they register (service.py, as systemd runs it), the bridge that holds   *)
(* the port, and what is installed on each remote.                         *)
(*                                                                         *)
(* A command is a sequence of steps, any of which can fail or be the last  *)
(* one before a crash, while the service manager starts and restarts the   *)
(* bridge on its own and the user runs one in a terminal.  One command     *)
(* runs at a time.  A bridge reads host.env when it starts and not again.  *)
(***************************************************************************)
EXTENDS Naturals, FiniteSets

CONSTANTS
    Remotes,     \* the SSH aliases that can be installed for
    Tokens,      \* what generate_token can return
    None,        \* no file, no process, no alias
    MaxVersion,  \* bound on the releases published
    Faults,      \* the kinds of fault that can happen
    MaxFaults    \* bound on their number

FaultKinds == {"ssh",      \* the remote cannot be reached, or stops answering
               "systemd",  \* a command of the service manager fails
               "disk",     \* a file cannot be written or removed
               "pypi",     \* the release cannot be looked up or installed
               "crash"}    \* the command is interrupted, or the host restarts

\* What host.env and the host's manifest hold.
Settings == [token : Tokens, alias : Remotes]
Records == [service : BOOLEAN, alias : Remotes]

\* There is always a token that is not in use: every remote, one bridge and the
\* settings use one each.
ASSUME LifecycleAssumption ==
    /\ None \notin Remotes \cup Tokens \cup Records \cup Settings
    /\ IsFiniteSet(Remotes) /\ IsFiniteSet(Tokens)
    /\ Cardinality(Tokens) > Cardinality(Remotes) + 2
    /\ Faults \subseteq FaultKinds
    /\ MaxVersion \in Nat \ {0} /\ MaxFaults \in Nat

VARIABLES
    env, disk,          \* host.env and the host's manifest
    unit, asked,        \* the service's registration, and what was last asked of it
    bridge,             \* the process that holds the port
    remote,             \* what is installed on each remote
    version, latest,    \* the package on the host, and the newest release
    op, pc, told,       \* the command, its next step, and how the last one ended
    tgt, svc, tok, mem, \* its remote, service choice, token and manifest
    faults

hostVars == <<env, disk>>
svcVars == <<unit, asked, bridge>>
pkgVars == <<version, latest>>
choiceVars == <<svc, tok, mem>>
cmdVars == <<op, tgt, choiceVars>>
vars == <<hostVars, svcVars, remote, pkgVars, cmdVars, pc, told, faults>>

Versions == 1..MaxVersion
Blank == [service |-> FALSE, alias |-> None]
Steps == {"idle", "upgrade", "reinstall", "remote", "stop", "env", "record", "unit",
          "enable", "start", "unregister", "unlink", "save", "verify", "wait", "check",
          "unstop", "unremote", "unservice", "undo"}

TypeOK ==
    /\ env \in Settings \cup {None} /\ disk \in Records \cup {None}
    /\ unit \in {"absent", "written", "enabled"} /\ asked \in {"no", "yes", "ignored"}
    /\ bridge \in {None} \cup [by : {"service", "user", "install"}, token : Tokens,
                               alias : Remotes, ver : Versions]
    /\ remote \in [Remotes -> {None} \cup [token : Tokens, ver : Versions]]
    /\ version \in Versions /\ latest \in Versions /\ version <= latest
    /\ op \in {"none", "install", "update", "uninstall", "host-only"}
    /\ pc \in Steps
    /\ told \in {"none", "installed", "updated", "current", "uninstalled",
                 "nothing", "refused", "failed", "problems", "interrupted"}
    /\ tgt \in Remotes \cup {None}
    /\ svc \in BOOLEAN /\ tok \in Tokens \cup {None}
    /\ mem \in Records \cup {Blank}
    /\ faults \in 0..MaxFaults

Init ==
    /\ env = None /\ disk = None
    /\ unit = "absent" /\ asked = "no" /\ bridge = None
    /\ remote = [r \in Remotes |-> None]
    /\ version = 1 /\ latest = 1
    /\ op = "none" /\ pc = "idle" /\ told = "none" /\ tgt = None
    /\ svc = FALSE /\ tok = None /\ mem = Blank
    /\ faults = 0

-----------------------------------------------------------------------------
(* Helpers.                                                                *)

Step(from, to) == pc = from /\ pc' = to /\ UNCHANGED <<told, cmdVars>>

\* The command ends; what it held in memory is gone.
End(outcome) ==
    /\ pc' = "idle" /\ told' = outcome
    /\ svc' = FALSE /\ tok' = None /\ mem' = Blank
    /\ UNCHANGED <<op, tgt>>

Fault(kind) == kind \in Faults /\ faults < MaxFaults /\ faults' = faults + 1
Fails(from, kind, outcome) == pc = from /\ Fault(kind) /\ End(outcome)

RunBy(who) == bridge # None /\ bridge.by = who
Serving(who) == [by |-> who, token |-> env.token, alias |-> env.alias, ver |-> version]

\* temporary_bridge.__exit__, also on the way out of an exception.
DropTemporary == bridge' = IF RunBy("install") THEN None ELSE bridge

\* What stops the service manager from doing as it is told may last as long as the
\* command does.
StillIgnored ==
    /\ asked = "ignored"
    /\ pc \in {"unregister", "unservice"} \/ (op = "update" /\ pc = "stop")

\* services.stop() "never fails": systemd stops its own process, never a `serve` of
\* the user, and does not start it again, or does not do so and nobody hears of it.
StopService ==
    \/ asked' = "no" /\ bridge' = (IF RunBy("service") THEN None ELSE bridge) /\ UNCHANGED faults
    \/ asked # "no" /\ Fault("systemd") /\ asked' = "ignored" /\ UNCHANGED bridge
    \/ StillIgnored /\ UNCHANGED <<asked, bridge, faults>>

\* services.remove() stops and disables in one command, which may be ignored too,
\* whole or in part; what it does next is Unlink.
RemoveService(from, to) ==
    IF mem.service
    THEN /\ Step(from, "unlink") /\ StopService
         /\ \/ unit' = IF unit = "enabled" THEN "written" ELSE unit
            \/ asked' = "ignored" /\ UNCHANGED unit
    ELSE Step(from, to) /\ UNCHANGED <<svcVars, faults>>

\* Whether systemd starts the bridge again when it ends.
Restarts == asked # "no" /\ unit # "absent" /\ env # None

InUse == {remote[r].token : r \in {r \in Remotes : remote[r] # None}}
         \cup (IF bridge = None THEN {} ELSE {bridge.token})
         \cup (IF env = None THEN {} ELSE {env.token})
Fresh == CHOOSE t \in Tokens : t \notin InUse

\* Mutant: every installation makes a token.
NewToken == Fresh
KeptToken == IF env # None THEN env.token ELSE Fresh

\* Mutant: --yes means no.
ChooseNo(requested) == requested = "yes"
ChooseService(requested) ==
    \/ requested = "yes"
    \/ requested = "keep" /\ disk # None /\ disk.service

-----------------------------------------------------------------------------
(* install().                                                              *)

\* Mutant: a manifest that is not there is not read as an empty one.
PrepareUnread(requested) ==
    /\ svc' = ChooseService(requested)
    /\ tok' = KeptToken
    /\ mem' = disk
    /\ pc' = "remote" /\ told' = "none"

\* Up to the choice of the service nothing changes.  Without a manifest and
\* without a terminal "keep" means no; an answer at the terminal is a request.
Prepare(requested) ==
    /\ svc' = ChooseService(requested)
    /\ tok' = KeptToken
    /\ mem' = IF disk = None THEN Blank ELSE disk
    /\ pc' = "remote" /\ told' = "none"

Install(r, requested) ==
    /\ pc = "idle" /\ op' = "install" /\ tgt' = r
    /\ Prepare(requested)
    /\ UNCHANGED <<hostVars, svcVars, remote, pkgVars, faults>>

\* The remote gets the program and the token, or the connection is lost, before
\* or after that.
InstallRemote ==
    LET installed == [remote EXCEPT ![tgt] = [token |-> tok, ver |-> version]] IN
    /\ \/ Step("remote", "stop") /\ remote' = installed /\ UNCHANGED faults
       \/ Fails("remote", "ssh", "failed") /\ remote' \in {remote, installed}
    /\ UNCHANGED <<hostVars, svcVars, pkgVars>>

HostStop ==
    /\ Step("stop", "env") /\ StopService
    /\ UNCHANGED <<hostVars, unit, remote, pkgVars>>

WriteEnv ==
    /\ \/ /\ Step("env", IF svc THEN "record" ELSE "unregister")
          /\ env' = [token |-> tok, alias |-> tgt] /\ UNCHANGED faults
       \/ Fails("env", "disk", "failed") /\ UNCHANGED env
    /\ UNCHANGED <<disk, svcVars, remote, pkgVars>>

\* Mutant: the manifest is saved only once the service has started.
RecordLater ==
    /\ Step("record", "unit")
    /\ UNCHANGED <<hostVars, svcVars, remote, pkgVars, faults>>

\* "before starting, so a failure here can still be uninstalled"
Record ==
    /\ \/ Step("record", "unit") /\ disk' = [service |-> TRUE, alias |-> tgt] /\ UNCHANGED faults
       \/ Fails("record", "disk", "failed") /\ UNCHANGED disk
    /\ UNCHANGED <<env, svcVars, remote, pkgVars>>

\* services.install(): the unit file, then daemon-reload and enable, then restart.
WriteUnit ==
    /\ \/ /\ Step("unit", "enable") /\ UNCHANGED faults
          /\ unit' = IF unit = "absent" THEN "written" ELSE unit
       \/ Fails("unit", "disk", "failed") /\ UNCHANGED unit
    /\ UNCHANGED <<hostVars, asked, bridge, remote, pkgVars>>

Enable ==
    /\ \/ Step("enable", "start") /\ unit' = "enabled" /\ UNCHANGED faults
       \/ Fails("enable", "systemd", "failed") /\ UNCHANGED unit
    /\ UNCHANGED <<hostVars, asked, bridge, remote, pkgVars>>

Started == asked' = "yes" /\ bridge' = IF RunBy("service") THEN None ELSE bridge

\* The end of services.install(), of an installation or of an uninstall that
\* puts the service back.
Restart ==
    /\ \/ op # "uninstall" /\ Step("start", "verify") /\ Started /\ UNCHANGED faults
       \/ pc = "start" /\ op = "uninstall" /\ End("failed") /\ Started /\ UNCHANGED faults
       \/ Fails("start", "systemd", "failed") /\ UNCHANGED <<asked, bridge>>
    /\ UNCHANGED <<hostVars, unit, remote, pkgVars>>

Unregister ==
    /\ RemoveService("unregister", "save")
    /\ UNCHANGED <<hostVars, remote, pkgVars>>

\* Mutant: what was disabled stays where it is.
KeepUnit ==
    /\ Step("unlink", IF op \in {"install", "update"} THEN "save" ELSE "undo")
    /\ UNCHANGED <<hostVars, svcVars, remote, pkgVars, faults>>

\* The second half of services.remove(); nobody catches its OSError.
Unlink ==
    /\ \/ /\ Step("unlink", IF op \in {"install", "update"} THEN "save" ELSE "undo")
          /\ unit' = "absent" /\ UNCHANGED faults
       \/ Fails("unlink", "disk", "interrupted") /\ UNCHANGED unit
    /\ UNCHANGED <<hostVars, asked, bridge, remote, pkgVars>>

Save ==
    /\ \/ Step("save", "verify") /\ disk' = [service |-> FALSE, alias |-> tgt] /\ UNCHANGED faults
       \/ Fails("save", "disk", "failed") /\ UNCHANGED disk
    /\ UNCHANGED <<env, svcVars, remote, pkgVars>>

\* Mutant: only a bridge that is listening is checked.
VerifyListening ==
    /\ Step("verify", "wait")
    /\ UNCHANGED <<hostVars, svcVars, remote, pkgVars, faults>>

\* Without the service, a bridge of the installer's own, unless one is listening.
Verify ==
    /\ Step("verify", "wait")
    /\ bridge' = IF svc \/ bridge # None THEN bridge ELSE Serving("install")
    /\ UNCHANGED <<hostVars, unit, asked, remote, pkgVars, faults>>

\* wait_for_tunnel: whoever answers on the port reports its tunnel, in 30 seconds.
WaitForTunnel ==
    /\ \/ bridge # None /\ Step("wait", "check") /\ UNCHANGED <<bridge, faults>>
       \/ pc = "wait" /\ bridge = None /\ ~Restarts /\ End("failed") /\ UNCHANGED <<bridge, faults>>
       \/ Fails("wait", "ssh", "failed") /\ DropTemporary
    /\ UNCHANGED <<hostVars, unit, asked, remote, pkgVars>>

\* Mutant: /healthz, which needs no token, is all that is asked.
Reaches == bridge # None /\ bridge.alias = tgt
\* `status` on the remote, through its socket: the bridge must have its tunnel to
\* this remote, and /check must accept the remote's token.
Accepted == Reaches /\ remote[tgt] # None /\ bridge.token = remote[tgt].token

CheckRemote ==
    /\ pc = "check"
    /\ \/ /\ End(IF ~Accepted THEN "failed"
                 ELSE IF op = "update" THEN "updated" ELSE "installed")
          /\ UNCHANGED faults
       \/ Fails("check", "ssh", "failed")
    /\ DropTemporary
    /\ UNCHANGED <<hostVars, unit, asked, remote, pkgVars>>

-----------------------------------------------------------------------------
(* update().                                                               *)

\* A running version that is the latest one is all there is to do.
Update(r) ==
    /\ pc = "idle" /\ op' = "update" /\ tgt' = r
    /\ \/ latest <= version /\ told' = "current" /\ UNCHANGED <<pc, asked, bridge, faults>>
       \/ latest > version /\ pc' = "upgrade" /\ told' = "none" /\ StopService
       \/ Fault("pypi") /\ told' = "failed" /\ UNCHANGED <<pc, asked, bridge>>
    /\ UNCHANGED <<hostVars, unit, remote, pkgVars, choiceVars>>

Upgrade ==
    /\ \/ Step("upgrade", "reinstall") /\ version' = latest /\ UNCHANGED faults
       \/ Fails("upgrade", "pypi", "failed") /\ UNCHANGED version
    /\ UNCHANGED <<hostVars, svcVars, remote, latest>>

\* The new version's `install <alias> --yes`.
Reinstall ==
    /\ pc = "reinstall" /\ Prepare("keep")
    /\ UNCHANGED <<op, tgt, hostVars, svcVars, remote, pkgVars, faults>>

-----------------------------------------------------------------------------
(* uninstall().                                                            *)

\* Without a manifest host.env stands in for one, and a service is assumed.
Fallback == IF env = None THEN Blank ELSE [service |-> TRUE, alias |-> env.alias]

Uninstall(kind) ==
    LET manifest == IF disk # None THEN disk ELSE Fallback IN
    /\ pc = "idle" /\ op' = kind /\ tgt' = manifest.alias
    /\ IF manifest = Blank
       THEN told' = "nothing" /\ UNCHANGED <<pc, mem>>
       ELSE told' = "none" /\ pc' = "unstop" /\ mem' = manifest
    /\ UNCHANGED <<svc, tok, hostVars, svcVars, remote, pkgVars, faults>>

\* Mutant: the service is stopped when it is removed.
LetItRun ==
    /\ Step("unstop", IF op = "uninstall" THEN "unremote" ELSE "unservice")
    /\ UNCHANGED <<hostVars, svcVars, remote, pkgVars, faults>>

\* The tunnel must be down while the remote is cleaned: the service is stopped,
\* and where none is recorded a bridge that answers is a reason to refuse.
TakeDown ==
    /\ \/ /\ mem.service \/ bridge = None
          /\ Step("unstop", IF op = "uninstall" THEN "unremote" ELSE "unservice")
          /\ IF mem.service THEN StopService ELSE UNCHANGED <<asked, bridge, faults>>
       \/ /\ pc = "unstop" /\ ~mem.service /\ bridge # None
          /\ End("refused") /\ UNCHANGED <<asked, bridge, faults>>
    /\ UNCHANGED <<hostVars, unit, remote, pkgVars>>

\* Mutant: the error is reported and the service left as it is.
UninstallRemoteOrGiveUp ==
    LET cleaned == [remote EXCEPT ![tgt] = None] IN
    /\ \/ Step("unremote", "unservice") /\ remote' = cleaned /\ UNCHANGED faults
       \/ Fails("unremote", "ssh", "failed") /\ remote' \in {remote, cleaned}
    /\ UNCHANGED <<hostVars, svcVars, pkgVars>>

\* A remote without the program counts as cleaned.  When it cannot be reached, or
\* stops answering before or after it is done, a service is put back.
UninstallRemote ==
    LET cleaned == [remote EXCEPT ![tgt] = None] IN
    /\ \/ Step("unremote", "unservice") /\ remote' = cleaned /\ UNCHANGED faults
       \/ /\ \/ mem.service /\ Fault("ssh") /\ Step("unremote", "unit")
             \/ ~mem.service /\ Fails("unremote", "ssh", "failed")
          /\ remote' \in {remote, cleaned}
    /\ UNCHANGED <<hostVars, svcVars, pkgVars>>

RemoveServices ==
    /\ RemoveService("unservice", "undo")
    /\ UNCHANGED <<hostVars, remote, pkgVars>>

\* manifest.undo(), which goes on when a file cannot be removed and says so.
Undo ==
    /\ \/ /\ pc = "undo" /\ End("uninstalled") /\ UNCHANGED faults
          /\ env' = None /\ disk' = None
       \/ /\ Fails("undo", "disk", "problems")
          /\ env' \in {env, None} /\ disk' \in {disk, None}
    /\ UNCHANGED <<svcVars, remote, pkgVars>>

-----------------------------------------------------------------------------
(* The service manager, the user, the world.                               *)

\* Restart=always: again and again, until the port is free.
ServiceStart ==
    /\ Restarts /\ bridge = None /\ bridge' = Serving("service")
    /\ UNCHANGED <<hostVars, unit, asked, remote, pkgVars, cmdVars, pc, told, faults>>

\* The user starts `serve` between commands, and ends it whenever.
ServeStart ==
    /\ pc = "idle" /\ env # None
    /\ bridge = None /\ bridge' = Serving("user")
    /\ UNCHANGED <<hostVars, unit, asked, remote, pkgVars, cmdVars, pc, told, faults>>

ServeStop ==
    /\ RunBy("user") /\ bridge' = None
    /\ UNCHANGED <<hostVars, unit, asked, remote, pkgVars, cmdVars, pc, told, faults>>

Publish ==
    /\ latest < MaxVersion /\ latest' = latest + 1
    /\ UNCHANGED <<hostVars, svcVars, remote, version, cmdVars, pc, told, faults>>

Interrupt ==
    /\ pc # "idle" /\ Fault("crash") /\ End("interrupted")
    /\ DropTemporary
    /\ UNCHANGED <<hostVars, unit, asked, remote, pkgVars>>

\* The host restarts: systemd runs what is enabled.
Reboot ==
    /\ Fault("crash")
    /\ End(IF pc = "idle" THEN told ELSE "interrupted")
    /\ bridge' = None /\ asked' = IF unit = "enabled" THEN "yes" ELSE "no"
    /\ UNCHANGED <<hostVars, unit, remote, pkgVars>>

CommandStep ==
    \/ InstallRemote \/ HostStop \/ WriteEnv \/ Record \/ WriteUnit \/ Enable \/ Restart
    \/ Unregister \/ Unlink \/ Save \/ Verify \/ WaitForTunnel \/ CheckRemote
    \/ Upgrade \/ Reinstall
    \/ TakeDown \/ UninstallRemote \/ RemoveServices \/ Undo

Next ==
    \/ \E r \in Remotes : \/ \E requested \in {"yes", "no", "keep"} : Install(r, requested)
                          \/ Update(r)
    \/ \E kind \in {"uninstall", "host-only"} : Uninstall(kind)
    \/ CommandStep
    \/ ServiceStart \/ ServeStart \/ ServeStop \/ Publish \/ Interrupt \/ Reboot

Spec == Init /\ [][Next]_vars

\* A command goes on, and the service manager starts what it was asked to.
FairSpec == Spec /\ WF_vars(CommandStep) /\ WF_vars(ServiceStart)

-----------------------------------------------------------------------------
(* Properties.                                                             *)

\* A registered service is one that `uninstall` would unregister, at every step
\* of every command and after any single failure (install.py:153, "before
\* starting, so a failure here can still be uninstalled").
Removable ==
    unit # "absent" => IF disk # None THEN disk.service ELSE env # None

\* The remote that the settings name has the token that the settings have, also
\* between the steps of a command and after one that was cut short: whatever
\* bridge starts from them, this remote is let in.
Paired ==
    env # None /\ remote[env.alias] # None => remote[env.alias].token = env.token

\* An installation or update that reports success leaves both machines agreeing
\* on remote, token and version, the service as chosen, and no bridge that runs
\* from other settings: a stale `serve` or an old service is found out.  Where the
\* service manager ignored a stop (service.py:106, 159) the service that goes on
\* may be an old release, but not another token's or another remote's.
Agreed ==
    told \in {"installed", "updated"} =>
        /\ env # None /\ env.alias = tgt
        /\ disk # None /\ disk.alias = tgt
        /\ remote[tgt] = [token |-> env.token, ver |-> version]
        /\ disk.service <=> unit = "enabled"
        /\ disk.service <=> asked = "yes"
        /\ bridge # None =>
              /\ bridge.alias = tgt /\ bridge.token = env.token
              /\ bridge.by = "service" /\ asked # "ignored" => bridge.ver = version

\* While the remote is cleaned nothing of ours keeps a tunnel to it, but for a
\* service whose stop was ignored (service.py:106) and a `serve` beside a recorded
\* service, which is not asked for (uninstall.py:80-83).
DownWhileCleaning ==
    pc = "unremote" => \/ bridge = None
                       \/ RunBy("service") /\ asked = "ignored"
                       \/ RunBy("user") /\ mem.service

\* An uninstall that reports success leaves nothing registered or written on the
\* host, nothing that will be started, and nothing on the remote its record names
\* (README.md:29).  What may run on is the user's `serve`, and a service whose stop
\* was ignored (service.py:106, 159), until it ends.
Clean ==
    told = "uninstalled" =>
        /\ env = None /\ disk = None /\ unit = "absent" /\ asked # "yes"
        /\ \/ bridge = None
           \/ RunBy("user")
           \/ RunBy("service") /\ asked = "ignored"
        /\ op = "uninstall" /\ tgt # None => remote[tgt] = None

\* "If the remote can't be reached, the service is restarted and nothing is
\* removed" (docs/ARCHITECTURE.md:108).
PutBack ==
    op = "uninstall" /\ told = "failed" /\ disk # None /\ disk.service =>
        unit = "enabled" /\ asked = "yes" /\ env # None

\* An update keeps the choice of the service that its manifest records, through
\* a stop, a new program and a reinstallation ("a reinstall or update keeps the
\* earlier choice", install.py:180).
UpdateKeepsChoice ==
    [][op = "update" /\ pc # "idle" /\ disk # None =>
           disk' # None /\ disk'.service = disk.service]_vars

\* "Set up (or repair)" (install.py:1): whatever step of whatever command the
\* failures hit, an installation after them ends verified, for any remote and
\* any choice, unless the user's own `serve` holds the port.
Repairs ==
    pc = "remote" /\ faults = MaxFaults /\ ~RunBy("user") ~> told \in {"installed", "updated"}

-----------------------------------------------------------------------------
(* What documents say and the commands do not do.                          *)

\* "Uninstalls without a trace ... on both machines" (README.md:29), and a record
\* that installations "merge into ... never shrink" (docs/ARCHITECTURE.md:106):
\* after an uninstall no remote has an installation left.
NoRemoteForgotten ==
    told = "uninstalled" /\ op = "uninstall" => \A r \in Remotes : remote[r] = None

\* "upgrade the package, update the remote, restart the service" (README.md:85):
\* an update that ends well leaves the remote on the host's version and a chosen
\* service running.
UpdateComplete ==
    told \in {"updated", "current"} /\ remote[tgt] # None =>
        /\ remote[tgt].ver = version
        /\ disk # None /\ disk.service => asked = "yes"
=============================================================================
