# A verification project for remote-code-bridge

`remote-code-bridge` lets `code .` on a Linux remote open VS Code on the user's own
machine (the host). This directory holds TLA+ modules that model its concurrent and
failure-prone parts, TLC configurations that check them on small instances, and proofs
that TLAPS checks for every instance. Paths below are those of the repository.

Run a check with `tlc -workers 2 -config MCTunnelLinux.cfg MCTunnel`, a proof with
`tlapm TunnelProofs.tla`. `PROJECT.json` lists the components, the runs, the mutants (one
plausible bug for each property, which the property's run finds), where each definition
comes from in the source, the hazards, the findings and the theorems.

## The system

```
remote: code .  -> client.py -> socket on the remote -> ssh -R -> server.py -> protocol.py -> VS Code
                                                         |            host service
                                        tunnel.py (supervisor) -------+
installation: install.py (host) -> ssh.py -> remote_setup.py (remote) -> manifest.json
                 |-> sshconfig.py, config.py, files.py, service.py, manifest.json (host)
```

| Component | State it keeps | Operations | Hard behaviour | What makes it correct |
|---|---|---|---|---|
| tunnel supervisor, `tunnel.py`, with `serve()` of `server.py` | event, child, status, delay; `tunnel.pid`; the ssh process; the socket file on the remote | start (kill the orphan), one attempt (PREP, CONNECT, wait), back off, stop | two threads and several processes; crashes, a stop at any point of an attempt, stale files, orphans, timeouts | one supervisor and one tunnel, a clean stop, recovery by itself, the delay law |
| bridge server, `server.py` | three semaphores, connections | admit, turn away, handle, refuse, end | a burst, clients that give up, threads that do not start, a stop | permits balance, no connection is held for ever |
| launcher and request checks, `protocol.py` | slots | decide, launch, reap | a launch that fails half way | an answer tells the truth |
| remote client, `client.py` | none | one call | its timeout races the answer | |
| HTTP reading, `httpio.py` | a buffer and a deadline | read head, body or reply | data in any chunks, limits, a slow sender | the outcome depends on the bytes only, ends by the deadline |
| remote installer, `remote_setup.py` | files on the remote, the manifest in memory | install | interrupted anywhere, repeated with other settings | everything it makes can be taken away |
| manifest, `manifest.py` | `manifest.json` | load, record, save, undo | merged records, shared directories | nothing of ours left, nothing of the user's lost |
| uninstall, `uninstall.py` | none of its own | stop, uninstall the remote over ssh, undo | half-done remotes, retries, no manifest | as above |
| host installer, `install.py`; update, `update.py`; service, `service.py` | `host.env`, the host's manifest, the registered service | install, update, register, remove | failures between steps on two machines, a service manager and a user that start bridges meanwhile | what is registered can be removed, what is reported is so, both sides agree on the token, an installation repairs |
| ssh calls, `ssh.py` | none | run with a timeout | a command given up on may still run | |
| SSH config discovery, `sshconfig.py` | aliases and files seen | read, include | files included twice, in circles, too deep | every alias, no unsafe file, in order |
| config, `config.py`; files, `files.py` | none | pure algorithms over text | keys given twice, empty or invalid, environment overrides, blocks | keeps what is good, leaves other lines alone |
| bundle, log, command line | none | input and output | | |

How they interact: `serve()` binds the port, then starts the supervisor thread; a request
goes from the client through the remote's socket file, the ssh process and the port to a
handler thread, which asks the launcher for a slot. Every process that runs the bridge on a
host shares the port, the pid file and the process table, and all hosts share the socket file
on the remote. Installation and uninstallation run on the remote while the host's tunnel may be
creating the socket's directory there.

## The modules

### Tunnel.tla: the supervisor and the life of the service

An instance `i` of `Inst` is one process that runs the bridge (the service, `serve` in a
terminal, or the installer's `temporary_bridge`). `main[i]` is where its main thread is in
`serve()`, `start()` and `stop()`, `sup[i]` where the supervisor is in `run()` and
`_attempt()`. `shared[i]` is `_child`, `mine[i]` the local `child`: they differ between
`Popen` and the lock at line 159, which is where a stop or a crash hurts. Processes have a
status, a parent and a SIGTERM flag; a dead child keeps its pid until its parent polls it, as
`poll()` and `wait()` do, and free pids are reused. `pidfile`, `port` and `sock` are what
outlives a process: `Vanish` clears everything else, and sends SIGTERM to the children where
the kernel does (`DieWithParent`, Linux).

| Code | Actions |
|---|---|
| `serve()`, `kill_orphan()`, `stop()`, `_terminate()` in the main thread | `Bind`, `ReadPidFile`, `KillOrphan`, `Shutdown`, `StopChild`, `ChildStopped`, `KillChild`, `Join`, `JoinTimeout`, `Close`, `Exit` |
| `run()` | `Loop`, `After`, `Wake` |
| `_attempt()`, `_write_pid()`, `_remove_pid()`, `_terminate()` in the supervisor | `PrepOk`, `PrepFails`, `PrepRaises`, `Popen`, `PopenFails`, `Register`, `WritePid`, `Reap`, `SeeStop`, `GiveUp`, `DeclareUp`, `Drop`, `RemovePid` |
| a killed service | `Crash` |
| time, ssh, sshd and the remote shell (external, as the code uses them) | `Age`, `PrepRuns`, `LatePrepRuns`, `Connect`, `Disconnect`, `Terminated` |

Everything that goes wrong spends one of `MaxFaults`, and `Faults` names the kinds a run
allows. Two details of the code are in the model because they decide outcomes: `_terminate`
does not wait after `kill()`, so `RemovePid` ends the thread with an exception when the child
was never collected (`child.returncode >= 2**31` with `None`); and `ssh.run` raises when ssh
cannot be started, which only CONNECT catches.

`MCTunnel.tla` adds the symmetry of instances and pids. `MCTunnelBackoff.tla` adds two history
variables, the number of attempts since the delay was reset and whether one was refused, for
the law of the delay.

Simplified: an uptime is one of three classes (below `UP_AFTER`, below `STABLE_AFTER`, above);
the ±20 % of a sleep and the delays' seconds are not times; at most one abandoned PREP is in
flight, and without the fault `late` it never runs; a pid file that is not a number counts as
none; the pid file is written in one step; the thread that reads ssh's messages cannot fail;
processes that are not the bridge's do not exist, so a pid reused by a foreign ssh does not.

### Bridge.tla: the server, the launcher, the client

`conn[c]` is where the server is with a connection, from the listen backlog through `turning` (the
main thread answers 503) or `waiting`, `reading`, `launching`, `popen`, `reply` to `done`;
`dropped` is a connection whose thread did not start. `admitted`, `active` and `slots` are the
free permits of `_admitted`, `_active` and the launcher's semaphore, `client[c]` what the client
knows, `child[c]` the VS Code started for it; `child[c] = "raised"` means that `Popen` raised an
exception that `launch()` does not catch (`LaunchRaises`): no answer, and the slot stays taken. A
request is `open`, `other` or `stall` by what `handle_request` would do with it.
`process_request`, `process_request_thread`, `_busy`, `handle`, `launch`, `_reap` and the client's
`call` are taken apart at every point where another thread, the client's timeout or a failure can
come in between. The kernel's listen backlog has no bound in the model.

### HttpReading.tla: a request out of chunks

`sent` is what the peer sends before it ends its side, `arrived` how much of it `recv()` has
returned (at most `Chunk` at a time), `taken` how much the reader has taken: the buffer is what is
between the two. `pc` is the step of `read_request()` (`start`, `header`, `body`) or of `call()`
(`reply`), or the outcome. Bytes are distinguished where lengths need it (`\r` is stripped, the
start line is counted in characters); what a line says is data that its newline carries, so a
header is `Content-Length` with some value, another one, or has no colon.

| Code | Actions |
|---|---|
| `_fill()` | `Fill`, `EndOfStream`, `GiveUp` (the deadline, a lost connection) |
| `readline()`, `read_head()` | `LineTooLong`, `ReadStart`, `RefuseHeader`, `ReadHeader`, `EndHead` |
| `read_body()`, `read_exactly()` | `EndHead` (its checks), `ReadBody` |
| `read_to_end()` | `Fill` (its limit), `EndOfStream` |

`IsRequest` is a reference that has no reader: which stretch of bytes is a head, what its first
line and its last `Content-Length` say, and whether that is a request to carry out. The end of a
reply's head and its JSON are looked for after the reading and are not modelled.

### RemoteSide.tla: what is on the remote

The file system is the set of the paths that exist, with the directories above each path. The
manifest that an installation fills in memory (`mem`) and the one on disk (`disk`) are
different records: it is saved once, at the end. Each change of `_install`, of `undo` and of
`choose_socket` is an action; between any two the process may end (`Crash`), the tunnel's PREP
may create the socket's directory (`Prep`), and the user may write a program, a settings file,
a command named `code` (only between commands) or lines of a startup file. The initial states
are all the ways the shared directories and startup files may already be there. The text of a
startup file is reduced to whether our block and whether lines of the user's are in it;
`$XDG_RUNTIME_DIR` and `/tmp` are one directory outside the home.

`tunnel` says where each bridge of the host has its socket: the service, a `serve` in a terminal,
which keeps the settings it has read (`ServeStart`, `ServeStop`), and a PREP that was on its way
when its bridge ended; `known` whether the host's manifest names this remote, and a service.
`StopBridges` is what an uninstall does about them: the recorded service is stopped, which the
service manager may not do (fault `nostop`), a `serve` beside it is not looked for, and where no
service is recorded the uninstall refuses while a bridge answers. What goes on all the same sets
the history variable `exposed`. Without a manifest an uninstall takes any symlink called `code`
for ours (`Fallback`). Uninstalling by hand on the remote is modelled where the host does not know
the remote; by hand while a host that knows it keeps its tunnel up is not.

### Lifecycle.tla: the commands of the host

One command runs at a time: `op` is which, `pc` its next step, `tgt`, `svc`, `tok`, `mem` what it
holds in memory (the alias, the service choice, the token, the manifest), `told` how the last one
ended. `env` and `disk` are `host.env` and the host's manifest (reduced to `service` and
`remote_alias`, which decide everything), `unit` what the service manager has registered and
`asked` what was last asked of it and whether it was done (`"ignored"` is a stop that failed and
that nobody heard of), `bridge` the process that holds the port with the settings *it* read when
it started, `remote[r]` the token and version installed on each remote, `version` and `latest` the
packages.

| Code | Actions |
|---|---|
| `install()` | `Install`, `InstallRemote`, `HostStop`, `WriteEnv`, `Record`, `Unregister`, `Save`, `Verify`, `WaitForTunnel`, `CheckRemote` |
| `ServiceManager.install()` (systemd) | `WriteUnit`, `Enable`, `Restart` |
| `update()` | `Update`, `Upgrade`, `Reinstall` |
| `uninstall()` | `Uninstall`, `TakeDown`, `UninstallRemote`, `RemoveServices`, `Undo`, and the three of the service to put it back |
| `ServiceManager.stop()`, `remove()` (systemd) | `StopService` in `HostStop`, `Update` and `TakeDown`; `RemoveService` in `Unregister` and `RemoveServices`, then `Unlink` |
| systemd, the user, PyPI, the host (external) | `ServiceStart`, `ServeStart`, `ServeStop`, `Publish`, `Reboot`; Ctrl-C is `Interrupt` |

Every step that can fail has the failing outcome beside the good one, and a command over ssh can
have done its work before it fails. `stop()` and `remove()` ignore what `systemctl` returns
(`service.py:106, 159`): the process then goes on, systemd may still restart it, and a
`disable --now` may have been carried out in part; the cause may last as long as the command
(`StillIgnored`). The `unlink` after it may raise an `OSError` that nothing catches. The remote is a
summary of RemoteSide and the tunnel a summary of Tunnel: a bridge reaches the remote of the alias it started with. Assumed: Linux with systemd
(macOS and Windows differ in the commands, not in the order; on Windows `schtasks /End` leaves the
ssh, which is Tunnel's business), `systemctl` exists (otherwise `service.py:29` raises also in
`stop()`, which says it never fails), one command at a time, a `serve` that is started between
commands, `TUNNEL` on, no settings in the environment, and a random token differs from those in
use (`Fresh`; tokens are only compared).

### Discovery.tla, HostText.tla, HostSetup.tla: from the SSH configuration to the settings

`Discovery` reads a set of files that include each other, with a stack for the recursion of
`read()`; a line is a host, an include, a line to refuse or a marker of version 1. `HostText` has
the text algorithms as operators: `ReadValues`, `UpdateEnvText`, `Lookup`, `ReadHostConfig` and
`ReplaceBlock`, a value being the words between its commas. `Ports` are the spellings of a port
that `int()` takes for one (`config.py:110`), `Digits` those of them that `isdigit()` takes too
(`install.py:116`): `+9000` is in the first only. `HostSetup` puts them together as
`install()` does: discovery, the choice of the remote over everything the aliases may answer
(`ChooseNamed`, `ChooseFound`), the settings (`Configure`), the block of version 1
(`RemoveLeftovers`). `Environments` are those a bridge may be started in later; they do not set
what the remote was given (`BIND`, `TOKEN`, the hosts). The three phases do not share data that
could interfere, so `HandOver` and `Configure` forget what the next phase does not read: this
keeps 11,000 configurations, all answers and all texts in one run. The order of the steps around
them is Lifecycle's.

### TunnelSpec.tla, LaunchSpec.tla: what is promised

`TunnelSpec` is one holder of the port and the tunnels, each with the process that dialled it: a
process takes the free port, only the holder dials, and only when no tunnel is meant to stay,
tunnels end, the holder goes and takes its tunnel with it. `LaunchSpec` is the promise to a `code`
command: at most one launch for a request, at most `MaxChildren` at a time, and an answer that
agrees with what was and will be done. Tunnel and Bridge state the refinement (`Promise`, an `INSTANCE` of it,
and `KeepsPromise`) at their end; a tunnel counts there while it runs and was not told
to end, a request by what its client has learnt.

## The runs

| Run | Instance | What it shows |
|---|---|---|
| `tunnel_linux` | 2 processes, 3 pids, 3 faults of 6 kinds, ssh dies with its service | `TypeOK`, `OneSupervisor`, `OneTunnel`, `CleanStop`, `KeepsPromise` |
| `tunnel_heals` | 1 process that may be killed and restarted, 3 pids, 2 faults, ssh outlives its service | `Recorded`, `Heals`, `StopCompletes` |
| `tunnel_backoff` | 1 process, 6 faults, delays 1 to 6 | `BackoffLaw` |
| `bridge` | 3 connections, 1 active, 1 waiting, 1 launch, 1 fault, any request may make `Popen` raise | `TypeOK`, `PermitsAccounted`, `ToldTheTruth`, `EveryConnectionEnds`, `KeepsPromise` |
| `remote_side` | 2 installations with any shell and socket directory, uninstallations, a service that may not be stopped, 1 interruption or 1 `serve` | `TypeOK`, `NoTrace`, `UserKept`, `RecordGrows` |
| `lifecycle` | 2 remotes, 2 releases, any commands, 1 fault of 5 kinds | `TypeOK`, `Removable`, `Paired`, `Agreed`, `DownWhileCleaning`, `Clean`, `PutBack`, `UpdateKeepsChoice`, `Repairs` |
| `host_setup` | 4 files, 3 aliases, 2 machines, texts of up to 3 lines, three environments; limits 2 deep, 3 files, 2 aliases | `TypeOK`, `FoundAll`, `InFileOrder`, `Justified`, `NeverGuesses`, `KeepsSettings`, `LetsIn`, `KeepsLines`, `KeepsConfig` |
| `http_reading` | 8,900 streams (every kind of start line, header, pair of headers and end, cut short anywhere), lines of 4, heads of 4, bodies of 2, chunks of 1 to 3 | `TypeOK`, `ReadsRight`, `NeverWaitsInVain` |
| `tunnel_late_prep`, `remote_retry`, `lifecycle_forgotten`, `lifecycle_update` | the smallest instance that shows it | one finding each, below |

Why the bounds are enough. Two processes are needed for everything the port excludes, and a third
would only wait for it; three pids let an orphan, a dead child that nobody has collected and a new
ssh exist together. Three faults combine a crash with a failure before and after it. The delay
needs faults enough to reach its cap from its start and to be reset in between: 1, 2, 4, 6 with a
cap that is not a power of two. Three connections exceed what the server admits by one, so that
every way out of the server is taken while another connection waits for it; the capacities are
small so that each of the three limits is reached, and the proofs cover every other number. Two
installations are what merging needs, and the second also follows an uninstallation. Two remotes
are what forgetting needs, two releases an update that is repeated. One fault in `lifecycle` is
"any single failure" at any step of any command, before, during and after any others: some of its
properties are about just that (with two, a manifest that could not be written and then a remote
out of reach, `Removable`, `Clean`, `Agreed` and `PutBack` fail; these four and
`DownWhileCleaning` are proved until a second failure, `TypeOK`, `Paired` and `UpdateKeepsChoice`
under any number). Fault `systemd` there includes a stop or `disable --now` that is ignored. In
`remote_side`, `MaxTroubles` bounds the interruptions and the `serve`s together: one of either, with
a service manager that may ignore any number of stops; the proofs cover every other number. The
ports of `host_setup` are one of digits, one with a sign and one that is no port. The limits of
discovery and of reading are small so that every one of them is reached and passed by one; a chunk
may hold the end of one line and the beginning of the next, and is shorter than a request.
`CHECK_DEADLOCK FALSE` is set where the modelled world really may stop: all connections made and
ended, no installations left, a request read.

Fairness (`Fairness` of Tunnel, `FairSpec` of Bridge and Lifecycle) is weak and only on what the
machine does by itself: threads run, sleeps, waits and deadlines end, a process that got SIGTERM
and an ssh that connects come to an end of it, the remote runs a PREP that was sent, a launched
command ends (the `code` command returns at once), a command that was started goes on, and the
service manager starts what it was asked to (`Restart=always`). Nothing obliges a user to start or
stop a bridge or a command or to give up, a fault to happen, or an abandoned PREP to run. An ssh
that ignores SIGTERM does so through `KillChild` or `GiveUp`, each a fault.

## The properties

- `OneSupervisor`: the port is the lock of the tunnel. It depends on the order of
  `tunnel.stop()` and `server_close()`, and allows exactly the exception the code has: a
  supervisor that outlived `join(timeout=10)` in a process about to exit (two processes with such
  a timeout are left to theorem `OneSupervisorAtATime`; `tunnel_heals` has the timeout in one).
- `OneTunnel`: "exactly one reverse tunnel". Orphans are counted until they are told to end.
- `CleanStop`: a stop leaves no ssh and no pid file, also when the event is set between `Popen`
  and `_child`.
- `Recorded`: what `kill_orphan` needs is there whenever the supervisor waits.
- `Heals`: after the faults a served bridge ends with the tunnel it reports, on the socket.
- `StopCompletes`: `stop()` ends, whatever the supervisor is doing.
- `BackoffLaw`: every sleep lasts `MinDelay`, doubled once for each of the attempts since the last
  reset (`Doublings`), up to `MaxDelay`, or `MaxDelay` after a refused login.
- `PermitsAccounted`: the free permits, the connections, handlers and launches that hold one, and
  the permits lost on three paths always add up to the capacity. The three are a thread of a
  connection or of a launch that does not start and a `Popen` that raises what is no `OSError`; no
  other path loses a permit or gives one back twice, also none of the timeouts and failures.
- `ToldTheTruth`: ok means launched; an error means not launched, then or later. A client that
  gave up has been told nothing: its request may still be carried out.
- `EveryConnectionEnds`: neither a stalled client nor a full server holds a connection.
- `ReadsRight`: what is made of a request depends on its bytes and not on the chunks they come in.
  One that is handed on is what was sent, one that is refused is none to carry out; the same for a
  reply and its limit.
- `NeverWaitsInVain`: the server never waits for more when it has a request, whose client would
  wait for the answer with its connection open.
- `NoTrace`: an uninstall that ran to its end leaves nothing of ours; where a bridge or a PREP was
  at work during an uninstall, at most the directories that PREP makes. It is about histories
  without an interruption.
- `UserKept`: nothing of the user's is lost; after an interruption at most a command `code` that the
  user made.
- `RecordGrows`: no installation shrinks the record.
- `KeepsPromise` of Tunnel and of Bridge: every step of the detailed module is one that
  TunnelSpec, or LaunchSpec, allows. It says more than the invariants: a tunnel is dialled only
  by the holder of the port, an answer is never taken back or contradicted later.
- `Removable`: a registered service is one the next `uninstall` unregisters, at every step.
- `Paired`: the remote of the settings has their token, at every step.
- `Agreed`: success means that both machines agree, and that no bridge with other settings
  (an older `serve`, a service on the old version) answered the check in place of the new one.
  Where the service manager ignored a stop, the process that goes on may be an old release; its
  remote and token are right even then.
- `DownWhileCleaning`: no bridge runs while the remote is cleaned, but for a service whose stop was
  ignored and a `serve` beside a recorded service, which is not looked for.
- `Clean`: what the success of an uninstall means: nothing written, registered or to be started,
  on the remote of the record nothing either; what may run on is a `serve` of the user's and a
  service whose stop was ignored.
- `PutBack`: what a remote out of reach leaves.
- `UpdateKeepsChoice`: no step of an update changes the recorded choice of the service.
- `Repairs`: whatever failed at whatever step, an installation that starts after it ends well.
- `FoundAll`, `InFileOrder`, `Justified`: a reading that ends well has found every alias of every
  included file, none of them unsafe, in the order of the text; one that does not has a reason.
  The references do not read: a closure of includes, and for the order the places of an alias in
  the text with every include replaced by the file (`Places`), also where files include each other
  in a circle.
- `NeverGuesses`: a remote nobody picked is the only machine there was, and exactly its aliases
  are let in.
- `KeepsSettings`: what the bridge read before it reads again, in every environment, but for a port
  of the file that is not digits alone, which becomes the default.
- `LetsIn`, `KeepsLines`: a bridge can start from what is written and lets the remote in, and the
  user's lines stay.
- `KeepsConfig`: the step that removes the block of version 1 leaves every line outside it, where
  every block has its end.

## Findings

1. `tunnel_late_prep`: a PREP given up on after 30 s can run later and unlink the socket of the
   tunnel that was made after it. ssh stays alive, so the state stays `up` without a way in.
2. `remote_retry`: an uninstall of the remote that was cut short after it removed the program
   counts as done when it is repeated (`uninstall.py:114`).
3. `lifecycle_forgotten`: installing for a second remote replaces `remote_alias`
   (`install.py:127`); the uninstall cleans the second only and reports success.
4. `lifecycle_update`: after an update whose reinstallation failed, the package is the latest
   one, so an update that is run again says so and succeeds (`update.py:80`), with the remote on
   the old version and the service stopped.

Known disagreements without a run of their own:

- A service killed between `Popen` and `_write_pid` leaves an ssh no later start can find, where
  ssh does not die with it (Windows, macOS), against `docs/ARCHITECTURE.md:38`. `OneTunnel` and
  theorem `OneTunnelOnLinux` need `DieWithParent` for this reason.
- When ssh cannot be started for PREP, `ssh.run` raises (`ssh.py:75-78`), nothing catches it and the
  supervisor thread is gone for good (`tunnel.py:142`), while the same failure of CONNECT is
  retried (`tunnel.py:157`), against "Heals itself" (`README.md:24`). `Heals` fails with the fault
  `noexec` and is checked without it.
- A permit of `_admitted` is taken before the thread that returns it exists
  (`server.py:40-43`): when that thread cannot start, a later connection is turned away although
  fewer than `server.py:20` says wait. `PermitsAccounted` counts these permits.
- `launch()` catches `OSError` only (`protocol.py:78`). A path with a lone surrogate passes the checks
  (`protocol.py:150-162`), and where the path cannot be encoded for the new process `Popen` raises
  `UnicodeEncodeError`: the slot of `protocol.py:66` is not given back and the connection is closed
  without an answer. `LaunchRaises` is this step, and `PermitsAccounted` counts the slot as lost.
- The remote's manifest is saved after the changes and not before them (`remote_setup.py:122`,
  `manifest.py:14` says before), so an installation that is killed is never undone completely.
  `NoTrace` excepts it.
- A command `code` of the user's can be lost after one interruption. An installation is cut short
  between the program and `code` (`remote_setup.py:106-109`), the user then makes a symlink `code`,
  and an uninstall without a manifest takes it for ours (`uninstall.py:35-36`). With two
  interruptions also one that is a file: an uninstall that was cut short leaves a record that names
  `code`, and `undo` does not look whose it is (`manifest.py:142-149`). `UserKept` excepts it.
- "Stop the tunnel first: it re-creates the socket's directory" (`uninstall.py:79`) is what the code
  does only for the recorded service (`uninstall.py:80-83`). A `serve` beside it, a PREP already on
  its way and a service whose stop failed go on, and can make the directory again after an
  uninstall that ran to its end, against "Uninstalls without a trace" (`README.md:29`).
  `DownWhileCleaning` names the first and the last, `NoTrace` what remains.
- `stop()` and `remove()` do not look at what `systemctl` returns (`service.py:106, 159`). When it
  fails, `uninstall` and `install --no-service` report success with the old process running, until
  it ends; `Agreed`, `DownWhileCleaning` and `Clean` say what holds then. The `unlink` of
  `service.py:165-167` may also raise, although `remove()` says that it never fails, and ends the
  command with a traceback (`Unlink`).
- Putting a service back after an uninstall without a manifest (`uninstall.py:41, 89`) registers
  a service that no manifest names; an installation without the service does not unregister it
  then (`install.py:156`), and the uninstall after that leaves it. Two failures are needed.
- "Keeps your settings" (`README.md:78`): `ALLOWED_HOSTS` and `TUNNEL_ALIAS` are replaced
  (`install.py:138-141`), an empty `BIND` that the bridge accepts is refused (`install.py:117`), and
  a port such as `+9000`, on which the bridge starts (`config.py:110`), is reset to the default
  (`install.py:116`). `KeepsSettings` is about the port, the token and the two flags, and says where
  the port is reset.
- `stop()` and `remove()` say "Never fails" (`service.py:104, 156`) and raise when the service
  manager's command does not exist (`service.py:29`).
- A port in the environment moves the bridge and not the installer's question to it
  (`config.py:143`, `install.py:115, 168`).
- Two machines of the same private name behind different jump hosts are one to `identity`
  (`sshconfig.py:188`).
- A `Content-Length` that `isdigit()` takes for digits and `int()` does not (a superscript of
  latin-1) raises an exception that nothing catches (`httpio.py:104-106`, `server.py:76`): the
  client gets no answer, where the tests expect a 400 of a length that is not a number
  (`tests/test_server_client.py:146`). The model has it as outcome `raised`.
- A block without its end marker takes the rest of the file with it (`files.py:62`);
  `KeepsConfig` is about texts with their markers in turn.

## The proofs

`BridgeProofs.tla`, from `BridgeAssumption` (finitely many connections, positive capacities):
`TypeCorrect`, `PermitsAlwaysAccounted` (with the permits that the code loses on three paths
counted as lost) and `ClientsAreToldTheTruth`, for any number of connections and any capacities.
`TypeOK` is not inductive: a release could exceed its semaphore unless the permits are accounted
for. The invariant `IInv` has three parts: `Types`, the types without those upper bounds;
`Permits`, the three balances over the stages of the connections; and `Stages`, what has happened
to a connection by the stage it has reached (nothing is launched before `popen`, an answer says ok
exactly when something was, a refused client's connection is past the launch). Lemma `Local`
reduces a step to the one connection it moves: `CountChange` says how a set that gains or loses
one member grows, so each action has to show only its types, the stage of its connection, and that
it takes or returns the permits its move calls for.

Its last part proves the refinement, `ServerKeepsPromise`: `Spec => KeepsPromise`, from `IInv` and
one more invariant (`Unsent`: a connection that was never opened has a client that knows
nothing). Each action is shown to be a step of LaunchSpec or to leave its three variables alone.

`TunnelProofs.tla`, from `TunnelAssumption`: three layers, each inductive given those below.

1. `TypeOK` (theorem `TypeCorrect`), under all faults.
2. `Lock`: between bind and close the process has the port, and before `start()` it has no
   supervisor. It gives `OneSupervisorAtATime`, under all faults.
3. `Care`, when no supervisor outlives its `join` (`"slow" \notin Faults`): `Joined` (a closing
   process has no running supervisor), `Children` (an ssh that lives is the one its supervisor
   deals with), `PidFile` (the file is empty or names that ssh, and `kill_orphan` acts on the
   file as it is), `Orphans` (on Linux an ssh without its service has been told to end). It gives
   `StopsClean`, `OneTunnelOnLinux` (with `DieWithParent`) and, with a pid file that can be
   written (`"disk" \notin Faults`), `AlwaysRecorded`.

The assumptions are not decoration: without them the code does not have the properties. With
`slow` a supervisor can start an ssh after `stop()` has returned, without `DieWithParent` the
first of the known disagreements contradicts `OneTunnel`, and with `disk` the file may be missing.

The last part of `TunnelProofs.tla` proves `TunnelKeepsPromise` where no supervisor outlives its
`join` and ssh dies with its service. Lemma `Kept` is the heart: a tunnel that is meant to stay is
that of the process which has the port. So `Popen` finds none (its supervisor would be dealing
with it), and a process that vanishes takes all there are with it.

`BackoffProofs.tla` proves the law of the delay, `BackoffKept`, for any two delays, any number of
attempts and any faults. `Doublings` is a recursive function, and that there is a function with
its equation has to be proved first: a least number without one is impossible (`LeastNumber`, from
the well-foundedness of `<`), and two that exist agree. The law speaks of a sleep; its invariant
`BInv` has the delay right at every point, because what the next sleep lasts is settled by the
attempts before it. `Lock` of `TunnelProofs` tells that a process that starts has no supervisor yet.

`HttpProofs.tla`, from `HttpAssumption` (bytes of different kinds are different, a value is a
number or is not, limits are positive): `BufferBounded`, `ChunksDoNotMatter` and `NoDeadWait`, for
every stream, however it is cut, and all limits. The reference looks at all lines of a stream at
once, the reader at one after the other. They meet in `NextLine`: the line the buffer shows is the
next one of the stream, and no line of the stream lies across it. The invariant `HInv` says what
the lines taken so far were (`LinesRead`), that `declared` is the last length among them
(`LastLength`) and that `total` counts their characters, which needs what a further line adds
(`MoreCharacters`). A refusal is right because every request the stream may begin with would have
the refused line in its head.

`LifecycleProofs.tla`, from `LifecycleAssumption` (more tokens than can be in use): `TypeCorrect`,
`RemoteStaysPaired` and `UpdatesKeepTheChoice`, for any number of remotes, releases and failures.
The invariant says what a command knows at each of its steps: `Aimed` (it has a remote), `Keeping`
(its token is that of the settings, and from `InstallRemote` on that of the remote too), `Written`
(from `WriteEnv` on there are settings) and `Chosen` (the choice it holds is the recorded one).
`FreshIsAToken` counts the tokens in use. Each action preserves each part.

The second part of `LifecycleProofs.tla` goes on from there with what one failure can do:
`Removable`, `DownWhileCleaning`, `Agreed`, `Clean` and `PutBack`, for any number of remotes and
releases, at every step until a second failure (`faults <= 1 => ...`, with any `MaxFaults`, so
nothing is said about what happens after it). None of the five is inductive. `Order` (under any
failures) says which process runs what and that the manifest in memory is the one on disk;
`Single`, that until a failure settings and manifest come and go together, and that one failure is
not enough to register a service that no manifest names; `Done`, what a command has achieved by
each of its steps, from which success means what it says. A stop that the service manager ignores
is such a failure, and the theorems cover it: what `Agreed`, `DownWhileCleaning` and `Clean` leave
open is what the code then does. The service manager, the user, a reboot and a new release step in
between at every point, which is most of the work.

`RemoteSideProofs.tla` proves for any number of installations what `remote_side` checks for two.
Five layers, each inductive given those before it:

1. `Base`, under any number of crashes: what a record may claim. A directory is `created` only
   where it was not the user's, a startup file only where it did not exist, and a record that is
   filled contains the one on disk (`Merged`). Nothing of the user's goes, a command `code` perhaps
   excepted. It gives `TypeCorrect` and `RecordNeverShrinks`.
2. `Tree`: the directories above whatever exists exist.
3. `Bridged`, while nothing has crashed: a bridge of the host, or a PREP on its way, has its socket
   in a directory of the record in force (on disk, or in memory
   during an installation), unless `exposed` says otherwise, and so has the host's
   settings.
4. `Trace`, while nothing has crashed: what was made is in the record on disk or in memory, and
   an uninstall has taken away what it has passed, but for what an exposed PREP made since. It gives
   `UninstallLeavesNothing`. `NoTrace` speaks of histories without crashes only, because an
   installation that is killed saves no record (see the disagreements).
5. `Code`, while nothing has crashed: the `code` that an uninstall unlinks is ours. With `Base` it
   gives `UserFilesStay`: for any number of crashes nothing disappears but, at most, a command
   `code`.

`HostSetupProofs.tla` is about the inputs of an installation: every set of files that include each
other in any shape with any limits, any machines, aliases and answers, every `host.env`.

- `EverythingIsFound` and `RefusalsAreJustified`. The invariant `Reader` relates the depth-first
  reader to `Reachable`, the smallest set of files that has the main file and all they include. No
  line of an opened file is lost: it is dealt with or still on the stack (`Remembered`), so that
  with an empty stack the files seen are closed under includes (`SeenAll`). The open files are a
  chain of different files that include each other (`Chain`), which is what "too deep" means.
- `NoGuessing`: of the aliases of one machine the first stands for it, so where only one is
  offered every other one that runs Linux is the same machine (`OnlyChoice`, with `Least`: there
  is a first).
- `SettingsKept`, `RemoteIsLetIn`, `LinesKept`, `HostTypes`. `Shape` says what the new text is: the
  lines that stay, then one line for each key. So the last line of a key is the installer's
  (`ReadBack`), and the lines of the user's are those in front (`PickFirst`). `WrittenConfig` is
  what a bridge makes of it in an environment.
- `ConfigKept`: `Inside` follows the loop of `replace_block` line by line, the property counts
  markers. That they agree for a text of any length is the absence of a least line at which they
  do not.

`DiscoveryOrder.tla` adds `AliasesInFileOrder`. The stack of the reader is a place in the text that
has all includes written out, a path of files and lines (`Path`), and places are compared as such
paths are. The invariant `OInv` says that the aliases found are those with a place before the
reader's, and in that order. The hard step is an include that is passed over because the file was
read before: every alias it would lead to has an earlier place already, also when the file is one
of those that are still open.

The assumptions of the two modules (`DiscoveryAssumption`, `HostSetupAssumption`) say that texts
are sequences, that a generated token is a valid one, that it occurs in no `host.env`, that digits
spell a port (`Digits \subseteq Ports`, the default among them), and that the environments set
only `PORT`, to a port that `int()` takes, `CODE_BIN`, `DRY_RUN` and `TUNNEL`: an environment with
another token would of course keep the remote out. `Pick` selects lines by position because the
provers know nothing of `SelectSeq`.

Model-checked only: the liveness properties `Heals`, `StopCompletes`, `EveryConnectionEnds` and
`Repairs`, which are out of the prover's reach; only they rest on the fairness above, and no proof
uses it. Every other property of a passing run is a theorem. Where a proof needs induction, over
lines or over attempts, it is by a least counterexample.

## Not modelled, and the plan

Done: the tunnel, the server with its launcher and client, the reading of requests, the remote's
installation, the life of the host's side, discovery and settings, two abstract specifications with
their refinements. Left:

1. Pure operators against reference definitions: the request decision of `protocol.py` and the
   argument parser of `client.py`.
2. launchd and schtasks, whose bridges leave an ssh behind, in Lifecycle.

Also not modelled: the thread that reads ssh's messages, a pid reused by a foreign ssh, file
encodings and permissions, `RCB_PACKAGE_SPEC`, the helper script of Windows. Not planned: building
the zip file, logging, option parsing of the command line, the texts of service definitions (input
and output without state).
