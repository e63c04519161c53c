------------------------------- MODULE Tunnel -------------------------------
(***************************************************************************)
(* The reverse tunnel of the host service (remote_code_bridge/tunnel.py)   *)
(* with the part of serve() (server.py) that starts and stops it.          *)
(*                                                                         *)
(* An instance is one process that runs the bridge: the login service, a   *)
(* `serve` in a terminal, or the installer's temporary bridge.  It has two *)
(* threads, the main one (main[i]) and the supervisor (sup[i]).  Instances *)
(* share the port, the pid file, the process table, and the socket file on *)
(* the remote.  A process that ends leaves nothing in memory.              *)
(*                                                                         *)
(* Every action that is a fault spends one of MaxFaults, so that a run may *)
(* ask what happens once the faults are over.                              *)
(***************************************************************************)
EXTENDS Integers

CONSTANTS
    Inst,           \* processes that may run the bridge
    Pids,           \* process identifiers for ssh
    None,           \* no instance, no process, no socket file
    Stale,          \* a socket file no listener is behind
    Faults,         \* the kinds of fault that can happen
    DieWithParent,  \* TRUE on Linux: ssh gets SIGTERM when its service dies
    MinDelay, MaxDelay,
    MaxFaults       \* bound on the number of faults

FaultKinds == {"net",      \* the network or the remote ends a connection
               "noexec",   \* the ssh program cannot be started
               "disk",     \* the pid file cannot be written
               "stubborn", \* ssh ignores SIGTERM for five seconds
               "slow",     \* the supervisor outlives join(timeout=10)
               "crash",    \* the service process is killed
               "late"}     \* a PREP given up on runs on the remote later

ASSUME TunnelAssumption ==
    /\ None \notin Inst \cup Pids /\ Stale \notin Pids \cup {None}
    /\ Inst \cap Pids = {}
    /\ Faults \subseteq FaultKinds
    /\ DieWithParent \in BOOLEAN
    /\ MinDelay \in Nat /\ MaxDelay \in Nat /\ MinDelay <= MaxDelay
    /\ MaxFaults \in Nat

VARIABLES
    main, stop, held,     \* the main thread, _stop, the pid or child it deals with
    sup, shared, mine,    \* the supervisor thread, _child, its local `child`
    state, delay,         \* _status["state"] and run()'s delay
    age, auth, prep,      \* the attempt: uptime class, auth error, PREP's progress
    st, owner, term,      \* the process table: status, parent, SIGTERM received
    pidfile, port,        \* tunnel.pid, and the instance bound to the port
    sock, late,           \* the remote's socket file, and a stray PREP
    faults

mainVars == <<main, stop, held>>
supVars == <<sup, shared, mine, state, delay, age, auth, prep>>
procVars == <<st, owner, term>>
remoteVars == <<sock, late>>
vars == <<mainVars, supVars, procVars, pidfile, port, remoteVars, faults>>

MainPC == {"off", "bound", "orphan", "serving", "stopping", "killing",
           "joining", "closing", "closed"}
SupPC == {"none", "loop", "prep", "popen", "register", "writepid", "wait",
          "terminate", "drop", "rmpid", "after", "sleep", "ended", "dead"}
States == {"connecting", "up", "backoff", "auth_failed", "stopped"}

TypeOK ==
    /\ main \in [Inst -> MainPC]
    /\ stop \in [Inst -> BOOLEAN]
    /\ held \in [Inst -> Pids \cup {None}]
    /\ sup \in [Inst -> SupPC]
    /\ shared \in [Inst -> Pids \cup {None}]
    /\ mine \in [Inst -> Pids \cup {None}]
    /\ state \in [Inst -> States]
    /\ delay \in [Inst -> MinDelay..MaxDelay]
    /\ age \in [Inst -> 0..2]
    /\ auth \in [Inst -> BOOLEAN]
    /\ prep \in [Inst -> {"none", "sent", "ran"}]
    /\ st \in [Pids -> {"free", "starting", "open", "dead"}]
    /\ owner \in [Pids -> Inst \cup {None}]
    /\ term \in [Pids -> BOOLEAN]
    /\ pidfile \in Pids \cup {None}
    /\ port \in Inst \cup {None}
    /\ sock \in Pids \cup {None, Stale}
    /\ late \in BOOLEAN
    /\ faults \in 0..MaxFaults

Init ==
    /\ main = [i \in Inst |-> "off"] /\ stop = [i \in Inst |-> FALSE]
    /\ held = [i \in Inst |-> None]
    /\ sup = [i \in Inst |-> "none"]
    /\ shared = [i \in Inst |-> None] /\ mine = [i \in Inst |-> None]
    /\ state = [i \in Inst |-> "connecting"]
    /\ delay = [i \in Inst |-> MinDelay]
    /\ age = [i \in Inst |-> 0] /\ auth = [i \in Inst |-> FALSE]
    /\ prep = [i \in Inst |-> "none"]
    /\ st = [p \in Pids |-> "free"] /\ owner = [p \in Pids |-> None]
    /\ term = [p \in Pids |-> FALSE]
    /\ pidfile = None /\ port = None
    /\ sock = None /\ late = FALSE
    /\ faults = 0

-----------------------------------------------------------------------------
(* Helpers: moving a thread, spending a fault, and the life of a process.  *)

Main(i, from, to) == main[i] = from /\ main' = [main EXCEPT ![i] = to]
Sup(i, from, to) == sup[i] \in from /\ sup' = [sup EXCEPT ![i] = to]

Fault(kind) == kind \in Faults /\ faults < MaxFaults /\ faults' = faults + 1

Alive(p) == st[p] \in {"starting", "open"}
MyChild(i, p) == p # None /\ owner[p] = i
Gone(i, p) == MyChild(i, p) => st[p] = "dead"   \* what poll() and wait() see

\* SIGTERM to p, when it is there to receive it.
Signal(p) == term' = [term EXCEPT ![p] = TRUE]

\* p ends; its parent, if it has one, must still collect it.  Its end of the
\* socket file stays behind on the remote.
Die(p) ==
    /\ st' = [st EXCEPT ![p] = IF owner[p] \in Inst THEN "dead" ELSE "free"]
    /\ sock' = IF sock = p THEN Stale ELSE sock

\* poll() or wait() collects a dead child, whose pid becomes free.
Collect(i, p) ==
    IF MyChild(i, p) /\ st[p] = "dead"
    THEN /\ st' = [st EXCEPT ![p] = "free"]
         /\ owner' = [owner EXCEPT ![p] = None]
    ELSE UNCHANGED <<st, owner>>

\* Mutant: preexec_fn forgotten.
KilledWithNobody(i, p) == FALSE
\* PR_SET_PDEATHSIG, on Linux only.
KilledWith(i, p) == DieWithParent /\ owner[p] = i

\* Mutant: the delay is doubled without min().
Twice(d) == 2 * d
Doubled(d) == IF 2 * d < MaxDelay THEN 2 * d ELSE MaxDelay

\* Mutant: the delay is reset by any connection that was reported up.
ShortStable(i) == age[i] >= 1
Stable(i) == age[i] = 2

\* Mutant: PREP makes the directory and leaves the file.
PrepLeaves(file) == file
PrepEffect(file) == None

\* Process i is no more: its memory and port go, its children are orphans.
\* The ssh that runs PREP is not tied to its parent and may finish later.
Vanish(i) ==
    /\ main' = [main EXCEPT ![i] = "off"] /\ stop' = [stop EXCEPT ![i] = FALSE]
    /\ held' = [held EXCEPT ![i] = None]
    /\ sup' = [sup EXCEPT ![i] = "none"]
    /\ shared' = [shared EXCEPT ![i] = None] /\ mine' = [mine EXCEPT ![i] = None]
    /\ state' = [state EXCEPT ![i] = "connecting"]
    /\ delay' = [delay EXCEPT ![i] = MinDelay]
    /\ age' = [age EXCEPT ![i] = 0] /\ auth' = [auth EXCEPT ![i] = FALSE]
    /\ prep' = [prep EXCEPT ![i] = "none"]
    /\ late' \in (IF prep[i] = "sent" /\ "late" \in Faults
                  THEN {late, TRUE} ELSE {late})
    /\ owner' = [p \in Pids |-> IF owner[p] = i THEN None ELSE owner[p]]
    /\ st' = [p \in Pids |-> IF owner[p] = i /\ st[p] = "dead"
                             THEN "free" ELSE st[p]]
    /\ term' = [p \in Pids |-> term[p] \/ KilledWith(i, p)]
    /\ port' = IF port = i THEN None ELSE port
    /\ UNCHANGED <<pidfile, sock>>

-----------------------------------------------------------------------------
(* The main thread: serve(), start() and stop().                           *)

\* The constructor of the server binds the port; whoever holds it runs alone.
Bind(i) ==
    /\ Main(i, "off", "bound")
    /\ port = None /\ port' = i
    /\ UNCHANGED <<stop, held, supVars, procVars, pidfile, remoteVars, faults>>

\* kill_orphan reads the pid file ...
ReadPidFile(i) ==
    /\ Main(i, "bound", "orphan")
    /\ held' = [held EXCEPT ![i] = pidfile]
    /\ UNCHANGED <<stop, supVars, procVars, pidfile, port, remoteVars, faults>>

\* ... signals that process if it is an ssh, removes the file, and start()
\* goes on to start the supervisor.
KillOrphan(i) ==
    /\ Main(i, "orphan", "serving")
    /\ Sup(i, {"none"}, "loop")
    /\ held' = [held EXCEPT ![i] = None]
    /\ IF held[i] = None THEN UNCHANGED <<term, pidfile>>
       ELSE /\ IF st[held[i]] = "free" THEN UNCHANGED term ELSE Signal(held[i])
            /\ pidfile' = None
    /\ UNCHANGED <<stop, shared, mine, state, delay, age, auth, prep, st, owner,
                   port, remoteVars, faults>>

\* Mutant: the server is closed before the tunnel is stopped.
CloseFirst(i) ==
    /\ Main(i, "serving", "stopping")
    /\ stop' = [stop EXCEPT ![i] = TRUE]
    /\ port' = None
    /\ UNCHANGED <<held, supVars, procVars, pidfile, remoteVars, faults>>

\* SIGTERM or SIGINT: serve_forever() returns and stop() sets the event.
Shutdown(i) ==
    /\ Main(i, "serving", "stopping")
    /\ stop' = [stop EXCEPT ![i] = TRUE]
    /\ UNCHANGED <<held, supVars, procVars, pidfile, port, remoteVars, faults>>

\* stop() takes _child and, if there is one and it runs, terminates it.
StopChild(i) ==
    /\ main[i] = "stopping"
    /\ LET p == shared[i] IN
       IF p = None \/ Gone(i, p)
       THEN /\ Main(i, "stopping", "joining")
            /\ Collect(i, p)
            /\ UNCHANGED <<held, term>>
       ELSE /\ Main(i, "stopping", "killing")
            /\ held' = [held EXCEPT ![i] = p]
            /\ Signal(p)
            /\ UNCHANGED <<st, owner>>
    /\ UNCHANGED <<stop, supVars, pidfile, port, remoteVars, faults>>

ChildStopped(i) ==
    /\ Main(i, "killing", "joining")
    /\ Gone(i, held[i])
    /\ Collect(i, held[i])
    /\ held' = [held EXCEPT ![i] = None]
    /\ UNCHANGED <<stop, supVars, term, pidfile, port, remoteVars, faults>>

\* Five seconds passed: kill(), without waiting again.
KillChild(i) ==
    /\ Fault("stubborn")
    /\ Main(i, "killing", "joining")
    /\ ~Gone(i, held[i])
    /\ Die(held[i])
    /\ held' = [held EXCEPT ![i] = None]
    /\ UNCHANGED <<stop, supVars, owner, term, pidfile, port, late>>

Join(i) ==
    /\ Main(i, "joining", "closing")
    /\ sup[i] \in {"ended", "dead"}
    /\ UNCHANGED <<stop, held, supVars, procVars, pidfile, port, remoteVars, faults>>

JoinTimeout(i) ==
    /\ Fault("slow")
    /\ Main(i, "joining", "closing")
    /\ sup[i] \notin {"ended", "dead"}
    /\ UNCHANGED <<stop, held, supVars, procVars, pidfile, port, remoteVars>>

\* server_close() frees the port.
Close(i) ==
    /\ Main(i, "closing", "closed")
    /\ port' = IF port = i THEN None ELSE port
    /\ UNCHANGED <<stop, held, supVars, procVars, pidfile, remoteVars, faults>>

\* The interpreter exits; a supervisor still running is a daemon thread.
Exit(i) == main[i] = "closed" /\ Vanish(i) /\ UNCHANGED faults

\* The process is killed: SIGKILL, schtasks /End, a power cut of the session.
Crash(i) == main[i] # "off" /\ Fault("crash") /\ Vanish(i)

-----------------------------------------------------------------------------
(* The supervisor thread: run() and _attempt().                            *)

\* The head of the loop.  PREP is an ssh of its own that runs to completion.
Loop(i) ==
    /\ IF stop[i]
       THEN /\ Sup(i, {"loop"}, "ended")
            /\ state' = [state EXCEPT ![i] = "stopped"]
            /\ UNCHANGED prep
       ELSE /\ Sup(i, {"loop"}, "prep")
            /\ state' = [state EXCEPT ![i] = "connecting"]
            /\ prep' = [prep EXCEPT ![i] = "sent"]
    /\ UNCHANGED <<mainVars, shared, mine, delay, age, auth, procVars, pidfile,
                   port, remoteVars, faults>>

PrepOk(i) ==
    /\ Sup(i, {"prep"}, "popen")
    /\ prep[i] = "ran" /\ prep' = [prep EXCEPT ![i] = "none"]
    /\ UNCHANGED <<mainVars, shared, mine, state, delay, age, auth, procVars,
                   pidfile, port, remoteVars, faults>>

\* PREP fails or times out.  What it asked of the remote may still happen.
PrepFails(i) ==
    /\ Fault("net")
    /\ Sup(i, {"prep"}, "after")
    /\ prep' = [prep EXCEPT ![i] = "none"]
    /\ age' = [age EXCEPT ![i] = 0]
    /\ \E a \in BOOLEAN : auth' = [auth EXCEPT ![i] = a]
    /\ late' \in (IF prep[i] = "sent" /\ "late" \in Faults
                  THEN {late, TRUE} ELSE {late})
    /\ UNCHANGED <<mainVars, shared, mine, state, delay, procVars, pidfile, port, sock>>

\* ssh.run() raises when ssh cannot be started, and nothing catches it.
PrepRaises(i) ==
    /\ Fault("noexec")
    /\ Sup(i, {"prep"}, "dead")
    /\ prep[i] = "sent" /\ prep' = [prep EXCEPT ![i] = "none"]
    /\ UNCHANGED <<mainVars, shared, mine, state, delay, age, auth, procVars,
                   pidfile, port, remoteVars>>

\* Only this thread knows the child until it has told _child and the pid file.
Popen(i) ==
    /\ Sup(i, {"popen"}, "register")
    /\ \E p \in Pids :
         /\ st[p] = "free" /\ st' = [st EXCEPT ![p] = "starting"]
         /\ owner' = [owner EXCEPT ![p] = i]
         /\ term' = [term EXCEPT ![p] = FALSE]
         /\ mine' = [mine EXCEPT ![i] = p]
    /\ age' = [age EXCEPT ![i] = 0] /\ auth' = [auth EXCEPT ![i] = FALSE]
    /\ UNCHANGED <<mainVars, shared, state, delay, prep, pidfile, port, remoteVars, faults>>

PopenFails(i) ==
    /\ Fault("noexec")
    /\ Sup(i, {"popen"}, "after")
    /\ age' = [age EXCEPT ![i] = 0] /\ auth' = [auth EXCEPT ![i] = FALSE]
    /\ UNCHANGED <<mainVars, shared, mine, state, delay, prep, procVars, pidfile,
                   port, remoteVars>>

\* Mutant: the pid is not written.
NoPid(i) == pidfile

\* str(child.pid)
PidToWrite(i) == mine[i]

Register(i) ==
    /\ Sup(i, {"register"}, "writepid")
    /\ shared' = [shared EXCEPT ![i] = mine[i]]
    /\ UNCHANGED <<mainVars, mine, state, delay, age, auth, prep, procVars,
                   pidfile, port, remoteVars, faults>>

WritePid(i) ==
    /\ Sup(i, {"writepid"}, "wait")
    /\ \/ pidfile' = PidToWrite(i) /\ UNCHANGED faults
       \/ Fault("disk") /\ UNCHANGED pidfile
    /\ UNCHANGED <<mainVars, shared, mine, state, delay, age, auth, prep, procVars,
                   port, remoteVars>>

\* wait(timeout=1) returned: the child has ended.
Reap(i) ==
    /\ Sup(i, {"wait", "terminate"}, "drop")
    /\ Gone(i, mine[i]) /\ Collect(i, mine[i])
    /\ UNCHANGED <<mainVars, shared, mine, state, delay, age, auth, prep, term,
                   pidfile, port, remoteVars, faults>>

\* Mutant: the wait loop does not look at the event.
NeverStop(i) == FALSE /\ UNCHANGED vars

\* Mutant: it leaves the loop without _terminate(child).
LeaveChild(i) ==
    /\ Sup(i, {"wait"}, "drop")
    /\ stop[i] /\ ~Gone(i, mine[i])
    /\ UNCHANGED <<mainVars, shared, mine, state, delay, age, auth, prep, procVars,
                   pidfile, port, remoteVars, faults>>

\* wait(timeout=1) raised TimeoutExpired, with the event set ...
SeeStop(i) ==
    /\ Sup(i, {"wait"}, "terminate")
    /\ stop[i] /\ ~Gone(i, mine[i])
    /\ Signal(mine[i])
    /\ UNCHANGED <<mainVars, shared, mine, state, delay, age, auth, prep, st, owner,
                   pidfile, port, remoteVars, faults>>

\* ... and without it, once the child has been alive for UP_AFTER.
DeclareUp(i) ==
    /\ sup[i] = "wait" /\ ~stop[i] /\ ~Gone(i, mine[i])
    /\ age[i] >= 1 /\ state[i] # "up"
    /\ state' = [state EXCEPT ![i] = "up"]
    /\ UNCHANGED <<mainVars, sup, shared, mine, delay, age, auth, prep, procVars,
                   pidfile, port, remoteVars, faults>>

\* _terminate() gives up on SIGTERM: kill(), without waiting again.
GiveUp(i) ==
    /\ Fault("stubborn")
    /\ Sup(i, {"terminate"}, "drop")
    /\ ~Gone(i, mine[i])
    /\ Die(mine[i])
    /\ UNCHANGED <<mainVars, shared, mine, state, delay, age, auth, prep, owner, term,
                   pidfile, port, late>>

Drop(i) ==
    /\ Sup(i, {"drop"}, "rmpid")
    /\ shared' = [shared EXCEPT ![i] = None]
    /\ UNCHANGED <<mainVars, mine, state, delay, age, auth, prep, procVars, pidfile,
                   port, remoteVars, faults>>

\* The pid file goes if it is ours.  The comparison that follows raises when
\* nobody has collected the child: its returncode is None.
RemovePid(i) ==
    /\ IF MyChild(i, mine[i]) THEN Sup(i, {"rmpid"}, "dead")
                              ELSE Sup(i, {"rmpid"}, "after")
    /\ pidfile' = IF pidfile = mine[i] THEN None ELSE pidfile
    /\ mine' = [mine EXCEPT ![i] = None]
    /\ UNCHANGED <<mainVars, shared, state, delay, age, auth, prep, procVars, port,
                   remoteVars, faults>>

\* What run() does with the result of an attempt.
After(i) ==
    LET base == IF Stable(i) THEN MinDelay ELSE delay[i] IN
    /\ IF stop[i]
       THEN /\ Sup(i, {"after"}, "ended")
            /\ state' = [state EXCEPT ![i] = "stopped"]
            /\ UNCHANGED delay
       ELSE /\ Sup(i, {"after"}, "sleep")
            /\ delay' = [delay EXCEPT ![i] = IF auth[i] THEN MaxDelay ELSE base]
            /\ state' = [state EXCEPT ![i] = IF auth[i] THEN "auth_failed"
                                                        ELSE "backoff"]
    /\ UNCHANGED <<mainVars, shared, mine, age, auth, prep, procVars, pidfile, port,
                   remoteVars, faults>>

\* The sleep ends, because the time is over or because the event is set.
Wake(i) ==
    /\ IF stop[i]
       THEN /\ Sup(i, {"sleep"}, "ended")
            /\ state' = [state EXCEPT ![i] = "stopped"]
            /\ UNCHANGED delay
       ELSE /\ Sup(i, {"sleep"}, "loop")
            /\ delay' = [delay EXCEPT ![i] = Doubled(@)]
            /\ UNCHANGED state
    /\ UNCHANGED <<mainVars, shared, mine, age, auth, prep, procVars, pidfile, port,
                   remoteVars, faults>>

-----------------------------------------------------------------------------
(* Time, ssh and the remote.                                               *)

\* The child reaches the next class of uptime: UP_AFTER, then STABLE_AFTER.
Age(i) ==
    /\ sup[i] = "wait" /\ ~Gone(i, mine[i]) /\ age[i] < 2
    /\ age' = [age EXCEPT ![i] = @ + 1]
    /\ UNCHANGED <<mainVars, sup, shared, mine, state, delay, auth, prep, procVars,
                   pidfile, port, remoteVars, faults>>

\* The remote runs PREP: whatever is at the socket's path is removed.
PrepRuns(i) ==
    /\ prep[i] = "sent" /\ prep' = [prep EXCEPT ![i] = "ran"]
    /\ sock' = PrepEffect(sock)
    /\ UNCHANGED <<mainVars, sup, shared, mine, state, delay, age, auth, procVars,
                   pidfile, port, late, faults>>

LatePrepRuns ==
    /\ late /\ late' = FALSE
    /\ sock' = PrepEffect(sock)
    /\ UNCHANGED <<mainVars, supVars, procVars, pidfile, port, faults>>

\* sshd binds the socket, or refuses because there is a file at its path and
\* ExitOnForwardFailure ends the ssh.
Connect(p) ==
    /\ st[p] = "starting"
    /\ IF sock = None
       THEN st' = [st EXCEPT ![p] = "open"] /\ sock' = p
       ELSE Die(p)
    /\ UNCHANGED <<mainVars, supVars, owner, term, pidfile, port, late, faults>>

\* The connection is refused, drops, or the remote does not accept the key.
Disconnect(p) ==
    /\ Fault("net")
    /\ Alive(p) /\ Die(p)
    /\ \E a \in (IF st[p] = "starting" THEN BOOLEAN ELSE {FALSE}) :
         auth' = [i \in Inst |-> IF owner[p] = i THEN a ELSE auth[i]]
    /\ UNCHANGED <<mainVars, sup, shared, mine, state, delay, age, prep, owner, term,
                   pidfile, port, late>>

\* A process that got SIGTERM ends.
Terminated(p) ==
    /\ term[p] /\ Alive(p)
    /\ Die(p)
    /\ UNCHANGED <<mainVars, supVars, owner, term, pidfile, port, late, faults>>

-----------------------------------------------------------------------------
MainStep(i) ==
    \/ ReadPidFile(i) \/ KillOrphan(i) \/ StopChild(i) \/ ChildStopped(i)
    \/ Join(i) \/ Close(i) \/ Exit(i)

SupStep(i) ==
    \/ Loop(i) \/ PrepOk(i) \/ Popen(i) \/ Register(i) \/ WritePid(i) \/ Reap(i)
    \/ SeeStop(i) \/ DeclareUp(i) \/ Drop(i) \/ RemovePid(i) \/ After(i) \/ Wake(i)

FaultStep(i) ==
    \/ KillChild(i) \/ JoinTimeout(i) \/ Crash(i) \/ PrepFails(i) \/ PrepRaises(i)
    \/ PopenFails(i) \/ GiveUp(i)

Next ==
    \/ \E i \in Inst : \/ Bind(i) \/ Shutdown(i)
                       \/ MainStep(i) \/ SupStep(i) \/ FaultStep(i)
                       \/ Age(i) \/ PrepRuns(i)
    \/ \E p \in Pids : Connect(p) \/ Disconnect(p) \/ Terminated(p)
    \/ LatePrepRuns

Spec == Init /\ [][Next]_vars

\* Threads run, time passes, and ssh and the remote answer.  Nothing makes a
\* user stop the bridge, start it, or a stray PREP arrive.
Fairness ==
    /\ \A i \in Inst : /\ WF_vars(MainStep(i)) /\ WF_vars(SupStep(i))
                       /\ WF_vars(Age(i)) /\ WF_vars(PrepRuns(i))
    /\ \A p \in Pids : WF_vars(Connect(p)) /\ WF_vars(Terminated(p))

FairSpec == Spec /\ Fairness

-----------------------------------------------------------------------------
(* Properties.                                                             *)

Running(i) == sup[i] \notin {"none", "ended", "dead"}

\* The port is the lock of the tunnel (serve() binds before it starts the
\* tunnel and closes after it has stopped it): two supervisors run at a time
\* only when one of them belongs to a process that gave up waiting for it.
OneSupervisor ==
    \A i, j \in Inst : Running(i) /\ Running(j) /\ i # j =>
                           "closed" \in {main[i], main[j]}

\* "Keeps exactly one reverse tunnel" (tunnel.py:1): of the tunnels this host
\* has started, at most one has not been told to end, whatever was killed,
\* restarted or shut down at whatever point of an attempt.
OneTunnel ==
    \A p, q \in Pids : Alive(p) /\ Alive(q) /\ ~term[p] /\ ~term[q] => p = q

\* When stop() returns because the supervisor thread is over, no ssh of ours
\* is left and no pid file names one: also when the event was set between Popen
\* and the moment _child was there for stop() to see.
CleanStop ==
    \A i \in Inst : main[i] = "closing" /\ ~Running(i) =>
        pidfile = None /\ \A p \in Pids : owner[p] = i => ~Alive(p)

\* While the supervisor waits for its ssh, the pid file names that ssh, so a
\* service killed now is one whose tunnel the next start can stop.
Recorded ==
    \A i \in Inst : sup[i] \in {"wait", "terminate"} /\ ~Gone(i, mine[i]) =>
        pidfile = mine[i]

Serves(i) == sup[i] = "wait" /\ state[i] = "up" /\ sock = mine[i]

\* "Heals itself" (README.md:24): once the faults are over, a bridge that is
\* not stopped ends up with a tunnel that is reported up and that has the
\* socket file of the remote, whatever the faults left behind.
Heals == \A i \in Inst : main[i] = "serving" ~> main[i] # "serving" \/ Serves(i)

\* stop() always gets to close the server: the supervisor notices the event
\* at whatever point of an attempt or of the backoff it is.
StopCompletes ==
    \A i \in Inst : main[i] = "stopping" ~> main[i] \in {"closed", "off"}

\* The detailed tunnel behaves as TunnelSpec says, step by step: the process that
\* starts an ssh is the one that has the port, a killed process takes its tunnel
\* with it (Linux), a stop ends the tunnel before it frees the port, and an attempt
\* never dials beside a tunnel that is meant to stay (tunnel.py:1, "keeps exactly
\* one reverse tunnel").
Promise == INSTANCE TunnelSpec WITH
    holder <- port,
    live <- {<<owner[p], p>> : p \in {q \in Pids : Alive(q) /\ ~term[q]}}
KeepsPromise == Promise!Spec
=============================================================================
