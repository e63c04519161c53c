------------------------------- MODULE Bridge -------------------------------
(***************************************************************************)
(* The host's HTTP side: BridgeServer (server.py), the Launcher            *)
(* (protocol.py) and the client that runs on the remote (client.py).       *)
(*                                                                         *)
(* The main thread accepts a connection, takes a permit of _admitted for   *)
(* it and starts a thread; that thread waits for a permit of _active,      *)
(* reads the request, and for an /open takes one of the Launcher's slots   *)
(* and starts VS Code.  Each step is a step of its own because the client  *)
(* may give up, a thread may fail to start, and the server may be stopped  *)
(* between any two of them.  A request is one of Kinds:                    *)
(*   open   passes every check of handle_request and launches; its path    *)
(*          may still be one that Popen cannot encode (a lone surrogate)   *)
(*   other  is answered without launching (/healthz, /check, 4xx)          *)
(*   stall  never arrives completely, so that reading it times out         *)
(***************************************************************************)
EXTENDS Integers, FiniteSets

CONSTANTS
    Conns,                               \* the connections clients make
    MaxActive, MaxWaiting, MaxChildren,  \* MAX_ACTIVE, MAX_WAITING, MAX_CHILDREN
    Faults,                              \* the kinds of fault that can happen
    MaxFaults                            \* bound on the number of faults

Kinds == {"open", "other", "stall"}
FaultKinds == {"thread",   \* a thread cannot be started
               "exec"}     \* VS Code cannot be started

ASSUME BridgeAssumption ==
    /\ IsFiniteSet(Conns)
    /\ MaxActive \in Nat \ {0} /\ MaxWaiting \in Nat /\ MaxChildren \in Nat \ {0}
    /\ Faults \subseteq FaultKinds
    /\ MaxFaults \in Nat

VARIABLES
    server,     \* the main thread: serving, stopping (out of its loop), exited
    conn,       \* where the server is with each connection
    kind,       \* the request each connection carries
    answer,     \* the response the handler has made
    client,     \* what the client knows
    admitted, active, slots,    \* free permits of the three semaphores
    child,      \* the VS Code launch of each connection
    faults

vars == <<server, conn, kind, answer, client, admitted, active, slots, child, faults>>

ConnPC == {"idle", "backlog", "turning", "waiting", "refusing", "reading",
           "launching", "popen", "reply", "finishing", "leaving", "done", "dropped"}
Answers == {"none", "ok", "refused", "failed"}

TypeOK ==
    /\ server \in {"serving", "stopping", "exited"}
    /\ conn \in [Conns -> ConnPC]
    /\ kind \in [Conns -> Kinds]
    /\ answer \in [Conns -> Answers]
    /\ client \in [Conns -> {"idle", "waiting", "ok", "refused", "failed",
                             "timeout", "closed"}]
    /\ admitted \in 0..(MaxActive + MaxWaiting)
    /\ active \in 0..MaxActive
    /\ slots \in 0..MaxChildren
    /\ child \in [Conns -> {"none", "running", "reaped", "lost", "raised"}]
    /\ faults \in 0..MaxFaults

Init ==
    /\ server = "serving"
    /\ conn = [c \in Conns |-> "idle"]
    /\ kind = [c \in Conns |-> "other"]
    /\ answer = [c \in Conns |-> "none"]
    /\ client = [c \in Conns |-> "idle"]
    /\ admitted = MaxActive + MaxWaiting
    /\ active = MaxActive
    /\ slots = MaxChildren
    /\ child = [c \in Conns |-> "none"]
    /\ faults = 0

-----------------------------------------------------------------------------
(* Helpers.                                                                *)

Up == server # "exited"
Move(c, from, to) == Up /\ conn[c] = from /\ conn' = [conn EXCEPT ![c] = to]

\* A client that still waits learns `what` (the command prints it, or fails with
\* it); one that has given up does not.
Tell(c, what) ==
    client' = IF client[c] = "waiting" THEN [client EXCEPT ![c] = what] ELSE client

Respond(c, what) == answer' = [answer EXCEPT ![c] = what]
Fault(f) == f \in Faults /\ faults < MaxFaults /\ faults' = faults + 1

-----------------------------------------------------------------------------
(* The client: call() in client.py.                                        *)

\* A request is sent.  One without an alias or a token, or too large, never is,
\* and a host that is not there refuses it: neither reaches a connection.
Connect(c) ==
    /\ Move(c, "idle", "backlog")
    /\ \E k \in Kinds : kind' = [kind EXCEPT ![c] = k]
    /\ client' = [client EXCEPT ![c] = "waiting"]
    /\ UNCHANGED <<server, answer, admitted, active, slots, child, faults>>

\* Five seconds without the whole reply.  The request stays with the server.
GiveUp(c) ==
    /\ client[c] = "waiting" /\ client' = [client EXCEPT ![c] = "timeout"]
    /\ UNCHANGED <<server, conn, kind, answer, admitted, active, slots, child, faults>>

-----------------------------------------------------------------------------
(* The main thread: process_request and _busy.                             *)

Accepting == server = "serving" /\ \A d \in Conns : conn[d] # "turning"

Accept(c) ==
    /\ Accepting
    /\ admitted > 0 /\ admitted' = admitted - 1
    /\ Move(c, "backlog", "waiting")
    /\ UNCHANGED <<server, kind, answer, client, active, slots, child, faults>>

\* No permit is free: the main thread itself answers 503.
TurnAway(c) ==
    /\ Accepting
    /\ admitted = 0
    /\ Move(c, "backlog", "turning")
    /\ UNCHANGED <<server, kind, answer, client, admitted, active, slots, child, faults>>

TurnedAway(c) ==
    /\ Move(c, "turning", "done")
    /\ Tell(c, "refused")
    /\ UNCHANGED <<server, kind, answer, admitted, active, slots, child, faults>>

\* Thread.start raises after the permit was taken.  socketserver closes the
\* connection; nothing gives the permit back.
SpawnFails(c) ==
    /\ Fault("thread")
    /\ Accepting
    /\ admitted > 0 /\ admitted' = admitted - 1
    /\ Move(c, "backlog", "dropped")
    /\ Tell(c, "closed")
    /\ UNCHANGED <<server, kind, answer, active, slots, child>>

-----------------------------------------------------------------------------
(* A connection's thread: process_request_thread, handle, launch.          *)

Acquire(c) ==
    /\ active > 0 /\ active' = active - 1
    /\ Move(c, "waiting", "reading")
    /\ UNCHANGED <<server, kind, answer, client, admitted, slots, child, faults>>

\* _active.acquire(timeout=5) returned False.
AcquireTimeout(c) ==
    /\ active = 0
    /\ Move(c, "waiting", "refusing")
    /\ UNCHANGED <<server, kind, answer, client, admitted, active, slots, child, faults>>

\* Mutant: the finally clause that gives _active back covers this path too.
RefuseReleasing(c) ==
    /\ Move(c, "refusing", "leaving")
    /\ Tell(c, "refused")
    /\ active' = active + 1
    /\ UNCHANGED <<server, kind, answer, admitted, slots, child, faults>>

\* Mutant: after the 503 the request is handled all the same.
RefuseAndRead(c) ==
    /\ Move(c, "refusing", "reading")
    /\ Tell(c, "refused")
    /\ UNCHANGED <<server, kind, answer, admitted, active, slots, child, faults>>

\* _busy in the thread, which then gives back its permit of _admitted only.
Refuse(c) ==
    /\ Move(c, "refusing", "leaving")
    /\ Tell(c, "refused")
    /\ UNCHANGED <<server, kind, answer, admitted, active, slots, child, faults>>

\* read_request returns, and handle_request and _open decide: launch, or answer.
HandleRequest(c) ==
    /\ \/ kind[c] = "open" /\ Move(c, "reading", "launching") /\ UNCHANGED answer
       \/ kind[c] = "other" /\ Move(c, "reading", "reply") /\ Respond(c, "ok")
    /\ UNCHANGED <<server, kind, client, admitted, active, slots, child, faults>>

\* Mutant: the socket has no deadline.
NoDeadline(c) == FALSE /\ UNCHANGED vars

\* The deadline over the whole request has passed: 400.
ReadTimeout(c) ==
    /\ kind[c] = "stall"
    /\ Move(c, "reading", "reply")
    /\ Respond(c, "failed")
    /\ UNCHANGED <<server, kind, client, admitted, active, slots, child, faults>>

TakeSlot(c) ==
    /\ IF slots > 0
       THEN /\ Move(c, "launching", "popen")
            /\ slots' = slots - 1 /\ UNCHANGED answer
       ELSE /\ Move(c, "launching", "reply")
            /\ Respond(c, "refused") /\ UNCHANGED slots
    /\ UNCHANGED <<server, kind, client, admitted, active, child, faults>>

Launch(c) ==
    /\ Move(c, "popen", "reply")
    /\ child' = [child EXCEPT ![c] = "running"]
    /\ Respond(c, "ok")
    /\ UNCHANGED <<server, kind, client, admitted, active, slots, faults>>

\* Mutant: the slot is not given back when Popen raises.
LaunchFailsKeeping(c) ==
    /\ Fault("exec")
    /\ Move(c, "popen", "reply")
    /\ Respond(c, "failed")
    /\ UNCHANGED <<server, kind, client, admitted, active, slots, child>>

\* Popen raises an OSError.
LaunchFails(c) ==
    /\ Fault("exec")
    /\ Move(c, "popen", "reply")
    /\ slots' = slots + 1
    /\ Respond(c, "failed")
    /\ UNCHANGED <<server, kind, client, admitted, active, child>>

\* Popen raises what launch() does not catch: a UnicodeEncodeError for the path.
\* Nothing runs, the exception leaves the handler without an answer, and the slot
\* stays taken.
LaunchRaises(c) ==
    /\ Move(c, "popen", "finishing")
    /\ child' = [child EXCEPT ![c] = "raised"]
    /\ UNCHANGED <<server, kind, answer, client, admitted, active, slots, faults>>

\* VS Code runs but the thread that would wait for it does not start: the
\* exception leaves the handler without an answer, and the slot stays taken.
ReapFails(c) ==
    /\ Fault("thread")
    /\ Move(c, "popen", "finishing")
    /\ child' = [child EXCEPT ![c] = "lost"]
    /\ UNCHANGED <<server, kind, answer, client, admitted, active, slots>>

Reply(c) ==
    /\ Move(c, "reply", "finishing")
    /\ Tell(c, answer[c])
    /\ UNCHANGED <<server, kind, answer, admitted, active, slots, child, faults>>

\* shutdown_request, then the permit of _active.
Finish(c) ==
    /\ Move(c, "finishing", "leaving")
    /\ Tell(c, "closed")
    /\ active' = active + 1
    /\ UNCHANGED <<server, kind, answer, admitted, slots, child, faults>>

Leave(c) ==
    /\ Move(c, "leaving", "done")
    /\ admitted' = admitted + 1
    /\ UNCHANGED <<server, kind, answer, client, active, slots, child, faults>>

\* _reap: the launched process has ended.
Reap(c) ==
    /\ Up
    /\ child[c] = "running" /\ child' = [child EXCEPT ![c] = "reaped"]
    /\ slots' = slots + 1
    /\ UNCHANGED <<server, conn, kind, answer, client, admitted, active, faults>>

-----------------------------------------------------------------------------
(* The end of serve(): the loop ends, the tunnel stops, the process exits. *)
(* Handlers are daemon threads, which nobody joins.                        *)

Stop ==
    /\ Accepting
    /\ server' = "stopping"
    /\ UNCHANGED <<conn, kind, answer, client, admitted, active, slots, child, faults>>

Exit ==
    /\ server = "stopping" /\ server' = "exited"
    /\ client' = [c \in Conns |-> IF client[c] = "waiting" THEN "closed" ELSE client[c]]
    /\ UNCHANGED <<conn, kind, answer, admitted, active, slots, child, faults>>

ThreadStep(c) ==
    \/ Acquire(c) \/ AcquireTimeout(c) \/ Refuse(c) \/ HandleRequest(c)
    \/ ReadTimeout(c) \/ TakeSlot(c) \/ Launch(c) \/ LaunchFails(c)
    \/ LaunchRaises(c) \/ ReapFails(c) \/ Reply(c) \/ Finish(c) \/ Leave(c)

MainStep(c) == Accept(c) \/ TurnAway(c) \/ TurnedAway(c) \/ SpawnFails(c)

Next ==
    \/ \E c \in Conns : Connect(c) \/ GiveUp(c) \/ MainStep(c) \/ ThreadStep(c) \/ Reap(c)
    \/ Stop \/ Exit

Spec == Init /\ [][Next]_vars

\* Threads run, waits end after their timeouts, and launched commands end.
FairSpec ==
    /\ Spec
    /\ \A c \in Conns : WF_vars(MainStep(c)) /\ WF_vars(ThreadStep(c)) /\ WF_vars(Reap(c))

-----------------------------------------------------------------------------
(* Properties.                                                             *)

Inside == {c \in Conns : conn[c] \in {"waiting", "refusing", "reading", "launching",
                                      "popen", "reply", "finishing", "leaving"}}
Dropped == {c \in Conns : conn[c] = "dropped"}
Handling == {c \in Conns : conn[c] \in {"reading", "launching", "popen", "reply",
                                        "finishing"}}
Launching == {c \in Conns : conn[c] = "popen" \/ child[c] \in {"running", "lost", "raised"}}
Started(c) == child[c] \in {"running", "reaped", "lost"}

\* The permits in use are exactly those of the connections in the server, of the
\* handlers and of the launches, and those that are lost for good on three paths
\* of process_request and launch(): a connection's thread does not start, the
\* thread that waits for VS Code does not, or Popen raises what is no OSError.  On
\* every other path, also one that times out, is refused or fails, what was taken
\* once is given back once.
PermitsAccounted ==
    /\ admitted + Cardinality(Inside \cup Dropped) = MaxActive + MaxWaiting
    /\ active + Cardinality(Handling) = MaxActive
    /\ slots + Cardinality(Launching) = MaxChildren

\* What the client is told is true: "ok" for an /open means VS Code was
\* started for it, and a 503 or an error means that it was not and will not be.
ToldTheTruth ==
    \A c \in Conns : kind[c] = "open" =>
        /\ client[c] = "ok" => Started(c)
        /\ client[c] \in {"refused", "failed"} => ~Started(c) /\ conn[c] # "popen"

\* Every connection the server gets is closed in the end, unless the server is
\* stopped: neither a stalled client nor a full server holds one for ever.
EveryConnectionEnds ==
    \A c \in Conns : conn[c] = "backlog" ~> \/ conn[c] \in {"done", "dropped"}
                                            \/ server # "serving"

\* What the command behind c has learnt of its /open.
Told(c) ==
    IF kind[c] # "open" \/ client[c] \in {"idle", "waiting"} THEN "pending"
    ELSE IF client[c] \in {"timeout", "closed"} THEN "unknown" ELSE client[c]

\* The server keeps what LaunchSpec promises for every /open, whatever the
\* order of threads, timeouts, failures and a stop: at most one launch for a
\* request and MaxChildren at a time (protocol.py:40-87), and an answer that
\* agrees with what was done and with what is done later.
Promise == INSTANCE LaunchSpec WITH
    told <- [c \in Conns |-> Told(c)],
    launched <- {c \in Conns : Started(c)},
    running <- {c \in Conns : child[c] \in {"running", "lost"}}
KeepsPromise == Promise!Spec
=============================================================================
