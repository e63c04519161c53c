----------------------------- MODULE RemoteSide -----------------------------
(***************************************************************************)
(* What installation leaves on the remote and what uninstallation takes    *)
(* away again: the manifest (manifest.py), the remote installer            *)
(* (remote_setup.py), the remote part of uninstall (uninstall.py), with    *)
(* the PREP of the host's tunnel and the user working on the same files.   *)
(*                                                                         *)
(* The file system is the set fs of the paths that exist.  Each change to  *)
(* it is an action of its own; the manifest being filled in lives in the   *)
(* memory of the process and is on disk only once it has been saved.       *)
(***************************************************************************)
EXTENDS Integers, Sequences

CONSTANTS
    Faults,        \* the kinds of fault that can happen
    MaxInstalls,   \* bound on the number of installations
    MaxTroubles    \* bound on the crashes and the `serve`s together

FaultKinds == {"crash",     \* the remote process ends between two changes
               "nosocket",  \* no directory can hold a socket
              "nostop"}    \* the service manager does not stop the service

ASSUME RemoteSideAssumption ==
    Faults \subseteq FaultKinds /\ MaxInstalls \in Nat /\ MaxTroubles \in Nat

Rcs == {"bashrc", "fishrc"}

\* The directories above each path, the home directory excluded: ~/.config,
\* ~/.cache, ~/.local, ~/.local/bin and ~/.config/fish may exist for others;
\* config, cache and tmp are the bridge's own.  The last line is the user's:
\* a program in ~/.local/bin, another one's settings, and a command `code`.
Above ==
    [config_home |-> {}, cache_home |-> {}, local |-> {}, bin |-> {"local"},
     fish |-> {"config_home"}, bashrc |-> {}, fishrc |-> {"fish", "config_home"},
     config |-> {"config_home"}, cache |-> {"cache_home"}, tmp |-> {},
     program |-> {"bin", "local"}, code |-> {"bin", "local"},
     env |-> {"config", "config_home"}, manifest |-> {"config", "config_home"},
     tool |-> {"bin", "local"}, app |-> {"config_home"}, own_code |-> {"bin", "local"}]

Paths == DOMAIN Above
Below(d) == {p \in Paths : d \in Above[p]}
TheirPaths == {"config_home", "cache_home", "local", "bin", "fish", "bashrc", "fishrc",
               "tool", "app"}

VARIABLES
    fs,         \* the paths that exist
    text, block,   \* rc files: the user's own lines, and the PATH block
    disk,       \* the content of manifest.json, when it exists
    mem, pc, todo, shell, sockdir,    \* the process that installs or uninstalls
    target,     \* where the host's settings say the socket is
    known,      \* whether the host's manifest names this remote, and a service
    tunnel,     \* where each bridge of the host, and a PREP on its way, has the socket
    told,       \* what the last command has told the host
    theirs, made,  \* history: paths the user put there, paths we created
    exposed,    \* history: a bridge ran, or a PREP was on its way, during an uninstall
    installs, crashes, serves

userVars == <<text, theirs>>
hostVars == <<target, known, tunnel, told, exposed>>
place == <<shell, sockdir>>
counters == <<installs, crashes, serves>>
vars == <<fs, text, block, disk, mem, pc, todo, shell, sockdir, target, known, tunnel, told,
          theirs, made, exposed, installs, crashes, serves>>

\* The host's bridges: its service, and a `serve` in a terminal, which goes on with the
\* settings it has read; "sent" is a PREP on its way when its bridge ended.
Bridges == {"service", "serve"}
Sources == Bridges \cup {"sent"}
NoTunnel == [b \in Sources |-> "none"]
Without(b) == {[tunnel EXCEPT ![b] = "none"], [tunnel EXCEPT ![b] = "none", !["sent"] = tunnel[b]]}

Uninstalling == {"blocks", "files", "created"}

Empty == [files |-> <<>>, owned |-> {}, created |-> {},
          blocks |-> [r \in Rcs |-> "none"]]

Entries(s) == {s[n] : n \in DOMAIN s}
Manifests == [files : Seq(Paths), owned : SUBSET Paths, created : SUBSET Paths,
              blocks : [Rcs -> {"none", "added", "created"}]]

TypeOK ==
    /\ fs \subseteq Paths /\ theirs \subseteq Paths /\ made \subseteq Paths
    /\ text \in [Rcs -> BOOLEAN] /\ block \in [Rcs -> BOOLEAN]
    /\ disk \in Manifests /\ mem \in Manifests
    /\ Entries(mem.files) \subseteq {"program", "code", "manifest"}
    /\ \A m, n \in DOMAIN mem.files : mem.files[m] = mem.files[n] => m = n
    /\ mem.owned \cap mem.created = {}
    /\ pc \in {"idle", "socket", "nosocket", "program", "code", "env", "rc", "save",
               "blocks", "files", "created"}
    /\ todo \in Seq(Paths)
    /\ shell \in Rcs /\ sockdir \in {"cache", "tmp"} /\ target \in {"cache", "tmp"}
    /\ known \in {"no", "yes", "service"} /\ exposed \in BOOLEAN
    /\ tunnel \in [Sources -> {"none", "cache", "tmp"}]
    /\ told \in {"nothing", "installed", "refused", "failed", "uninstalled", "absent"}
    /\ installs \in 0..MaxInstalls /\ {crashes, serves} \subseteq 0..MaxTroubles

Init ==
    /\ fs \in {s \in SUBSET TheirPaths : \A p \in s : Above[p] \subseteq s}
    /\ text \in {t \in [Rcs -> BOOLEAN] : \A r \in Rcs : t[r] => r \in fs}
    /\ block = [r \in Rcs |-> FALSE]
    /\ disk = Empty /\ mem = Empty
    /\ pc = "idle" /\ todo = <<>> /\ shell = "bashrc" /\ sockdir = "cache"
    /\ target = "cache" /\ known = "no" /\ tunnel = NoTunnel /\ told = "nothing"
    /\ theirs = fs /\ made = {} /\ exposed = FALSE
    /\ installs = 0 /\ crashes = 0 /\ serves = 0

-----------------------------------------------------------------------------
(* The manifest: add_file, add_owned_dir and add_block record before the   *)
(* change is made, so a directory is claimed only when it was missing.     *)

\* Mutant: every parent directory is claimed, whether it was missing or not.
ClaimAll(p) == Above[p]
\* _note_missing_parents
Missing(p) == IF p \in fs THEN {} ELSE Above[p] \ fs

\* Mutant: a path is recorded again by every installation.
AddFileAgain(m, p) ==
    [m EXCEPT !.files = Append(@, p), !.created = @ \cup (Missing(p) \ m.owned)]

AddFile(m, p) ==
    IF p \in Entries(m.files) THEN m
    ELSE [m EXCEPT !.files = Append(@, p),
                   !.created = @ \cup (Missing(p) \ m.owned)]

AddOwnedDir(m, p) ==
    IF p \in m.owned THEN m
    ELSE [m EXCEPT !.owned = @ \cup {p},
                   !.created = (@ \cup (Missing(p) \ m.owned)) \ {p}]

\* Mutant: the block is recorded after the file has been written.
AddBlockLate(m, r) ==
    IF m.blocks[r] # "none" THEN m ELSE [m EXCEPT !.blocks[r] = "added"]

AddBlock(m, r) ==
    IF m.blocks[r] # "none" THEN m
    ELSE [m EXCEPT !.blocks[r] = IF r \in fs THEN "added" ELSE "created",
                   !.created = @ \cup (Missing(r) \ m.owned)]

\* Mutant: an installation starts its record from nothing.
LoadNothing == Empty
Load == IF "manifest" \in fs THEN disk ELSE Empty

\* The paths p and the directories above it come to exist.
Make(ps) ==
    LET new == ps \cup UNION {Above[p] : p \in ps} IN
    /\ fs' = fs \cup new
    /\ made' = made \cup (new \ fs)
Remove(ps) == fs' = fs \ ps /\ made' = made \ ps

Step(from, to) == pc = from /\ pc' = to

-----------------------------------------------------------------------------
(* _install() of remote_setup.py, run by the host over SSH.                *)

InstallStart(r) ==
    /\ pc = "idle" /\ installs < MaxInstalls /\ installs' = installs + 1
    /\ IF "own_code" \in fs
       THEN told' = "refused" /\ UNCHANGED <<mem, pc, shell>>
       ELSE /\ Step("idle", "socket")
            /\ mem' = AddOwnedDir(Load, "config")
            /\ shell' = r
            /\ told' = "nothing"
    /\ UNCHANGED <<fs, block, disk, todo, sockdir, target, known, tunnel, exposed, made,
                   userVars, crashes, serves>>

\* choose_socket tries ~/.cache, then a directory outside the home.
ChooseSocket ==
    /\ Step("socket", "program")
    /\ \/ sockdir' = "cache" /\ mem' = AddOwnedDir(mem, "cache") /\ Make({"cache"})
       \/ /\ sockdir' = "tmp"
          /\ mem' = AddOwnedDir(AddOwnedDir(mem, "cache"), "tmp")
          /\ Make({"cache", "tmp"})
    /\ UNCHANGED <<block, disk, todo, shell, hostVars, userVars, counters>>

NoSocket ==
    /\ "nosocket" \in Faults
    /\ Step("socket", "nosocket")
    /\ mem' = AddOwnedDir(AddOwnedDir(mem, "cache"), "tmp")
    /\ Make({"cache", "tmp"})
    /\ UNCHANGED <<block, disk, todo, place, hostVars, userVars, counters>>

PutProgram ==
    /\ Step("program", "code")
    /\ mem' = AddFile(AddFile(mem, "program"), "code")
    /\ Make({"program"})
    /\ UNCHANGED <<block, disk, todo, place, hostVars, userVars, counters>>

\* Whatever is called `code` is unlinked and the link is made.
PutCode ==
    /\ Step("code", "env")
    /\ fs' = (fs \ {"own_code"}) \cup {"code"}
    /\ made' = made \cup {"code"}
    /\ UNCHANGED <<block, disk, mem, todo, place, hostVars, userVars, counters>>

PutEnv ==
    /\ Step("env", "rc")
    /\ Make({"env"})
    /\ UNCHANGED <<block, disk, mem, todo, place, hostVars, userVars, counters>>

PutRc ==
    /\ Step("rc", "save")
    /\ mem' = AddBlock(mem, shell)
    /\ Make({shell})
    /\ block' = [block EXCEPT ![shell] = TRUE]
    /\ UNCHANGED <<disk, todo, place, hostVars, userVars, counters>>

\* ServiceManager.stop() and remove(): a service manager that fails to stop it is not
\* noticed (service.py:106, 159).
StopService ==
    IF known = "service"
    THEN tunnel' \in Without("service") \/ ("nostop" \in Faults /\ UNCHANGED tunnel)
    ELSE UNCHANGED tunnel

\* manifest.save(), at the end and when there is no socket.  The host learns
\* the socket's path from the output, writes its settings and starts its service
\* with them or, with --no-service, takes it away.
Save ==
    /\ pc \in {"save", "nosocket"} /\ pc' = "idle"
    /\ disk' = AddFile(mem, "manifest")
    /\ Make({"manifest"})
    /\ mem' = Empty /\ shell' = "bashrc" /\ sockdir' = "cache"
    /\ \/ /\ pc = "save" /\ told' = "installed" /\ target' = sockdir
          /\ \/ known' = "service" /\ tunnel' = [tunnel EXCEPT !["service"] = sockdir]
             \/ known' = "yes" /\ StopService
       \/ pc = "nosocket" /\ told' = "failed" /\ UNCHANGED <<target, known, tunnel>>
    /\ UNCHANGED <<block, todo, exposed, userVars, counters>>

-----------------------------------------------------------------------------
(* uninstall_remote() and the uninstall() it runs on the remote.           *)

\* Without a manifest: what an installation is known to make, no parents; and
\* whatever symbolic link is called `code`, ours or (link) the user's.
Fallback(link) ==
    [files |-> (IF "program" \in fs THEN <<"program">> ELSE <<>>) \o
               (IF "program" \in fs /\ ("code" \in fs \/ ("own_code" \in fs /\ link))
                THEN <<"code">> ELSE <<>>),
     owned |-> {"config", "cache"}, created |-> {},
     blocks |-> [r \in Rcs |-> "added"]]

\* The host stops the service it has recorded and looks for no other bridge; without
\* one it refuses while a bridge answers.  What goes on all the same is exposed.
StopBridges ==
    /\ known = "yes" => \A b \in Bridges : tunnel[b] = "none"
    /\ StopService

\* Run from the host, or by hand on a remote the host does not know.
UninstallStart ==
    /\ "program" \in fs
    /\ Step("idle", "blocks") /\ StopBridges
    /\ \E link \in BOOLEAN : mem' = IF "manifest" \in fs THEN disk ELSE Fallback(link)
    /\ exposed' = (exposed \/ tunnel' # NoTunnel) /\ told' = "nothing"
    /\ UNCHANGED <<fs, block, disk, todo, place, target, known, made, userVars, counters>>

\* Where the program is missing there is nothing to run: for the host this is
\* a success, and it goes on to remove its own files.
NothingToRun ==
    /\ known # "no" /\ known' = "no"
    /\ "program" \notin fs
    /\ pc = "idle" /\ StopBridges /\ target' = "cache" /\ told' = "absent"
    /\ exposed' = (exposed \/ tunnel' # NoTunnel)
    /\ UNCHANGED <<fs, block, disk, mem, pc, todo, place, made, userVars, counters>>

\* undo(): first the blocks; a file we created and nobody else wrote goes too.
UndoBlocks ==
    LET mentioned == {r \in Rcs : mem.blocks[r] # "none" /\ r \in fs}
        emptied == {r \in mentioned : mem.blocks[r] = "created" /\ ~text[r]}
    IN /\ Step("blocks", "files")
       /\ block' = [r \in Rcs |-> block[r] /\ r \notin mentioned]
       /\ Remove(emptied)
       /\ todo' = mem.files
       /\ UNCHANGED <<disk, mem, place, hostVars, userVars, counters>>

\* ... then the files in the order of their recording, the manifest among them.
UndoFile ==
    /\ pc = "files" /\ todo # <<>>
    /\ Remove({Head(todo)} \cup IF Head(todo) = "code" THEN {"own_code"} ELSE {})
    /\ todo' = Tail(todo)
    /\ UNCHANGED <<block, disk, mem, pc, place, hostVars, userVars, counters>>

\* ... then our directories with all they hold.
UndoOwned ==
    /\ todo = <<>> /\ Step("files", "created")
    /\ Remove(mem.owned \cup UNION {Below(d) : d \in mem.owned})
    /\ UNCHANGED <<block, disk, mem, todo, place, hostVars, userVars, counters>>

\* rmdir, deepest first: a directory goes when nothing but directories that
\* go is left below it.
Emptied(d) == Below(d) \cap fs \subseteq mem.created

UndoCreated ==
    /\ Step("created", "idle")
    /\ Remove({d \in mem.created : Emptied(d)})
    /\ mem' = Empty
    /\ told' = "uninstalled" /\ known' = "no" /\ target' = "cache" /\ StopService
    /\ UNCHANGED <<block, disk, todo, place, exposed, userVars, counters>>

\* The remote process ends before its next change.  When it was uninstalling,
\* the host puts its service back ("nothing was removed").
Crash ==
    /\ "crash" \in Faults /\ crashes + serves < MaxTroubles /\ crashes' = crashes + 1
    /\ pc # "idle" /\ pc' = "idle"
    /\ tunnel' = IF known = "service" /\ pc \in Uninstalling
                 THEN [tunnel EXCEPT !["service"] = target] ELSE tunnel
    /\ mem' = Empty /\ todo' = <<>> /\ told' = "failed"
    /\ shell' = "bashrc" /\ sockdir' = "cache"
    /\ UNCHANGED <<fs, block, disk, target, known, exposed, made, userVars, installs,
                   serves>>

-----------------------------------------------------------------------------
(* The host's tunnel and the user.                                         *)

\* A `serve` may be started at any time with the host's settings, also beside the
\* service, which then waits for the port.
ServeStart ==
    /\ crashes + serves < MaxTroubles /\ serves' = serves + 1
    /\ known # "no" /\ tunnel["serve"] = "none"
    /\ tunnel' = [tunnel EXCEPT !["serve"] = target]
    /\ exposed' = (exposed \/ pc \in Uninstalling)
    /\ UNCHANGED <<fs, block, disk, mem, pc, todo, place, target, known, told, made, userVars,
                   installs, crashes>>

ServeStop ==
    /\ tunnel["serve"] # "none" /\ tunnel' \in Without("serve")
    /\ UNCHANGED <<fs, block, disk, mem, pc, todo, place, target, known, told, exposed, made,
                   userVars, counters>>

\* PREP makes the socket's directory; the socket comes and goes with it.
Prep(b) ==
    /\ tunnel[b] # "none" /\ Make({tunnel[b]})
    /\ tunnel' = IF b = "sent" THEN [tunnel EXCEPT ![b] = "none"] ELSE tunnel
    /\ UNCHANGED <<block, disk, mem, pc, todo, place, target, known, told, exposed, userVars,
                   counters>>

UserWrites(p) ==
    /\ p \notin fs /\ Above[p] \subseteq fs
    /\ p = "own_code" => pc = "idle" /\ "code" \notin fs
    /\ fs' = fs \cup {p} /\ theirs' = theirs \cup {p}
    /\ UNCHANGED <<text, block, disk, mem, pc, todo, place, hostVars, made, counters>>

UserEditsRc(r) ==
    /\ r \in fs /\ ~text[r] /\ text' = [text EXCEPT ![r] = TRUE]
    /\ theirs' = theirs \cup {r}
    /\ UNCHANGED <<fs, block, disk, mem, pc, todo, place, hostVars, made, counters>>

Next ==
    \/ \E r \in Rcs : InstallStart(r) \/ UserEditsRc(r)
    \/ ChooseSocket \/ NoSocket \/ PutProgram \/ PutCode \/ PutEnv \/ PutRc \/ Save
    \/ UninstallStart \/ NothingToRun \/ UndoBlocks \/ UndoFile \/ UndoOwned \/ UndoCreated
    \/ Crash \/ ServeStart \/ ServeStop \/ \E b \in Sources : Prep(b)
    \/ \E p \in {"tool", "app", "own_code"} : UserWrites(p)

Spec == Init /\ [][Next]_vars

-----------------------------------------------------------------------------
(* Properties.                                                             *)

\* What is left of ours: paths we created that hold nothing of the user's,
\* and lines in the user's shell files.
Leftover ==
    {p \in made : ({p} \cup Below(p)) \cap theirs = {}} \cup {r \in Rcs : block[r]}

\* What a PREP can make.
PrepMakes == {"cache", "cache_home", "tmp"}

\* "Uninstalls without a trace" (README.md:29): an uninstall that ran to its end
\* leaves nothing of ours, after any sequence of installations, also ones
\* that failed for want of a socket or used another shell file or directory,
\* with the user at work in between; and a tunnel that uninstall.py:79-83 leaves at
\* work (a `serve` beside the service, a service that was not stopped, a PREP
\* on its way) brings back at most what PREP makes.
NoTrace ==
    told = "uninstalled" /\ pc = "idle" /\ crashes = 0 =>
        Leftover \subseteq IF exposed THEN PrepMakes ELSE {}

\* "... and leaves everything that was there before": nothing of the user's
\* disappears, whether it was there first or came into a directory of ours.  An
\* installation that was interrupted before it made its link can cost the user a link
\* called `code`: the fallback takes any (uninstall.py:35).
UserKept == theirs \ fs \subseteq IF crashes = 0 THEN {} ELSE {"own_code"}

\* "Re-installing and updating merge into the existing record, never shrink
\* it" (manifest.py:15).
RecordGrows ==
    [][{"manifest"} \subseteq fs \cap fs' =>
          /\ Entries(disk.files) \subseteq Entries(disk'.files)
          /\ disk.owned \subseteq disk'.owned
          /\ disk.created \subseteq disk'.created
          /\ \A r \in Rcs : disk.blocks[r] \in {"none", disk'.blocks[r]}]_vars

\* "Fix SSH access and run this again" (uninstall.py:119): when the uninstall of
\* the remote is cut short, running it again until the host is content leaves
\* nothing of ours there.
RetryCleans == told = "absent" => Leftover = {}
=============================================================================
