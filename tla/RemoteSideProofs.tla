-------------------------- MODULE RemoteSideProofs ---------------------------
(***************************************************************************)
(* For any number of installations: nothing of the user's is lost, the     *)
(* record never shrinks, and an uninstall that ran to its end leaves       *)
(* nothing of ours but what a tunnel it left at work makes.                *)
(*                                                                         *)
(* Five layers, each inductive given those before it: Base, what a record  *)
(* may claim; Tree, the directories above what exists; and while nothing   *)
(* has crashed Bridged, where the bridges have their sockets; Trace, why   *)
(* all that was made is in a record; Code, why the `code` an uninstall     *)
(* unlinks is ours.                                                        *)
(***************************************************************************)
EXTENDS RemoteSide, SequenceTheorems, TLAPS

Parents == {"config_home", "cache_home", "local", "bin", "fish"}
OwnDirs == {"config", "cache", "tmp"}
Installing == {"socket", "nosocket", "program", "code", "env", "rc", "save"}

\* The orders in which files are recorded, the fallback's included, and what an
\* uninstall has still to do of them.
Orders == {<<>>, <<"manifest">>, <<"program">>, <<"program", "code">>,
           <<"program", "code", "manifest">>, <<"manifest", "program", "code">>}
Suffixes == Orders \cup {<<"code">>, <<"code", "manifest">>}
Saved == {<<>>, <<"manifest">>, <<"program", "code", "manifest">>, <<"manifest", "program", "code">>}

\* A record never claims what is the user's.
Sound(m) ==
    /\ m.files \in Orders /\ m.owned \subseteq OwnDirs /\ m.created \subseteq Parents
    /\ m.created \cap theirs = {}
    /\ \A r \in Rcs : m.blocks[r] = "created" /\ r \in theirs => text[r]

Typed ==
    /\ fs \subseteq Paths /\ theirs \subseteq TheirPaths \cup {"own_code"} /\ made \subseteq Paths
    /\ text \in [Rcs -> BOOLEAN] /\ block \in [Rcs -> BOOLEAN]
    /\ disk \in Manifests /\ mem \in Manifests
    /\ pc \in {"idle"} \cup Installing \cup Uninstalling /\ todo \in Suffixes
    /\ shell \in Rcs /\ sockdir \in {"cache", "tmp"} /\ target \in {"cache", "tmp"}
    /\ known \in {"no", "yes", "service"} /\ exposed \in BOOLEAN
    /\ tunnel \in [Sources -> {"none", "cache", "tmp"}]
    /\ told \in {"nothing", "installed", "refused", "failed", "uninstalled", "absent"}
    /\ installs \in 0..MaxInstalls /\ {crashes, serves} \subseteq 0..MaxTroubles

Recorded ==
    /\ Sound(disk) /\ Sound(mem) /\ disk.files \in Saved
    /\ "manifest" \in fs => "config" \in disk.owned
    /\ pc \in Installing \cup Uninstalling => "config" \in mem.owned
    /\ pc \in Installing => mem.files # <<"program">>
    /\ pc # "files" => todo = <<>>
    /\ pc \in {"program", "code", "env", "rc", "save"} => sockdir \in mem.owned

\* The user's files stay; of a `code` of the user's see OwnCode.
Kept ==
    /\ theirs \ {"own_code"} \subseteq fs
    /\ \A r \in Rcs : text[r] => r \in theirs

Grown(m, n) ==
    /\ Entries(m.files) \subseteq Entries(n.files)
    /\ m.owned \subseteq n.owned
    /\ m.created \subseteq n.created
    /\ \A r \in Rcs : m.blocks[r] \in {"none", n.blocks[r]}
Merged == pc \in Installing /\ "manifest" \in fs => Grown(disk, mem)

Base == Typed /\ Recorded /\ Kept /\ Merged

-----------------------------------------------------------------------------
(* The paths and the orders, one by one.                                   *)

LEMMA PathsAre ==
    Paths = {"config_home", "cache_home", "local", "bin", "fish", "bashrc", "fishrc", "config",
             "cache", "tmp", "program", "code", "env", "manifest", "tool", "app", "own_code"}
  BY DEF Paths, Above

LEMMA AboveIs ==
    /\ Above["config"] = {"config_home"} /\ Above["cache"] = {"cache_home"} /\ Above["tmp"] = {}
    /\ Above["program"] = {"bin", "local"} /\ Above["code"] = {"bin", "local"}
    /\ Above["env"] = {"config", "config_home"} /\ Above["manifest"] = {"config", "config_home"}
    /\ Above["bashrc"] = {} /\ Above["fishrc"] = {"fish", "config_home"}
    /\ Above["tool"] = {"bin", "local"} /\ Above["app"] = {"config_home"}
    /\ Above["own_code"] = {"bin", "local"}
    /\ Above["config_home"] = {} /\ Above["cache_home"] = {} /\ Above["local"] = {}
    /\ Above["bin"] = {"local"} /\ Above["fish"] = {"config_home"}
  BY DEF Above

LEMMA BelowIs ==
    Below("config") = {"env", "manifest"} /\ Below("cache") = {} /\ Below("tmp") = {}
  BY PathsAre, AboveIs DEF Below

LEMMA EntriesAre ==
    /\ Entries(<<>>) = {} /\ Entries(<<"manifest">>) = {"manifest"}
    /\ Entries(<<"program">>) = {"program"} /\ Entries(<<"program", "code">>) = {"program", "code"}
    /\ Entries(<<"program", "code", "manifest">>) = {"program", "code", "manifest"}
    /\ Entries(<<"manifest", "program", "code">>) = {"program", "code", "manifest"}
    /\ Entries(<<"code">>) = {"code"} /\ Entries(<<"code", "manifest">>) = {"code", "manifest"}
  <1>1. Entries(<<>>) = {}
    BY DEF Entries
  <1>2. \A x : Entries(<<x>>) = {x}
    BY DEF Entries
  <1>3. \A x, y : Entries(<<x, y>>) = {x, y}
    BY DEF Entries
  <1>4. \A x, y, z : Entries(<<x, y, z>>) = {x, y, z}
    BY DEF Entries
  <1> QED
    BY <1>1, <1>2, <1>3, <1>4

LEMMA AppendTwo == ASSUME NEW x, NEW y PROVE Append(<<x>>, y) = <<x, y>>
  <1> DEFINE S == {x, y}
  <1>1. <<x>> \in Seq(S) /\ <<x, y>> \in Seq(S) /\ y \in S /\ Len(<<x, y>>) = 2
    OBVIOUS
  <1>2. /\ Append(<<x>>, y) \in Seq(S) /\ Len(Append(<<x>>, y)) = 2
        /\ \A i \in 1..2 : Append(<<x>>, y)[i] = <<x, y>>[i]
    BY <1>1, AppendProperties
  <1> HIDE DEF S
  <1> QED
    BY ONLY <1>1, <1>2, SeqEqual

LEMMA AppendThree == ASSUME NEW x, NEW y, NEW z PROVE Append(<<x, y>>, z) = <<x, y, z>>
  <1> DEFINE S == {x, y, z}
  <1>1. <<x, y>> \in Seq(S) /\ <<x, y, z>> \in Seq(S) /\ z \in S /\ Len(<<x, y, z>>) = 3
    OBVIOUS
  <1>2. /\ Append(<<x, y>>, z) \in Seq(S) /\ Len(Append(<<x, y>>, z)) = 3
        /\ \A i \in 1..3 : Append(<<x, y>>, z)[i] = <<x, y, z>>[i]
    BY <1>1, AppendProperties
  <1> HIDE DEF S
  <1> QED
    BY ONLY <1>1, <1>2, SeqEqual

LEMMA Appended ==
    /\ Append(<<>>, "manifest") = <<"manifest">> /\ Append(<<>>, "program") = <<"program">>
    /\ Append(<<"program">>, "code") = <<"program", "code">>
    /\ Append(<<"program", "code">>, "manifest") = <<"program", "code", "manifest">>
    /\ Append(<<"manifest">>, "program") = <<"manifest", "program">>
    /\ Append(<<"manifest", "program">>, "code") = <<"manifest", "program", "code">>
  <1>1. \A x : Append(<<>>, x) = <<x>>
    OBVIOUS
  <1> QED
    BY <1>1, AppendTwo, AppendThree

LEMMA SuffixesAreSequences == Suffixes \subseteq Seq(Paths)
  BY PathsAre DEF Suffixes, Orders

LEMMA Tails ==
    ASSUME NEW s \in Suffixes, s # <<>>
    PROVE  /\ Tail(s) \in Suffixes /\ Head(s) \in {"program", "code", "manifest"}
           /\ Entries(s) = {Head(s)} \cup Entries(Tail(s))
           /\ Head(s) \notin Entries(Tail(s))
           /\ Tail(s) \in {<<"code">>, <<"code", "manifest">>} => Head(s) = "program"
  <1>1. \A x : Head(<<x>>) = x /\ Tail(<<x>>) = <<>>
    OBVIOUS
  <1>2. \A x, y : Head(<<x, y>>) = x /\ Tail(<<x, y>>) = <<y>>
    OBVIOUS
  <1>3. \A x, y, z : Head(<<x, y, z>>) = x /\ Tail(<<x, y, z>>) = <<y, z>>
    OBVIOUS
  <1>4. s \in {<<"manifest">>, <<"program">>, <<"program", "code">>, <<"code">>,
               <<"code", "manifest">>, <<"program", "code", "manifest">>,
               <<"manifest", "program", "code">>}
    BY DEF Suffixes, Orders
  <1>5. CASE s = <<"manifest">>
    <2>1. Head(s) = "manifest" /\ Tail(s) = <<>>
      BY <1>1, <1>5
    <2> QED
      BY <2>1, <1>5, EntriesAre DEF Suffixes, Orders
  <1>6. CASE s = <<"program">>
    <2>1. Head(s) = "program" /\ Tail(s) = <<>>
      BY <1>1, <1>6
    <2> QED
      BY <2>1, <1>6, EntriesAre DEF Suffixes, Orders
  <1>7. CASE s = <<"code">>
    <2>1. Head(s) = "code" /\ Tail(s) = <<>>
      BY <1>1, <1>7
    <2> QED
      BY <2>1, <1>7, EntriesAre DEF Suffixes, Orders
  <1>8. CASE s = <<"program", "code">>
    <2>1. Head(s) = "program" /\ Tail(s) = <<"code">>
      BY <1>2, <1>8
    <2> QED
      BY <2>1, <1>8, EntriesAre DEF Suffixes, Orders
  <1>9. CASE s = <<"code", "manifest">>
    <2>1. Head(s) = "code" /\ Tail(s) = <<"manifest">>
      BY <1>2, <1>9
    <2> QED
      BY <2>1, <1>9, EntriesAre DEF Suffixes, Orders
  <1>10. CASE s = <<"program", "code", "manifest">>
    <2>1. Head(s) = "program" /\ Tail(s) = <<"code", "manifest">>
      BY <1>3, <1>10
    <2> QED
      BY <2>1, <1>10, EntriesAre DEF Suffixes, Orders
  <1>11. CASE s = <<"manifest", "program", "code">>
    <2>1. Head(s) = "manifest" /\ Tail(s) = <<"program", "code">>
      BY <1>3, <1>11
    <2> QED
      BY <2>1, <1>11, EntriesAre DEF Suffixes, Orders
  <1> QED
    BY <1>4, <1>5, <1>6, <1>7, <1>8, <1>9, <1>10, <1>11

-----------------------------------------------------------------------------
(* What recording adds to a record.                                        *)

LEMMA Blank == Empty \in Manifests /\ Sound(Empty) /\ Empty.files = <<>>
  BY DEF Empty, Manifests, Sound, Orders, Rcs

LEMMA Unclaimed ==
    ASSUME Typed, Kept, NEW p \in Paths
    PROVE  Missing(p) \subseteq Above[p] /\ Missing(p) \cap fs = {}
           /\ (Missing(p) \cap Parents) \cap theirs = {}
  BY PathsAre DEF Missing, Kept, Typed, Parents

LEMMA OwnedDirAdded ==
    ASSUME Typed, Kept, NEW m \in Manifests, Sound(m), NEW p \in OwnDirs
    PROVE  LET n == AddOwnedDir(m, p) IN
           /\ n \in Manifests /\ Sound(n)
           /\ n.files = m.files /\ n.owned = m.owned \cup {p} /\ n.blocks = m.blocks
           /\ n.created = m.created \cup (IF p \in m.owned THEN {} ELSE Missing(p))
  <1>1. p \in Paths /\ Missing(p) \subseteq Parents
    BY PathsAre, AboveIs, Unclaimed DEF OwnDirs, Parents
  <1>2. CASE p \in m.owned
    BY <1>2 DEF AddOwnedDir
  <1>3. CASE p \notin m.owned
    <2> DEFINE n == [files |-> m.files, owned |-> m.owned \cup {p},
                     created |-> m.created \cup Missing(p), blocks |-> m.blocks]
    <2>1. (m.created \cup (Missing(p) \ m.owned)) \ {p} = m.created \cup Missing(p)
      BY <1>1 DEF Sound, Parents, OwnDirs
    <2>2. AddOwnedDir(m, p) = n
      BY <1>3, <2>1 DEF AddOwnedDir, Manifests
    <2>3. n \in Manifests
      BY <1>1, PathsAre DEF Manifests, Parents
    <2>4. Sound(n)
      BY <1>1, Unclaimed DEF Sound
    <2> QED
      BY <1>3, <2>2, <2>3, <2>4
  <1> QED
    BY <1>2, <1>3

LEMMA FileAdded ==
    ASSUME NEW m \in Manifests, NEW p \in Paths
    PROVE  LET n == AddFile(m, p) IN
           /\ n \in Manifests
           /\ n.files = IF p \in Entries(m.files) THEN m.files ELSE Append(m.files, p)
           /\ n.owned = m.owned /\ n.blocks = m.blocks
           /\ n.created = m.created \cup
                 (IF p \in Entries(m.files) THEN {} ELSE Missing(p) \ m.owned)
  <1>1. Missing(p) \subseteq Paths
    BY PathsAre, AboveIs DEF Missing
  <1>2. CASE p \in Entries(m.files)
    BY <1>2 DEF AddFile
  <1>3. CASE p \notin Entries(m.files)
    <2> DEFINE n == [files |-> Append(m.files, p), owned |-> m.owned,
                     created |-> m.created \cup (Missing(p) \ m.owned), blocks |-> m.blocks]
    <2>1. AddFile(m, p) = n
      BY <1>3 DEF AddFile, Manifests
    <2>2. n \in Manifests
      BY <1>1 DEF Manifests
    <2> QED
      BY <1>3, <2>1, <2>2
  <1> QED
    BY <1>2, <1>3

LEMMA ProgramAdded ==
    ASSUME Typed, Kept, NEW m \in Manifests, Sound(m), m.files # <<"program">>
    PROVE  LET n == AddFile(AddFile(m, "program"), "code") IN
           /\ n \in Manifests /\ Sound(n)
           /\ n.owned = m.owned /\ n.blocks = m.blocks
           /\ "program" \in Entries(m.files) => n.files = m.files
           /\ "program" \notin Entries(m.files) =>
                 n.files = IF m.files = <<>> THEN <<"program", "code">>
                           ELSE <<"manifest", "program", "code">>
           /\ n.created = m.created \cup
                 (IF "program" \in Entries(m.files) THEN {}
                  ELSE Missing("program") \cup Missing("code"))
  <1> DEFINE x == AddFile(m, "program")
             n == AddFile(x, "code")
  <1>1. "program" \in Paths /\ "code" \in Paths
    BY PathsAre
  <1>2. Missing("program") \cup Missing("code") \subseteq Parents \ OwnDirs
    BY AboveIs DEF Missing, Parents, OwnDirs
  <1>3. (Missing("program") \cup Missing("code")) \cap theirs = {}
    BY <1>1, <1>2, Unclaimed
  <1>4. CASE "program" \in Entries(m.files)
    <2>1. "code" \in Entries(m.files)
      BY <1>4, EntriesAre DEF Sound, Orders
    <2>2. n = m
      BY <1>4, <2>1 DEF AddFile
    <2> QED
      BY <1>4, <2>2
  <1>5. CASE "program" \notin Entries(m.files)
    <2>1. m.files \in {<<>>, <<"manifest">>}
      BY <1>5, EntriesAre DEF Sound, Orders
    <2>2. /\ x \in Manifests /\ x.owned = m.owned /\ x.blocks = m.blocks
          /\ x.files = Append(m.files, "program")
          /\ x.created = m.created \cup (Missing("program") \ m.owned)
      BY <1>1, <1>5, FileAdded
    <2>3. "code" \notin Entries(x.files)
      <3>1. \A y, z : Entries(<<y, z>>) = {y, z}
        BY DEF Entries
      <3>2. x.files \in {<<"program">>, <<"manifest", "program">>}
        BY <2>1, <2>2, Appended
      <3> HIDE DEF x
      <3> QED
        BY <3>1, <3>2, EntriesAre
    <2>4. /\ n \in Manifests /\ n.owned = x.owned /\ n.blocks = x.blocks
          /\ n.files = Append(x.files, "code")
          /\ n.created = x.created \cup (Missing("code") \ x.owned)
      <3> HIDE DEF x
      <3> QED
        BY <1>1, <2>2, <2>3, FileAdded
    <2>5. n.files = IF m.files = <<>> THEN <<"program", "code">>
                    ELSE <<"manifest", "program", "code">>
      BY <2>1, <2>2, <2>4, Appended
    <2>6. n.created = m.created \cup (Missing("program") \cup Missing("code"))
      <3> HIDE DEF n, x
      <3> QED
        BY <1>2, <2>2, <2>4 DEF Sound
    <2>7. Sound(n)
      <3> HIDE DEF n, x
      <3> QED
        BY <1>2, <1>3, <2>2, <2>4, <2>5, <2>6 DEF Sound, Orders
    <2> QED
      BY <1>5, <2>2, <2>4, <2>5, <2>6, <2>7
  <1> QED
    BY <1>4, <1>5

LEMMA ManifestAdded ==
    ASSUME Typed, Kept, NEW m \in Manifests, Sound(m), m.files # <<"program">>,
           "config" \in m.owned
    PROVE  LET n == AddFile(m, "manifest") IN
           /\ n \in Manifests /\ Sound(n) /\ n.files \in Saved
           /\ n.owned = m.owned /\ n.blocks = m.blocks
           /\ Entries(n.files) = Entries(m.files) \cup {"manifest"}
           /\ n.created = m.created \cup
                 (IF "manifest" \in Entries(m.files) THEN {} ELSE Missing("manifest") \ m.owned)
  <1> DEFINE n == AddFile(m, "manifest")
  <1>1. "manifest" \in Paths
    BY PathsAre
  <1>2. Missing("manifest") \ m.owned \subseteq Parents \ theirs
    BY <1>1, AboveIs, Unclaimed DEF Parents
  <1>3. n \in Manifests /\ n.owned = m.owned /\ n.blocks = m.blocks
        /\ n.files = (IF "manifest" \in Entries(m.files) THEN m.files
                      ELSE Append(m.files, "manifest"))
        /\ n.created = m.created \cup
                 (IF "manifest" \in Entries(m.files) THEN {} ELSE Missing("manifest") \ m.owned)
    BY <1>1, FileAdded
  <1>4. n.files \in Saved /\ n.files \in Orders
        /\ Entries(n.files) = Entries(m.files) \cup {"manifest"}
    BY <1>3, EntriesAre, Appended DEF Sound, Saved, Orders
  <1>5. Sound(n)
    BY <1>2, <1>3, <1>4 DEF Sound
  <1> QED
    BY <1>3, <1>4, <1>5

LEMMA BlockAdded ==
    ASSUME Typed, Kept, NEW m \in Manifests, Sound(m), NEW r \in Rcs
    PROVE  LET n == AddBlock(m, r) IN
           /\ n \in Manifests /\ Sound(n)
           /\ n.files = m.files /\ n.owned = m.owned
           /\ \A q \in Rcs : n.blocks[q] =
                 IF q = r /\ m.blocks[r] = "none" THEN IF r \in fs THEN "added" ELSE "created"
                 ELSE m.blocks[q]
           /\ n.created = m.created \cup
                 (IF m.blocks[r] = "none" THEN Missing(r) ELSE {})
  <1>1. r \in Paths /\ Missing(r) \subseteq Parents \ OwnDirs
    BY PathsAre, AboveIs DEF Missing, Parents, OwnDirs, Rcs
  <1>2. Missing(r) \cap theirs = {} /\ Missing(r) \ m.owned = Missing(r)
    BY <1>1, Unclaimed DEF Sound
  <1>3. CASE m.blocks[r] # "none"
    BY <1>3 DEF AddBlock
  <1>4. CASE m.blocks[r] = "none"
    <2> DEFINE word == IF r \in fs THEN "added" ELSE "created"
               blocks == [m.blocks EXCEPT ![r] = word]
               n == [files |-> m.files, owned |-> m.owned,
                     created |-> m.created \cup Missing(r), blocks |-> blocks]
    <2>1. AddBlock(m, r) = n
      BY <1>2, <1>4 DEF AddBlock, Manifests
    <2>2. /\ blocks \in [Rcs -> {"none", "added", "created"}] /\ blocks[r] = word
          /\ \A q \in Rcs : q # r => blocks[q] = m.blocks[q]
      BY DEF Manifests
    <2>3. n \in Manifests
      BY <1>1, <2>2, PathsAre DEF Manifests, Parents
    <2>4. r \in fs \/ r \notin theirs
      BY DEF Kept, Rcs
    <2>5. Sound(n)
      BY <1>1, <1>2, <2>2, <2>4 DEF Sound
    <2> QED
      BY <1>4, <2>1, <2>2, <2>3, <2>5
  <1> QED
    BY <1>3, <1>4

-----------------------------------------------------------------------------
(* First layer: every step preserves Base, with any number of crashes.     *)

LEMMA InitBase == Init => Base
  <1> SUFFICES ASSUME Init PROVE Base
    OBVIOUS
  <1> USE DEF Init
  <1>1. Typed
    <2>1. fs \subseteq TheirPaths /\ theirs = fs /\ TheirPaths \subseteq Paths
      BY PathsAre DEF TheirPaths
    <2>2. text \in [Rcs -> BOOLEAN] /\ block \in [Rcs -> BOOLEAN]
      OBVIOUS
    <2>3. todo \in Suffixes
      BY DEF Suffixes, Orders
    <2>4. disk \in Manifests /\ mem \in Manifests /\ shell \in Rcs
      BY Blank DEF Rcs
    <2>5. installs \in 0..MaxInstalls /\ {crashes, serves} \subseteq 0..MaxTroubles
      BY RemoteSideAssumption
    <2>6. /\ pc = "idle" /\ sockdir = "cache" /\ target = "cache" /\ told = "nothing"
          /\ known = "no" /\ exposed = FALSE /\ made = {}
          /\ tunnel \in [Sources -> {"none", "cache", "tmp"}]
      BY DEF NoTunnel, Sources
    <2> HIDE DEF Init
    <2> QED
      BY <2>1, <2>2, <2>3, <2>4, <2>5, <2>6 DEF Typed
  <1>2. Recorded
    BY Blank DEF Recorded, Installing, Uninstalling, Saved, TheirPaths
  <1>3. Kept
    BY DEF Kept
  <1>4. Merged
    BY DEF Merged, Installing
  <1> QED
    BY <1>1, <1>2, <1>3, <1>4 DEF Base

USE DEF userVars, hostVars, place, counters, vars, Step

LEMMA MakeBase ==
    ASSUME Base, NEW ps \in SUBSET Paths, Make(ps)
    PROVE  fs' \subseteq Paths /\ made' \subseteq Paths /\ fs \subseteq fs'
           /\ fs' \ fs \subseteq ps \cup UNION {Above[p] : p \in ps}
  <1>1. \A p \in Paths : Above[p] \subseteq Paths
    BY AboveIs, PathsAre
  <1>2. UNION {Above[p] : p \in ps} \subseteq Paths
    BY <1>1
  <1> QED
    BY <1>2 DEF Base, Typed, Make

LEMMA LoadIs ==
    ASSUME Base
    PROVE  /\ Load \in Manifests /\ Sound(Load) /\ Load.files \in Saved
           /\ "manifest" \in fs => Load = disk
  BY Blank DEF Base, Typed, Recorded, Load, Saved

\* What a stop leaves is none, or was there before.
LEMMA Stops ==
    ASSUME Typed, StopService \/ tunnel' \in Without("serve") \/ UNCHANGED tunnel
    PROVE  /\ tunnel' \in [Sources -> {"none", "cache", "tmp"}]
           /\ \A b \in Sources : tunnel'[b] = "none" \/ \E c \in Sources : tunnel'[b] = tunnel[c]
  <1>1. \/ UNCHANGED tunnel
        \/ \E c \in Bridges : tunnel' \in Without(c)
    BY DEF StopService, Bridges
  <1>2. CASE UNCHANGED tunnel
    BY <1>2 DEF Typed
  <1>3. ASSUME NEW c \in Bridges, tunnel' \in Without(c)
        PROVE  /\ tunnel' \in [Sources -> {"none", "cache", "tmp"}]
               /\ \A b \in Sources : tunnel'[b] \in {"none", tunnel[b], tunnel[c]}
    BY <1>3 DEF Without, Typed, Sources, Bridges
  <1> QED
    BY <1>1, <1>2, <1>3 DEF Sources

LEMMA InstallStartBase == ASSUME Base, NEW r \in Rcs, InstallStart(r) PROVE Base'
  <1> USE DEF Base, InstallStart
  <1>1. CASE "own_code" \in fs
    <2>1. Typed'
      BY <1>1, RemoteSideAssumption DEF Typed
    <2>2. (Recorded /\ Kept /\ Merged)'
      BY <1>1 DEF Recorded, Kept, Merged, Sound, Grown
    <2> QED
      BY <2>1, <2>2
  <1>2. CASE "own_code" \notin fs
    <2> DEFINE n == AddOwnedDir(Load, "config")
    <2>1. /\ n \in Manifests /\ Sound(n)
          /\ n.files = Load.files /\ n.owned = Load.owned \cup {"config"} /\ n.blocks = Load.blocks
          /\ Load.created \subseteq n.created
      BY LoadIs, OwnedDirAdded DEF OwnDirs
    <2>2. mem' = n
      BY <1>2
    <2> HIDE DEF n
    <2>3. Typed'
      BY <1>2, <2>1, <2>2, RemoteSideAssumption DEF Typed, Installing
    <2>4. Recorded'
      BY <1>2, <2>1, <2>2, LoadIs DEF Recorded, Installing, Uninstalling, Sound, Saved
    <2>5. Kept'
      BY DEF Kept
    <2>6. Merged'
      BY <1>2, <2>1, <2>2, LoadIs DEF Merged, Grown, Typed, Manifests
    <2> QED
      BY <2>3, <2>4, <2>5, <2>6
  <1> QED
    BY <1>1, <1>2

LEMMA ChooseSocketBase == ASSUME Base, ChooseSocket \/ NoSocket PROVE Base'
  <1> USE DEF Base
  <1> DEFINE x == AddOwnedDir(mem, "cache")
             n == AddOwnedDir(x, "tmp")
  <1>1. /\ x \in Manifests /\ Sound(x) /\ x.files = mem.files
        /\ x.owned = mem.owned \cup {"cache"} /\ x.blocks = mem.blocks /\ mem.created \subseteq x.created
    BY OwnedDirAdded DEF OwnDirs, Typed, Recorded
  <1>2. /\ n \in Manifests /\ Sound(n) /\ n.files = x.files
        /\ n.owned = x.owned \cup {"tmp"} /\ n.blocks = x.blocks /\ x.created \subseteq n.created
    <2> HIDE DEF x
    <2> QED
      BY <1>1, OwnedDirAdded DEF OwnDirs
  <1>3. mem' \in {x, n}
    BY DEF ChooseSocket, NoSocket
  <1> HIDE DEF x, n
  <1>4. pc = "socket" /\ pc' \in {"program", "nosocket"}
        /\ (pc' = "program" => sockdir' \in mem'.owned)
    BY <1>1, <1>2 DEF ChooseSocket, NoSocket, x, n
  <1>5. fs' \subseteq Paths /\ made' \subseteq Paths /\ fs \subseteq fs'
        /\ fs' \ fs \subseteq {"cache", "tmp", "cache_home"}
    BY MakeBase, PathsAre, AboveIs DEF ChooseSocket, NoSocket
  <1>6. Typed'
    BY <1>1, <1>2, <1>3, <1>5 DEF Typed, ChooseSocket, NoSocket, Installing
  <1>7. Recorded'
    BY <1>1, <1>2, <1>3, <1>4, <1>5
       DEF Recorded, ChooseSocket, NoSocket, Installing, Uninstalling, Sound
  <1>8. Kept'
    BY <1>5 DEF Kept, ChooseSocket, NoSocket
  <1>9. Merged'
    <2>1. Grown(disk, mem') \/ "manifest" \notin fs'
      BY <1>1, <1>2, <1>3, <1>4, <1>5 DEF Merged, Grown, Installing
    <2> QED
      BY <2>1 DEF Merged, Grown, ChooseSocket, NoSocket
  <1> QED
    BY <1>6, <1>7, <1>8, <1>9

LEMMA PutProgramBase == ASSUME Base, PutProgram PROVE Base'
  <1> USE DEF Base
  <1> DEFINE n == AddFile(AddFile(mem, "program"), "code")
  <1>1. /\ n \in Manifests /\ Sound(n) /\ n.owned = mem.owned /\ n.blocks = mem.blocks
        /\ Entries(mem.files) \subseteq Entries(n.files) /\ mem.created \subseteq n.created
        /\ n.files # <<"program">>
    <2>1. pc = "program" /\ mem.files # <<"program">> /\ mem.files \in Orders
      BY DEF PutProgram, Recorded, Installing, Sound
    <2>2. CASE "program" \in Entries(mem.files)
      BY <2>1, <2>2, ProgramAdded DEF Typed, Recorded
    <2>3. CASE "program" \notin Entries(mem.files)
      <3>1. mem.files \in {<<>>, <<"manifest">>}
        BY <2>1, <2>3, EntriesAre DEF Orders
      <3> HIDE DEF n
      <3> QED
        BY <2>1, <2>3, <3>1, ProgramAdded, EntriesAre DEF Typed, Recorded, n
    <2> QED
      BY <2>2, <2>3
  <1>2. mem' = n
    BY DEF PutProgram
  <1> HIDE DEF n
  <1>3. fs' \subseteq Paths /\ made' \subseteq Paths /\ fs \subseteq fs'
        /\ fs' \ fs \subseteq {"program", "bin", "local"}
    BY MakeBase, PathsAre, AboveIs DEF PutProgram
  <1>4. Typed'
    BY <1>1, <1>2, <1>3 DEF Typed, PutProgram, Installing
  <1>5. Recorded'
    BY <1>1, <1>2, <1>3 DEF Recorded, PutProgram, Installing, Uninstalling, Sound
  <1>6. Kept'
    BY <1>3 DEF Kept, PutProgram
  <1>7. Merged'
    BY <1>1, <1>2, <1>3 DEF Merged, Grown, PutProgram, Installing
  <1> QED
    BY <1>4, <1>5, <1>6, <1>7

LEMMA PutCodeBase == ASSUME Base, PutCode PROVE Base'
  <1> USE DEF Base, PutCode
  <1>1. Typed'
    BY PathsAre DEF Typed, Installing
  <1>2. Recorded'
    BY DEF Recorded, Installing, Uninstalling, Sound
  <1>3. Kept'
    BY DEF Kept
  <1>4. Merged'
    BY DEF Merged, Grown, Installing
  <1> QED
    BY <1>1, <1>2, <1>3, <1>4

LEMMA PutEnvBase == ASSUME Base, PutEnv PROVE Base'
  <1> USE DEF Base
  <1>1. fs' \subseteq Paths /\ made' \subseteq Paths /\ fs \subseteq fs'
        /\ fs' \ fs \subseteq {"env", "config", "config_home"}
    BY MakeBase, PathsAre, AboveIs DEF PutEnv
  <1> USE DEF PutEnv
  <1>2. Typed'
    BY <1>1 DEF Typed, Installing
  <1>3. Recorded'
    BY <1>1 DEF Recorded, Installing, Uninstalling, Sound
  <1>4. Kept'
    BY <1>1 DEF Kept
  <1>5. Merged'
    BY <1>1 DEF Merged, Grown, Installing
  <1> QED
    BY <1>2, <1>3, <1>4, <1>5

LEMMA PutRcBase == ASSUME Base, PutRc PROVE Base'
  <1> USE DEF Base
  <1> DEFINE n == AddBlock(mem, shell)
  <1>1. /\ n \in Manifests /\ Sound(n) /\ n.files = mem.files /\ n.owned = mem.owned
        /\ mem.created \subseteq n.created
        /\ \A r \in Rcs : mem.blocks[r] \in {"none", n.blocks[r]}
    BY BlockAdded DEF Typed, Recorded
  <1>2. mem' = n
    BY DEF PutRc
  <1> HIDE DEF n
  <1>3. fs' \subseteq Paths /\ made' \subseteq Paths /\ fs \subseteq fs'
        /\ fs' \ fs \subseteq {"bashrc", "fishrc", "fish", "config_home"}
    BY MakeBase, PathsAre, AboveIs DEF PutRc, Typed, Rcs
  <1>4. Typed'
    BY <1>1, <1>2, <1>3 DEF Typed, PutRc, Installing
  <1>5. Recorded'
    BY <1>1, <1>2, <1>3 DEF Recorded, PutRc, Installing, Uninstalling, Sound
  <1>6. Kept'
    BY <1>3 DEF Kept, PutRc
  <1>7. Merged'
    BY <1>1, <1>2, <1>3 DEF Merged, Grown, PutRc, Installing
  <1> QED
    BY <1>4, <1>5, <1>6, <1>7

LEMMA SaveBase == ASSUME Base, Save PROVE Base'
  <1> USE DEF Base
  <1> DEFINE n == AddFile(mem, "manifest")
  <1>1. pc \in Installing /\ pc' = "idle" /\ disk' = n /\ mem' = Empty
    BY DEF Save, Installing
  <1>2. n \in Manifests /\ Sound(n) /\ n.files \in Saved /\ "config" \in n.owned
    BY <1>1, ManifestAdded DEF Typed, Recorded
  <1> HIDE DEF n
  <1>3. fs' \subseteq Paths /\ made' \subseteq Paths /\ fs \subseteq fs'
    BY MakeBase, PathsAre DEF Save
  <1>8. /\ tunnel' \in [Sources -> {"none", "cache", "tmp"}] /\ known' \in {"no", "yes", "service"}
        /\ target' \in {"cache", "tmp"} /\ shell' \in Rcs
    BY Stops DEF Save, Typed, Rcs, Sources, Bridges
  <1>4. Typed'
    BY <1>1, <1>2, <1>3, <1>8, Blank DEF Typed, Save
  <1>5. Recorded'
    <2>1. Sound(Empty)'
      BY DEF Sound, Empty, Save, Orders
    <2> QED
      BY <1>1, <1>2, <2>1 DEF Recorded, Save, Installing, Uninstalling, Sound
  <1>6. Kept'
    BY <1>3 DEF Kept, Save
  <1>7. Merged'
    BY <1>1 DEF Merged, Installing
  <1> QED
    BY <1>4, <1>5, <1>6, <1>7

LEMMA FallbackIs ==
    ASSUME NEW link \in BOOLEAN
    PROVE  Fallback(link) \in Manifests /\ Sound(Fallback(link)) /\ "config" \in Fallback(link).owned
  <1> DEFINE first == IF "program" \in fs THEN <<"program">> ELSE <<>>
             second == IF "program" \in fs /\ ("code" \in fs \/ ("own_code" \in fs /\ link))
                       THEN <<"code">> ELSE <<>>
             files == first \o second
  <1>1. files \in {<<>>, <<"program">>, <<"program", "code">>}
    <2>1. <<"program">> \o <<>> = <<"program">> /\ <<>> \o <<>> = <<>>
      OBVIOUS
    <2>2. <<"program">> \o <<"code">> = <<"program", "code">>
      <3>1. <<"program">> \in Seq(Paths) /\ "code" \in Paths
        BY PathsAre
      <3> QED
        BY <3>1, AppendIsConcat, AppendTwo
    <2>3. CASE "program" \notin fs
      BY <2>1, <2>3
    <2>4. CASE "program" \in fs
      <3>1. first = <<"program">> /\ second \in {<<>>, <<"code">>}
        BY <2>4
      <3> HIDE DEF first, second
      <3> QED
        BY <2>1, <2>2, <3>1
    <2> QED
      BY <2>3, <2>4
  <1>2. Fallback(link) = [files |-> files, owned |-> {"config", "cache"}, created |-> {},
                          blocks |-> [r \in Rcs |-> "added"]]
    BY DEF Fallback
  <1> HIDE DEF files
  <1>3. files \in Orders /\ files \in Seq(Paths)
    BY <1>1, SuffixesAreSequences DEF Orders, Suffixes
  <1> QED
    BY <1>2, <1>3, PathsAre DEF Manifests, Sound, OwnDirs

LEMMA UninstallStartBase == ASSUME Base, UninstallStart PROVE Base'
  <1> USE DEF Base, UninstallStart, StopBridges
  <1>1. mem' \in Manifests /\ Sound(mem') /\ "config" \in mem'.owned
    BY FallbackIs DEF Typed, Recorded
  <1>2. Typed'
    BY <1>1, Stops DEF Typed, Uninstalling
  <1>3. Recorded'
    BY <1>1 DEF Recorded, Installing, Uninstalling, Sound
  <1>4. (Kept /\ Merged)'
    BY DEF Kept, Merged, Installing
  <1> QED
    BY <1>2, <1>3, <1>4

LEMMA NothingToRunBase == ASSUME Base, NothingToRun PROVE Base'
  <1> USE DEF Base, NothingToRun, StopBridges
  <1>1. Typed'
    BY Stops DEF Typed
  <1>2. (Recorded /\ Kept /\ Merged)'
    BY DEF Recorded, Kept, Merged, Sound, Grown
  <1> QED
    BY <1>1, <1>2

LEMMA UndoBlocksBase == ASSUME Base, UndoBlocks PROVE Base'
  <1> USE DEF Base
  <1> DEFINE emptied == {r \in {r \in Rcs : mem.blocks[r] # "none" /\ r \in fs} :
                            mem.blocks[r] = "created" /\ ~text[r]}
  <1>1. fs' = fs \ emptied /\ made' = made \ emptied /\ emptied \subseteq Rcs
    BY DEF UndoBlocks, Remove
  <1>2. emptied \cap theirs = {}
    BY DEF Recorded, Sound
  <1> HIDE DEF emptied
  <1>3. Typed'
    BY <1>1 DEF Typed, Uninstalling, UndoBlocks, Sound, Suffixes, Recorded
  <1>4. Recorded'
    BY <1>1 DEF Recorded, Installing, Uninstalling, Sound, UndoBlocks, Rcs
  <1>5. Kept'
    BY <1>1, <1>2 DEF Kept, UndoBlocks
  <1>6. Merged'
    BY DEF Merged, Installing, UndoBlocks
  <1> QED
    BY <1>3, <1>4, <1>5, <1>6

LEMMA UndoFileBase == ASSUME Base, UndoFile PROVE Base'
  <1> USE DEF Base
  <1>1. /\ todo # <<>> /\ todo' = Tail(todo) /\ todo' \in Suffixes
        /\ Head(todo) \in {"program", "code", "manifest"}
    BY Tails DEF UndoFile, Typed
  <1>2. /\ fs' \subseteq fs /\ made' \subseteq made
        /\ fs \ fs' \subseteq {"program", "code", "manifest", "own_code"}
    BY <1>1 DEF UndoFile, Remove
  <1>3. Typed'
    BY <1>1, <1>2 DEF Typed, UndoFile
  <1>4. Recorded'
    BY <1>2 DEF Recorded, Installing, Uninstalling, Sound, UndoFile
  <1>5. Kept'
    BY <1>2 DEF Kept, UndoFile, Typed, TheirPaths
  <1>6. Merged'
    BY DEF Merged, Installing, UndoFile
  <1> QED
    BY <1>3, <1>4, <1>5, <1>6

LEMMA UndoOwnedBase == ASSUME Base, UndoOwned PROVE Base'
  <1> USE DEF Base
  <1>1. /\ fs' \subseteq fs /\ made' \subseteq made
        /\ fs \ fs' \subseteq OwnDirs \cup {"env", "manifest"}
    BY BelowIs DEF UndoOwned, Remove, Recorded, Sound, OwnDirs
  <1>2. Typed'
    BY <1>1 DEF Typed, UndoOwned, Uninstalling
  <1>3. Recorded'
    BY <1>1 DEF Recorded, Installing, Uninstalling, Sound, UndoOwned
  <1>4. Kept'
    BY <1>1 DEF Kept, UndoOwned, Typed, TheirPaths, OwnDirs
  <1>5. Merged'
    BY DEF Merged, Installing, UndoOwned
  <1> QED
    BY <1>2, <1>3, <1>4, <1>5

LEMMA UndoCreatedBase == ASSUME Base, UndoCreated PROVE Base'
  <1> USE DEF Base
  <1>1. fs' \subseteq fs /\ made' \subseteq made /\ fs \ fs' \subseteq mem.created
    BY DEF UndoCreated, Remove
  <1>2. Typed'
    BY <1>1, Blank, Stops DEF Typed, UndoCreated
  <1>3. Recorded'
    <2>1. Sound(Empty)'
      BY DEF Sound, Empty, UndoCreated, Orders
    <2> QED
      BY <1>1, <2>1 DEF Recorded, UndoCreated, Installing, Uninstalling, Sound
  <1>4. Kept'
    BY <1>1 DEF Kept, UndoCreated, Recorded, Sound
  <1>5. Merged'
    BY DEF Merged, Installing, UndoCreated
  <1> QED
    BY <1>2, <1>3, <1>4, <1>5

LEMMA CrashBase == ASSUME Base, Crash PROVE Base'
  <1> USE DEF Base, Crash
  <1>1. Typed'
    <2>1. /\ crashes' \in 0..MaxTroubles /\ shell' \in Rcs
          /\ tunnel' \in [Sources -> {"none", "cache", "tmp"}]
      BY RemoteSideAssumption DEF Typed, Rcs, Sources, Bridges
    <2> QED
      BY <2>1, Blank DEF Typed, Suffixes, Orders
  <1>2. Recorded'
    <2>1. Sound(Empty)'
      BY DEF Sound, Empty, Orders
    <2> QED
      BY <2>1 DEF Recorded, Installing, Uninstalling, Sound
  <1>3. (Kept /\ Merged)'
    BY DEF Kept, Merged, Installing
  <1> QED
    BY <1>1, <1>2, <1>3

LEMMA ServeBase == ASSUME Base, ServeStart \/ ServeStop PROVE Base'
  <1> USE DEF Base
  <1>1. tunnel' \in [Sources -> {"none", "cache", "tmp"}]
    BY Stops DEF ServeStart, ServeStop, Typed, Sources, Bridges
  <1>2. serves' \in 0..MaxTroubles
    BY RemoteSideAssumption DEF ServeStart, ServeStop, Typed
  <1> USE DEF ServeStart, ServeStop
  <1>3. Typed'
    BY <1>1, <1>2 DEF Typed
  <1>4. Recorded'
    BY DEF Recorded, Sound
  <1>5. (Kept /\ Merged)'
    BY DEF Kept, Merged, Grown
  <1> QED
    BY <1>3, <1>4, <1>5

LEMMA PrepBase == ASSUME Base, NEW b \in Sources, Prep(b) PROVE Base'
  <1> USE DEF Base
  <1>1. tunnel[b] \in {"cache", "tmp"} /\ tunnel' \in [Sources -> {"none", "cache", "tmp"}]
    BY DEF Prep, Typed
  <1>2. fs' \subseteq Paths /\ made' \subseteq Paths /\ fs \subseteq fs'
        /\ fs' \ fs \subseteq {"cache", "cache_home", "tmp"}
    BY <1>1, MakeBase, PathsAre, AboveIs DEF Prep
  <1> USE DEF Prep
  <1>3. Typed'
    BY <1>1, <1>2 DEF Typed
  <1>4. Recorded'
    BY <1>2 DEF Recorded, Sound
  <1>5. (Kept /\ Merged)'
    BY <1>2 DEF Kept, Merged, Grown
  <1> QED
    BY <1>3, <1>4, <1>5

LEMMA UserWritesBase ==
    ASSUME Base, NEW p \in {"tool", "app", "own_code"}, UserWrites(p)
    PROVE  Base'
  <1> USE DEF Base, UserWrites
  <1>1. Typed'
    BY PathsAre DEF Typed, TheirPaths
  <1>2. Recorded'
    BY DEF Recorded, Sound, Parents, Rcs
  <1>3. (Kept /\ Merged)'
    BY DEF Kept, Merged, Grown
  <1> QED
    BY <1>1, <1>2, <1>3

LEMMA UserEditsRcBase == ASSUME Base, NEW r \in Rcs, UserEditsRc(r) PROVE Base'
  <1> USE DEF Base, UserEditsRc
  <1>1. Typed'
    BY PathsAre DEF Typed, TheirPaths, Rcs
  <1>2. Recorded'
    BY DEF Recorded, Sound, Parents, Rcs, Typed
  <1>3. (Kept /\ Merged)'
    BY DEF Kept, Merged, Grown, Typed
  <1> QED
    BY <1>1, <1>2, <1>3

LEMMA StepBase == Base /\ [Next]_vars => Base'
  <1> SUFFICES ASSUME Base, [Next]_vars PROVE Base'
    OBVIOUS
  <1>1. CASE UNCHANGED vars
    BY <1>1 DEF Base, Typed, Recorded, Kept, Merged, Sound, Grown
  <1>2. CASE Next
    BY <1>2, InstallStartBase, ChooseSocketBase, PutProgramBase, PutCodeBase, PutEnvBase,
       PutRcBase, SaveBase, UninstallStartBase, NothingToRunBase, UndoBlocksBase,
       UndoFileBase, UndoOwnedBase, UndoCreatedBase, CrashBase, ServeBase, PrepBase,
       UserWritesBase, UserEditsRcBase DEF Next
  <1> QED
    BY <1>1, <1>2

-----------------------------------------------------------------------------
(* The tree: nothing exists without the directories above it, and what exists is    *)
(* the user's or was made by us.                                                    *)

LEMMA AboveAbove == \A p, q \in Paths : p \in Above[q] => Above[p] \subseteq Above[q]
  BY DEF Above, Paths

LEMMA BelowBelow ==
    ASSUME NEW p \in Paths, NEW q \in Below(p)
    PROVE  q \in Paths /\ Below(q) \subseteq Below(p)
  BY AboveAbove DEF Below

LEMMA Leaves ==
    \A p \in {"program", "code", "manifest", "own_code", "bashrc", "fishrc"} :
        Below(p) = {} /\ \A q \in Paths : p \notin Above[q]
  BY PathsAre, AboveIs DEF Below

Tree ==
    /\ \A p \in fs : Above[p] \subseteq fs
    /\ fs \subseteq theirs \cup made
    /\ made \subseteq fs /\ made \cap {"tool", "app", "own_code"} = {}
    /\ pc = "code" => "program" \in fs

LEMMA InitTree == Init => Tree
  BY DEF Init, Tree

LEMMA MakeTree ==
    ASSUME Base, Tree, NEW ps \in SUBSET (Paths \ {"tool", "app", "own_code"}), Make(ps),
           UNCHANGED theirs, pc' = "code" => "program" \in fs'
    PROVE  Tree'
  <1> DEFINE above == UNION {Above[p] : p \in ps}
  <1>1. fs' = fs \cup ps \cup above /\ made' = made \cup ((ps \cup above) \ fs)
    BY DEF Make
  <1>2. above \subseteq Paths \ {"tool", "app", "own_code"}
    <2>1. \A p \in Paths : Above[p] \subseteq Paths \ {"tool", "app", "own_code"}
      BY PathsAre, AboveIs
    <2> QED
      BY <2>1
  <1>3. \A p \in ps : Above[p] \subseteq above
    OBVIOUS
  <1>4. \A p \in above : Above[p] \subseteq above
    BY AboveAbove, <1>2
  <1> HIDE DEF above
  <1>5. \A p \in fs' : Above[p] \subseteq fs'
    BY <1>1, <1>3, <1>4 DEF Tree
  <1> QED
    BY <1>1, <1>2, <1>5 DEF Tree, Base, Typed

LEMMA RemoveTree ==
    ASSUME Base, Tree, NEW ps, Remove(ps), \A p \in ps \cap fs : Below(p) \cap fs \subseteq ps,
           UNCHANGED theirs, pc' # "code"
    PROVE  Tree'
  BY DEF Tree, Base, Typed, Below, Remove

LEMMA StepTree == Base /\ Tree /\ [Next]_vars => Tree'
  <1> SUFFICES ASSUME Base, Tree, [Next]_vars PROVE Tree'
    OBVIOUS
  <1>1. CASE UNCHANGED vars
    BY <1>1 DEF Tree
  <1>2. CASE \/ \E r \in Rcs : InstallStart(r) \/ UserEditsRc(r)
             \/ UninstallStart \/ NothingToRun \/ Crash \/ ServeStart \/ ServeStop
    BY <1>2 DEF Tree, InstallStart, UserEditsRc, UninstallStart, NothingToRun, Crash,
                ServeStart, ServeStop
  <1>3. CASE ChooseSocket
    BY <1>3, MakeTree, PathsAre DEF ChooseSocket
  <1>4. CASE NoSocket
    BY <1>4, MakeTree, PathsAre DEF NoSocket
  <1>5. CASE PutProgram
    <2>1. "program" \in fs'
      BY <1>5 DEF PutProgram, Make
    <2> QED
      BY <1>5, <2>1, MakeTree, PathsAre DEF PutProgram
  <1>6. CASE PutEnv
    BY <1>6, MakeTree, PathsAre DEF PutEnv
  <1>7. CASE PutRc
    BY <1>7, MakeTree, PathsAre DEF PutRc, Base, Typed, Rcs
  <1>8. CASE Save
    BY <1>8, MakeTree, PathsAre DEF Save
  <1>9. CASE \E b \in Sources : Prep(b)
    <2>1. PICK b \in Sources : Prep(b)
      BY <1>9
    <2>2. pc' = pc /\ UNCHANGED theirs
      BY <2>1 DEF Prep
    <2>3. tunnel[b] \in {"cache", "tmp"} /\ Make({tunnel[b]})
      BY <2>1 DEF Prep, Base, Typed
    <2>4. pc' = "code" => "program" \in fs'
      BY <2>2, <2>3 DEF Tree, Make
    <2> QED
      BY <2>2, <2>3, <2>4, MakeTree, PathsAre
  <1>10. CASE PutCode
    <2>1. {"bin", "local"} \subseteq fs
      BY <1>10, AboveIs DEF PutCode, Tree
    <2>2. \A p \in Paths : "own_code" \notin Above[p]
      BY Leaves
    <2> QED
      BY <1>10, <2>1, <2>2, AboveIs DEF PutCode, Tree, Base, Typed
  <1>11. CASE \E p \in {"tool", "app", "own_code"} : UserWrites(p)
    BY <1>11 DEF UserWrites, Tree, Base, Typed
  <1>12. CASE UndoBlocks
    <2> DEFINE ps == {r \in {r \in Rcs : mem.blocks[r] # "none" /\ r \in fs} :
                            mem.blocks[r] = "created" /\ ~text[r]}
    <2>1. Remove(ps) /\ UNCHANGED theirs /\ pc' = "files"
      BY <1>12 DEF UndoBlocks
    <2>2. \A p \in ps : Below(p) = {}
      BY Leaves DEF Rcs
    <2> HIDE DEF ps
    <2> QED
      BY <2>1, <2>2, RemoveTree
  <1>13. CASE UndoFile
    <2> DEFINE ps == {Head(todo)} \cup IF Head(todo) = "code" THEN {"own_code"} ELSE {}
    <2>1. Remove(ps) /\ UNCHANGED theirs /\ pc' = "files"
      BY <1>13 DEF UndoFile
    <2>2. \A p \in ps : Below(p) = {}
      BY <1>13, Leaves, Tails DEF UndoFile, Base, Typed
    <2> HIDE DEF ps
    <2> QED
      BY <2>1, <2>2, RemoveTree
  <1>14. CASE UndoOwned
    <2> DEFINE ps == mem.owned \cup UNION {Below(d) : d \in mem.owned}
    <2>1. Remove(ps) /\ UNCHANGED theirs /\ pc' = "created"
      BY <1>14 DEF UndoOwned
    <2>2. mem.owned \subseteq Paths
      BY PathsAre DEF Base, Recorded, Sound, OwnDirs
    <2>3. \A p \in ps : Below(p) \subseteq ps
      BY <2>2, BelowBelow
    <2> HIDE DEF ps
    <2> QED
      BY <2>1, <2>3, RemoveTree
  <1>15. CASE UndoCreated
    <2> DEFINE ps == {d \in mem.created : Emptied(d)}
    <2>1. Remove(ps) /\ UNCHANGED theirs /\ pc' = "idle"
      BY <1>15 DEF UndoCreated
    <2>2. mem.created \subseteq Paths
      BY PathsAre DEF Base, Recorded, Sound, Parents
    <2>3. ASSUME NEW p \in ps PROVE Below(p) \cap fs \subseteq ps
      BY <2>2, BelowBelow DEF Emptied
    <2> HIDE DEF ps
    <2> QED
      BY <2>1, <2>3, RemoveTree
  <1> QED
    BY <1>1, <1>2, <1>3, <1>4, <1>5, <1>6, <1>7, <1>8, <1>9, <1>10, <1>11, <1>12, <1>13,
       <1>14, <1>15 DEF Next

-----------------------------------------------------------------------------
(* While nothing has crashed: the bridges have their sockets in directories of the  *)
(* record in force, unless they were at work during an uninstall.                   *)

Dirs == IF pc = "idle" THEN Load.owned ELSE IF pc \in Installing THEN mem.owned ELSE {}

Bridged ==
    /\ \A b \in Sources : tunnel[b] \in Dirs \cup {"none"} \/ exposed
    /\ known # "no" => pc \in Uninstalling \/ target \in Dirs

LEMMA InitBridged == Init => Bridged
  BY DEF Init, Bridged, NoTunnel, Sources

LEMMA StepBridged ==
    ASSUME Base, crashes = 0, crashes' = 0, Bridged, [Next]_vars
    PROVE  Bridged'
  <1> USE DEF Base
  <1>1. ASSUME UNCHANGED <<tunnel, target, known, exposed>>, Dirs \subseteq Dirs',
               pc \in Uninstalling => pc' \in Uninstalling
        PROVE  Bridged'
    BY <1>1 DEF Bridged
  <1>2. CASE UNCHANGED vars
    BY <1>1, <1>2 DEF Dirs, Load
  <1>3. CASE \E r \in Rcs : InstallStart(r)
    <2>1. PICK r \in Rcs : InstallStart(r)
      BY <1>3
    <2>2. AddOwnedDir(Load, "config").owned = Load.owned \cup {"config"}
      BY LoadIs, OwnedDirAdded DEF OwnDirs
    <2>3. Dirs \subseteq Dirs'
      BY <2>1, <2>2 DEF InstallStart, Dirs, Load, Installing
    <2> QED
      BY <1>1, <2>1, <2>3 DEF InstallStart, Uninstalling
  <1>4. CASE ChooseSocket \/ NoSocket \/ PutProgram \/ PutCode \/ PutEnv \/ PutRc
    <2>1. pc \in Installing /\ pc' \in Installing
      BY <1>4 DEF ChooseSocket, NoSocket, PutProgram, PutCode, PutEnv, PutRc, Installing
    <2>2. mem.owned \subseteq mem'.owned
      <3>1. AddOwnedDir(mem, "cache") \in Manifests /\ Sound(AddOwnedDir(mem, "cache"))
            /\ mem.owned \subseteq AddOwnedDir(mem, "cache").owned
        BY OwnedDirAdded DEF OwnDirs, Typed, Recorded
      <3>2. mem.owned \subseteq AddOwnedDir(AddOwnedDir(mem, "cache"), "tmp").owned
        BY <3>1, OwnedDirAdded DEF OwnDirs
      <3>3. AddBlock(mem, shell).owned = mem.owned
        BY BlockAdded DEF Typed, Recorded
      <3>4. pc = "program" => AddFile(AddFile(mem, "program"), "code").owned = mem.owned
        BY ProgramAdded DEF Typed, Recorded, Installing
      <3> QED
        BY <1>4, <3>1, <3>2, <3>3, <3>4
           DEF ChooseSocket, NoSocket, PutProgram, PutCode, PutEnv, PutRc
    <2>3. Dirs \subseteq Dirs'
      BY <2>1, <2>2 DEF Dirs, Installing
    <2>4. UNCHANGED <<tunnel, target, known, exposed>> /\ pc' \notin Uninstalling
      BY <1>4, <2>1 DEF ChooseSocket, NoSocket, PutProgram, PutCode, PutEnv, PutRc, Installing,
                        Uninstalling
    <2> QED
      BY <1>1, <2>1, <2>3, <2>4 DEF Installing, Uninstalling
  <1>5. CASE Save
    <2>1. /\ pc \in Installing /\ pc' = "idle" /\ "manifest" \in fs' /\ exposed' = exposed
          /\ disk' = AddFile(mem, "manifest")
      BY <1>5 DEF Save, Installing, Make
    <2>2. AddFile(mem, "manifest").owned = mem.owned
      BY <2>1, ManifestAdded DEF Typed, Recorded, Save, Installing
    <2>3. Dirs = mem.owned /\ Dirs' = mem.owned
      BY <2>1, <2>2 DEF Dirs, Load, Installing
    <2>4. CASE pc = "nosocket"
      BY <1>1, <1>5, <2>1, <2>3, <2>4 DEF Save, Uninstalling
    <2>5. CASE pc = "save"
      <3>1. sockdir \in mem.owned
        BY <2>5 DEF Recorded
      <3>2. \A b \in Sources : tunnel'[b] \in Dirs' \cup {"none"} \/ exposed
        <4>1. CASE StopService
          BY <2>3, <4>1, Stops DEF Bridged
        <4>2. CASE tunnel' = [tunnel EXCEPT !["service"] = sockdir]
          BY <2>3, <3>1, <4>2 DEF Bridged, Typed, Sources, Bridges
        <4> QED
          BY <1>5, <2>5, <4>1, <4>2 DEF Save
      <3>3. target' \in Dirs'
        BY <1>5, <2>3, <2>5, <3>1 DEF Save
      <3> QED
        BY <2>1, <3>2, <3>3 DEF Bridged
    <2> QED
      BY <1>5, <2>4, <2>5 DEF Save
  <1>6. CASE UninstallStart
    <2>1. \A b \in Sources : tunnel'[b] = "none" \/ exposed'
      BY <1>6 DEF UninstallStart, NoTunnel
    <2> QED
      BY <1>6, <2>1 DEF UninstallStart, Bridged, Uninstalling
  <1>7. CASE NothingToRun
    <2>1. StopService /\ known' = "no" /\ (exposed => exposed') /\ UNCHANGED <<pc, fs, disk, mem>>
      BY <1>7 DEF NothingToRun, StopBridges
    <2>2. Dirs' = Dirs
      BY <2>1 DEF Dirs, Load
    <2> QED
      BY <2>1, <2>2, Stops DEF Bridged
  <1>8. CASE UndoBlocks \/ UndoFile \/ UndoOwned
    BY <1>1, <1>8 DEF UndoBlocks, UndoFile, UndoOwned, Dirs, Installing, Uninstalling
  <1>9. CASE UndoCreated
    <2>1. StopService /\ known' = "no" /\ UNCHANGED exposed /\ Dirs = {}
      BY <1>9 DEF UndoCreated, Dirs, Installing
    <2> QED
      BY <2>1, Stops DEF Bridged
  <1>10. CASE Crash
    BY <1>10 DEF Crash
  <1>11. CASE ServeStart
    <2>1. /\ Dirs' = Dirs /\ UNCHANGED <<known, target, pc>> /\ (exposed => exposed')
          /\ tunnel' = [tunnel EXCEPT !["serve"] = target]
      BY <1>11 DEF ServeStart, Dirs, Load
    <2>2. target \in Dirs \/ exposed'
      BY <1>11 DEF ServeStart, Bridged
    <2> QED
      BY <2>1, <2>2 DEF Bridged, Typed, Sources, Bridges
  <1>12. CASE ServeStop
    <2>1. Dirs' = Dirs /\ UNCHANGED <<known, target, pc, exposed>> /\ tunnel' \in Without("serve")
      BY <1>12 DEF ServeStop, Dirs, Load
    <2> QED
      BY <2>1, Stops DEF Bridged
  <1>13. CASE \E b \in Sources : Prep(b)
    <2>1. PICK b \in Sources : Prep(b)
      BY <1>13
    <2>2. fs \subseteq fs' /\ UNCHANGED <<known, target, pc, exposed, disk, mem>>
      BY <2>1 DEF Prep, Make
    <2>3. tunnel[b] \in {"cache", "tmp"} /\ Make({tunnel[b]})
      BY <2>1 DEF Prep, Typed
    <2>4. "manifest" \in fs' <=> "manifest" \in fs
      BY <2>3, AboveIs DEF Make
    <2>5. Dirs' = Dirs
      BY <2>2, <2>4 DEF Dirs, Load
    <2>6. \A c \in Sources : tunnel'[c] \in {"none", tunnel[c]}
      BY <2>1 DEF Prep, Typed
    <2> QED
      BY <2>2, <2>5, <2>6 DEF Bridged
  <1>14. CASE \E p \in {"tool", "app", "own_code"} : UserWrites(p)
    BY <1>1, <1>14 DEF UserWrites, Dirs, Load
  <1>15. CASE \E r \in Rcs : UserEditsRc(r)
    BY <1>1, <1>15 DEF UserEditsRc, Dirs, Load
  <1> QED
    BY <1>2, <1>3, <1>4, <1>5, <1>6, <1>7, <1>8, <1>9, <1>10, <1>11, <1>12, <1>13, <1>14, <1>15
       DEF Next

-----------------------------------------------------------------------------
(* While nothing has crashed: all that was made is in the record in force, or holds *)
(* something of the user's.                                                         *)

\* What undoing a record takes away, and what keeps a directory from being taken away.
Owned(m) == m.owned \cup UNION {Below(d) : d \in m.owned}
Claimed(m) ==
    Entries(m.files) \cup Owned(m) \cup m.created \cup {r \in Rcs : m.blocks[r] = "created"}
Holds(p, users) == ({p} \cup Below(p)) \cap users # {}

\* What need not be claimed: what holds something of the user's, and what a tunnel that an
\* uninstall left at work made.
Excused(p) == Holds(p, theirs) \/ (exposed /\ p \in PrepMakes)

Accounted(m) ==
    /\ \A p \in made : p \in Claimed(m) \/ Excused(p)
    /\ \A r \in Rcs : block[r] => m.blocks[r] # "none" /\ r \in fs

\* What is recorded is there, except what an installation makes later.
Present(m) ==
    /\ Entries(m.files) \ (IF pc = "code" THEN {"code"} ELSE {}) \subseteq fs
    /\ m.owned \ {"config"} \subseteq fs
    /\ \A r \in Rcs : m.blocks[r] # "none" => r \in fs

\* Between commands the record on disk is in force; without one there is nothing left
\* to run, and nothing left of ours.
AtRest ==
    /\ pc = "idle" /\ "manifest" \in fs => Accounted(disk) /\ Present(disk)
    /\ pc = "idle" /\ "manifest" \notin fs =>
          /\ "program" \notin fs
          /\ \A p \in made : Excused(p)
          /\ \A r \in Rcs : ~block[r]
    /\ told = "uninstalled" => pc = "idle" /\ "manifest" \notin fs

\* While a command runs its own record is in force.
AtWork ==
    /\ pc \in Installing =>
          /\ Accounted(mem) /\ Present(mem)
          /\ "config_home" \in fs \cup mem.created
    /\ pc \in {"code", "env", "rc", "save"} => {"program", "code"} \subseteq Entries(mem.files)

\* What each part of an undo still has to take away.
InUndo ==
    /\ pc = "blocks" => Accounted(mem)
    /\ pc = "files" => \A p \in made : \/ p \in Entries(todo) \cup Owned(mem) \cup mem.created
                                       \/ Excused(p)
    /\ pc = "created" => "manifest" \notin fs /\ \A p \in made : p \in mem.created \/ Excused(p)
    /\ pc \in {"files", "created"} => \A r \in Rcs : ~block[r]

Trace == AtRest /\ AtWork /\ InUndo

LEMMA ClaimedGrows == ASSUME NEW m, NEW n, Grown(m, n) PROVE Claimed(m) \subseteq Claimed(n)
  BY DEF Grown, Claimed, Owned

LEMMA OwnedHas ==
    ASSUME NEW m
    PROVE  /\ Owned(m) \subseteq Claimed(m) /\ m.owned \subseteq Owned(m)
           /\ "config" \in m.owned => {"env", "manifest"} \subseteq Owned(m)
           /\ m.created \subseteq Claimed(m) /\ Entries(m.files) \subseteq Claimed(m)
  BY BelowIs DEF Owned, Claimed

LEMMA HoldsStays ==
    ASSUME NEW p, NEW users, NEW more, users \subseteq more, Holds(p, users)
    PROVE  Holds(p, more)
  BY DEF Holds

USE DEF Excused

LEMMA InitTrace == Init => Trace
  BY DEF Init, Trace, AtRest, AtWork, InUndo, Installing, Uninstalling, TheirPaths

\* A step that installs: what it makes is claimed by the record it leaves.
LEMMA InstallTrace ==
    ASSUME Base, Tree, Trace, NEW ps \in SUBSET Paths, Make(ps),
           pc \in Installing, pc' \in Installing,
           UNCHANGED <<theirs, exposed, disk, told>>,
           Grown(mem, mem'), "config" \in mem'.owned,
           \A r \in Rcs : block'[r] => block[r] \/ (mem'.blocks[r] # "none" /\ r \in fs'),
           \A p \in ps \cup UNION {Above[q] : q \in ps} : p \in fs \cup Claimed(mem'),
           Present(mem)',
           pc' \in {"code", "env", "rc", "save"} => {"program", "code"} \subseteq Entries(mem'.files)
    PROVE  Trace'
  <1>1. Claimed(mem) \subseteq Claimed(mem')
    BY ClaimedGrows
  <1>2. fs \subseteq fs' /\ made' \subseteq made \cup Claimed(mem')
    BY DEF Make
  <1>3. AtWork /\ AtRest
    BY DEF Trace
  <1>4. Accounted(mem)'
    BY <1>1, <1>2, <1>3 DEF Accounted, AtWork, Grown
  <1>5. AtRest'
    BY <1>3 DEF AtRest, Installing
  <1>6. InUndo'
    BY DEF InUndo, Installing
  <1>7. AtWork'
    BY <1>2, <1>3, <1>4 DEF AtWork, Grown, Installing, Uninstalling
  <1> QED
    BY <1>5, <1>6, <1>7 DEF Trace

LEMMA InstallStartTrace ==
    ASSUME Base, Tree, Trace, NEW r \in Rcs, InstallStart(r)
    PROVE  Trace'
  <1> USE DEF Base
  <1>1. UNCHANGED <<fs, block, disk, exposed, theirs, made>> /\ pc = "idle"
    BY DEF InstallStart
  <1>2. AtRest /\ AtWork
    BY DEF Trace
  <1>3. CASE "own_code" \in fs
    <2>1. pc' = "idle" /\ told' = "refused"
      BY <1>3 DEF InstallStart
    <2> QED
      BY <1>1, <1>2, <2>1
         DEF Trace, AtRest, AtWork, InUndo, Installing, Uninstalling, Accounted, Present
  <1>4. CASE "own_code" \notin fs
    <2> DEFINE n == AddOwnedDir(Load, "config")
    <2>1. pc' = "socket" /\ told' = "nothing" /\ mem' = n
      BY <1>4 DEF InstallStart
    <2>2. /\ n.files = Load.files /\ n.owned = Load.owned \cup {"config"} /\ n.blocks = Load.blocks
          /\ n.created = Load.created \cup (IF "config" \in Load.owned THEN {} ELSE Missing("config"))
          /\ n \in Manifests /\ Sound(n)
      BY LoadIs, OwnedDirAdded DEF OwnDirs
    <2> HIDE DEF n
    <2>3. /\ Accounted(n)
          /\ "config_home" \in fs \cup n.created
          /\ Entries(n.files) \subseteq fs /\ n.owned \ {"config"} \subseteq fs
          /\ \A q \in Rcs : n.blocks[q] # "none" => q \in fs
      <3>1. CASE "manifest" \in fs
        <4>1. Accounted(disk) /\ Present(disk)
          BY <1>1, <1>2, <3>1 DEF AtRest
        <4>2. Load = disk /\ "config" \in disk.owned
          BY <3>1 DEF Load, Recorded
        <4>3. /\ n.files = disk.files /\ n.owned = disk.owned /\ n.blocks = disk.blocks
              /\ n.created = disk.created
          BY <2>2, <4>2 DEF Sound
        <4>4. Claimed(n) = Claimed(disk)
          BY <4>3 DEF Claimed, Owned
        <4>5. Accounted(n)
          BY <4>1, <4>3, <4>4 DEF Accounted
        <4>6. /\ Entries(n.files) \subseteq fs /\ n.owned \ {"config"} \subseteq fs
              /\ \A q \in Rcs : n.blocks[q] # "none" => q \in fs
          BY <1>1, <4>1, <4>3 DEF Present
        <4>7. "config_home" \in fs
          BY <3>1, AboveIs DEF Tree
        <4> QED
          BY <4>1, <4>3, <4>5, <4>6, <4>7
      <3>2. CASE "manifest" \notin fs
        <4>1. Load = Empty
          BY <3>2 DEF Load
        <4>2. n.files = <<>> /\ n.owned = {"config"} /\ \A q \in Rcs : n.blocks[q] = "none"
          BY <2>2, <4>1 DEF Empty
        <4>3. (\A p \in made : Excused(p)) /\ \A q \in Rcs : ~block[q]
          BY <1>1, <1>2, <3>2 DEF AtRest
        <4>4. "config_home" \in fs \cup n.created
          <5>1. CASE "config" \in fs
            BY <5>1, AboveIs DEF Tree
          <5>2. CASE "config" \notin fs
            BY <2>2, <4>1, <5>2, AboveIs DEF Empty, Missing
          <5> QED
            BY <5>1, <5>2
        <4> QED
          BY <4>2, <4>3, <4>4, EntriesAre DEF Accounted
      <3> QED
        BY <3>1, <3>2
    <2>4. (Accounted(mem) /\ Present(mem))'
      BY <1>1, <2>1, <2>3 DEF Accounted, Present
    <2>5. AtRest' /\ InUndo'
      BY <2>1 DEF AtRest, InUndo
    <2>6. AtWork'
      BY <1>1, <2>1, <2>3, <2>4 DEF AtWork, Uninstalling
    <2> QED
      BY <2>5, <2>6 DEF Trace
  <1> QED
    BY <1>3, <1>4

LEMMA ChooseSocketTrace ==
    ASSUME Base, Tree, Trace, ChooseSocket \/ NoSocket
    PROVE  Trace'
  <1> USE DEF Base
  <1> DEFINE x == AddOwnedDir(mem, "cache")
             n == AddOwnedDir(x, "tmp")
  <1>1. pc = "socket" /\ pc' \in {"program", "nosocket"}
        /\ UNCHANGED <<theirs, disk, exposed, told, block>>
    BY DEF ChooseSocket, NoSocket
  <1>2. /\ x \in Manifests /\ Sound(x) /\ x.files = mem.files
        /\ x.owned = mem.owned \cup {"cache"} /\ x.blocks = mem.blocks
        /\ x.created = mem.created \cup (IF "cache" \in mem.owned THEN {} ELSE Missing("cache"))
    BY OwnedDirAdded DEF OwnDirs, Typed, Recorded
  <1>3. /\ n \in Manifests /\ Sound(n) /\ n.files = x.files
        /\ n.owned = x.owned \cup {"tmp"} /\ n.blocks = x.blocks
        /\ n.created = x.created \cup (IF "tmp" \in x.owned THEN {} ELSE Missing("tmp"))
    <2> HIDE DEF x
    <2> QED
      BY <1>2, OwnedDirAdded DEF OwnDirs
  <1>4. \/ sockdir' = "cache" /\ pc' = "program" /\ mem' = x /\ Make({"cache"})
        \/ (sockdir' = "tmp" \/ pc' = "nosocket") /\ mem' = n /\ Make({"cache", "tmp"})
    BY DEF ChooseSocket, NoSocket
  <1> HIDE DEF x, n
  <1>5. "cache_home" \in fs \cup x.created
    <2>1. "cache" \in mem.owned => "cache" \in fs
      BY <1>1 DEF Trace, AtWork, Present, Installing
    <2>2. "cache" \in fs => "cache_home" \in fs
      BY AboveIs DEF Tree
    <2> QED
      BY <1>2, <2>1, <2>2, AboveIs DEF Missing
  <1>6. Present(mem) /\ Accounted(mem)
    BY <1>1 DEF Trace, AtWork, Installing
  <1>7. CASE mem' = x /\ Make({"cache"}) /\ sockdir' = "cache" /\ pc' = "program"
    <2>1. Grown(mem, mem') /\ "config" \in mem'.owned
      BY <1>1, <1>2, <1>7 DEF Grown, Recorded, Installing
    <2>2. \A p \in {"cache"} \cup UNION {Above[q] : q \in {"cache"}} : p \in fs \cup Claimed(mem')
      BY <1>2, <1>5, <1>7, AboveIs, OwnedHas
    <2>3. Present(mem)'
      BY <1>1, <1>2, <1>6, <1>7 DEF Present, Make
    <2> QED
      BY <1>1, <1>2, <1>7, <2>1, <2>2, <2>3, InstallTrace, PathsAre DEF Installing
  <1>8. CASE mem' = n /\ Make({"cache", "tmp"}) /\ (sockdir' = "tmp" \/ pc' = "nosocket")
    <2>1. Grown(mem, mem') /\ "config" \in mem'.owned
      BY <1>1, <1>2, <1>3, <1>8 DEF Grown, Recorded, Installing
    <2>2. \A p \in {"cache", "tmp"} \cup UNION {Above[q] : q \in {"cache", "tmp"}} :
              p \in fs \cup Claimed(mem')
      BY <1>2, <1>3, <1>5, <1>8, AboveIs, OwnedHas
    <2>3. Present(mem)'
      BY <1>1, <1>2, <1>3, <1>6, <1>8 DEF Present, Make
    <2> QED
      BY <1>1, <1>2, <1>3, <1>8, <2>1, <2>2, <2>3, InstallTrace, PathsAre DEF Installing
  <1> QED
    BY <1>4, <1>7, <1>8

LEMMA PutProgramTrace ==
    ASSUME Base, Tree, Trace, PutProgram
    PROVE  Trace'
  <1> USE DEF Base
  <1> DEFINE n == AddFile(AddFile(mem, "program"), "code")
  <1>1. /\ pc = "program" /\ pc' = "code" /\ mem' = n /\ Make({"program"})
        /\ UNCHANGED <<theirs, disk, exposed, told, block, sockdir>>
    BY DEF PutProgram
  <1>2. /\ n.owned = mem.owned /\ n.blocks = mem.blocks
        /\ "program" \in Entries(mem.files) => n.files = mem.files
        /\ "program" \notin Entries(mem.files) =>
              n.files = IF mem.files = <<>> THEN <<"program", "code">>
                        ELSE <<"manifest", "program", "code">>
        /\ n.created = mem.created \cup
              (IF "program" \in Entries(mem.files) THEN {}
               ELSE Missing("program") \cup Missing("code"))
    BY <1>1, ProgramAdded DEF Typed, Recorded, Installing
  <1> HIDE DEF n
  <1>3. Present(mem) /\ mem.files \in Orders \ {<<"program">>}
    BY <1>1 DEF Trace, AtWork, Installing, Recorded, Sound
  <1>4. /\ {"program", "code"} \subseteq Entries(n.files)
        /\ Entries(mem.files) \subseteq Entries(n.files)
        /\ Entries(n.files) \subseteq Entries(mem.files) \cup {"program", "code"}
    <2>1. CASE "program" \in Entries(mem.files)
      BY <1>2, <1>3, <2>1, EntriesAre DEF Orders
    <2>2. CASE "program" \notin Entries(mem.files)
      BY <1>2, <1>3, <2>2, EntriesAre DEF Orders
    <2> QED
      BY <2>1, <2>2
  <1>5. {"bin", "local"} \subseteq fs \cup n.created
    <2>1. CASE "program" \in fs
      BY <2>1, AboveIs DEF Tree
    <2>2. CASE "program" \notin fs
      BY <1>1, <1>2, <1>3, <2>2, AboveIs DEF Missing, Present
    <2> QED
      BY <2>1, <2>2
  <1>6. Grown(mem, mem') /\ "config" \in mem'.owned
    BY <1>1, <1>2, <1>4 DEF Grown, Recorded, Installing, Trace, AtWork
  <1>7. \A p \in {"program"} \cup UNION {Above[q] : q \in {"program"}} : p \in fs \cup Claimed(mem')
    BY <1>1, <1>4, <1>5, AboveIs, OwnedHas
  <1>8. Present(mem)'
    BY <1>1, <1>2, <1>3, <1>4 DEF Present, Make
  <1> QED
    BY <1>1, <1>2, <1>4, <1>6, <1>7, <1>8, InstallTrace, PathsAre DEF Installing

LEMMA PutCodeTrace ==
    ASSUME Base, Tree, Trace, PutCode
    PROVE  Trace'
  <1> USE DEF Base
  <1>1. /\ pc = "code" /\ pc' = "env" /\ made' = made \cup {"code"}
        /\ fs' = (fs \ {"own_code"}) \cup {"code"}
        /\ UNCHANGED <<theirs, disk, mem, exposed, told, block, sockdir, todo>>
    BY DEF PutCode
  <1>2. AtWork /\ AtRest
    BY DEF Trace
  <1>3. "code" \in Claimed(mem)
    BY <1>1, <1>2, OwnedHas DEF AtWork
  <1>4. Accounted(mem)'
    BY <1>1, <1>2, <1>3 DEF AtWork, Accounted, Installing, Rcs
  <1>5. "own_code" \notin Entries(mem.files) \cup mem.owned \cup mem.created
    BY EntriesAre DEF Recorded, Sound, Orders, OwnDirs, Parents
  <1>6. Present(mem)'
    BY <1>1, <1>2, <1>5 DEF AtWork, Present, Installing, Rcs
  <1> QED
    BY <1>1, <1>2, <1>4, <1>5, <1>6
       DEF Trace, AtRest, AtWork, InUndo, Installing, Uninstalling

LEMMA PutEnvTrace ==
    ASSUME Base, Tree, Trace, PutEnv
    PROVE  Trace'
  <1> USE DEF Base
  <1>1. /\ pc = "env" /\ pc' = "rc" /\ Make({"env"})
        /\ UNCHANGED <<theirs, disk, mem, exposed, told, block, sockdir>>
    BY DEF PutEnv
  <1>2. AtWork
    BY DEF Trace
  <1>3. Grown(mem, mem') /\ "config" \in mem'.owned
    BY <1>1, <1>2 DEF Grown, Recorded, Installing, AtWork
  <1>4. \A p \in {"env"} \cup UNION {Above[q] : q \in {"env"}} : p \in fs \cup Claimed(mem')
    BY <1>1, <1>2, <1>3, AboveIs, OwnedHas DEF AtWork, Installing
  <1>5. Present(mem)'
    BY <1>1, <1>2 DEF Present, Make, AtWork, Installing
  <1> QED
    BY <1>1, <1>2, <1>3, <1>4, <1>5, InstallTrace, PathsAre DEF Installing, AtWork

LEMMA PutRcTrace ==
    ASSUME Base, Tree, Trace, PutRc
    PROVE  Trace'
  <1> USE DEF Base
  <1> DEFINE n == AddBlock(mem, shell)
  <1>1. /\ pc = "rc" /\ pc' = "save" /\ mem' = n /\ Make({shell}) /\ shell \in Rcs
        /\ block' = [block EXCEPT ![shell] = TRUE]
        /\ UNCHANGED <<theirs, disk, exposed, told, sockdir>>
    BY DEF PutRc, Typed
  <1>2. /\ n.files = mem.files /\ n.owned = mem.owned
        /\ \A q \in Rcs : n.blocks[q] =
              IF q = shell /\ mem.blocks[shell] = "none"
              THEN IF shell \in fs THEN "added" ELSE "created"
              ELSE mem.blocks[q]
        /\ n.created = mem.created \cup
              (IF mem.blocks[shell] = "none" THEN Missing(shell) ELSE {})
    BY <1>1, BlockAdded DEF Typed, Recorded
  <1> HIDE DEF n
  <1>3. Present(mem) /\ AtWork
    BY <1>1 DEF Trace, AtWork, Installing
  <1>4. shell \in fs' /\ fs \subseteq fs'
    BY <1>1 DEF Make
  <1>5. Grown(mem, mem') /\ "config" \in mem'.owned
    BY <1>1, <1>2, <1>3 DEF Grown, Recorded, Installing, AtWork
  <1>6. \A p \in {shell} \cup UNION {Above[q] : q \in {shell}} : p \in fs \cup Claimed(mem')
    <2>1. CASE shell \in fs
      BY <1>1, <2>1 DEF Tree
    <2>2. CASE shell \notin fs
      <3>1. mem.blocks[shell] = "none" /\ n.blocks[shell] = "created"
        BY <1>1, <1>2, <1>3, <2>2 DEF Present
      <3>2. Above[shell] \subseteq fs \cup n.created
        BY <1>2, <2>2, <3>1 DEF Missing
      <3>3. shell \in Claimed(n)
        BY <1>1, <3>1 DEF Claimed
      <3> QED
        BY <1>1, <3>2, <3>3, OwnedHas
    <2> QED
      BY <2>1, <2>2
  <1>7. \A r \in Rcs : block'[r] => block[r] \/ (mem'.blocks[r] # "none" /\ r \in fs')
    BY <1>1, <1>2, <1>4 DEF Typed
  <1>8. Present(mem)'
    BY <1>1, <1>2, <1>3, <1>4 DEF Present
  <1> QED
    BY <1>1, <1>2, <1>3, <1>5, <1>6, <1>7, <1>8, InstallTrace, PathsAre
       DEF Installing, AtWork, Rcs

LEMMA SaveTrace == ASSUME Base, Tree, Trace, Save PROVE Trace'
  <1> USE DEF Base
  <1> DEFINE n == AddFile(mem, "manifest")
  <1>1. /\ pc \in {"save", "nosocket"} /\ pc' = "idle" /\ disk' = n
        /\ fs' = fs \cup {"manifest", "config", "config_home"}
        /\ made' = made \cup ({"manifest", "config", "config_home"} \ fs)
        /\ UNCHANGED <<block, theirs, exposed, crashes>> /\ told' # "uninstalled"
    BY PathsAre, AboveIs DEF Save, Make
  <1>2. /\ n.owned = mem.owned /\ n.blocks = mem.blocks /\ mem.created \subseteq n.created
        /\ Entries(n.files) = Entries(mem.files) \cup {"manifest"} /\ "config" \in n.owned
    BY <1>1, ManifestAdded DEF Typed, Recorded, Installing
  <1> HIDE DEF n
  <1>3. /\ Accounted(mem) /\ Present(mem) /\ "config_home" \in fs \cup mem.created
    BY <1>1 DEF Trace, AtWork, Installing
  <1>4. Accounted(disk)'
    <2>1. Claimed(mem) \subseteq Claimed(n)
      BY <1>2 DEF Claimed, Owned
    <2>2. \A p \in made' : p \in Claimed(n) \/ Excused(p)
      BY <1>1, <1>2, <1>3, <2>1, OwnedHas DEF Accounted
    <2>3. \A r \in Rcs : block[r] => n.blocks[r] # "none" /\ r \in fs'
      BY <1>1, <1>2, <1>3 DEF Accounted
    <2> QED
      BY <1>1, <2>2, <2>3 DEF Accounted
  <1>5. Present(disk)'
    BY <1>1, <1>2, <1>3 DEF Present
  <1>7. AtRest'
    BY <1>1, <1>4, <1>5 DEF AtRest
  <1>8. AtWork' /\ InUndo'
    BY <1>1 DEF AtWork, InUndo, Installing, Uninstalling
  <1> QED
    BY <1>7, <1>8 DEF Trace

LEMMA UninstallStartTrace == ASSUME Base, Trace, UninstallStart PROVE Trace'
  <1>1. /\ pc = "idle" /\ pc' = "blocks" /\ "program" \in fs /\ told' = "nothing"
        /\ exposed => exposed'
        /\ UNCHANGED <<fs, block, disk, made, theirs>>
    BY DEF UninstallStart
  <1>2. "manifest" \in fs /\ Accounted(disk)
    BY <1>1 DEF Trace, AtRest
  <1>3. mem' = disk
    BY <1>2 DEF UninstallStart
  <1>4. Accounted(mem)'
    BY <1>1, <1>2, <1>3 DEF Accounted
  <1> QED
    BY <1>1, <1>4 DEF Trace, AtRest, AtWork, InUndo, Installing

LEMMA UndoBlocksTrace == ASSUME Base, Tree, Trace, UndoBlocks PROVE Trace'
  <1> USE DEF Base
  <1> DEFINE mentioned == {r \in Rcs : mem.blocks[r] # "none" /\ r \in fs}
             emptied == {r \in mentioned : mem.blocks[r] = "created" /\ ~text[r]}
  <1>1. /\ pc = "blocks" /\ pc' = "files" /\ todo' = mem.files
        /\ made' = made \ emptied
        /\ block' = [r \in Rcs |-> block[r] /\ r \notin mentioned]
        /\ UNCHANGED <<disk, mem, exposed, told, theirs>>
    BY DEF UndoBlocks, Remove
  <1>2. Accounted(mem) /\ told # "uninstalled"
    BY <1>1 DEF Trace, AtRest, AtWork, InUndo, Uninstalling
  <1>3. \A r \in Rcs : ~block'[r]
    BY <1>1, <1>2 DEF Accounted
  <1>4. ASSUME NEW p \in made'
        PROVE  p \in Entries(mem.files) \cup Owned(mem) \cup mem.created \/ Excused(p)
    <2>1. p \in made /\ p \in fs /\ p \notin emptied
      BY <1>1 DEF Tree
    <2>2. CASE p \in Rcs /\ mem.blocks[p] = "created"
      <3>1. text[p]
        BY <2>1, <2>2
      <3>2. p \in theirs
        BY <2>2, <3>1 DEF Kept
      <3> QED
        BY <3>2 DEF Holds
    <2>3. CASE ~(p \in Rcs /\ mem.blocks[p] = "created")
      BY <1>2, <2>1, <2>3 DEF Accounted, Claimed
    <2> QED
      BY <2>2, <2>3
  <1> HIDE DEF emptied, mentioned
  <1>5. InUndo'
    BY <1>1, <1>3, <1>4 DEF InUndo, Owned
  <1> QED
    BY <1>1, <1>2, <1>5 DEF Trace, AtRest, AtWork, Installing

LEMMA UndoFileTrace == ASSUME Base, Trace, UndoFile PROVE Trace'
  <1>1. /\ pc = "files" /\ pc' = "files" /\ todo' = Tail(todo) /\ todo # <<>>
        /\ made' \subseteq made \ {Head(todo)}
        /\ UNCHANGED <<block, mem, exposed, told, theirs>>
    BY DEF UndoFile, Remove
  <1>2. Entries(todo) = {Head(todo)} \cup Entries(todo')
    BY <1>1, Tails DEF Base, Typed
  <1>3. /\ told # "uninstalled" /\ \A r \in Rcs : ~block[r]
        /\ \A p \in made : \/ p \in Entries(todo) \cup Owned(mem) \cup mem.created
                           \/ Excused(p)
    BY <1>1 DEF Trace, AtRest, AtWork, InUndo, Uninstalling
  <1>4. \A p \in made' : \/ p \in Entries(todo') \cup Owned(mem) \cup mem.created
                         \/ Excused(p)
    BY <1>1, <1>2, <1>3
  <1> QED
    BY <1>1, <1>3, <1>4 DEF Trace, AtRest, AtWork, InUndo, Installing, Owned

LEMMA UndoOwnedTrace == ASSUME Base, Trace, UndoOwned PROVE Trace'
  <1>1. /\ pc = "files" /\ pc' = "created" /\ todo = <<>>
        /\ fs' = fs \ Owned(mem) /\ made' = made \ Owned(mem)
        /\ UNCHANGED <<block, mem, exposed, told, theirs>>
    BY DEF UndoOwned, Remove, Owned
  <1>2. "manifest" \in Owned(mem)
    BY <1>1, OwnedHas DEF Base, Recorded, Uninstalling
  <1>3. /\ told # "uninstalled" /\ \A r \in Rcs : ~block[r]
        /\ \A p \in made : \/ p \in Entries(todo) \cup Owned(mem) \cup mem.created
                           \/ Excused(p)
    BY <1>1 DEF Trace, AtRest, AtWork, InUndo, Uninstalling
  <1>4. \A p \in made' : p \in mem.created \/ Excused(p)
    BY <1>1, <1>3, EntriesAre
  <1> QED
    BY <1>1, <1>2, <1>3, <1>4 DEF Trace, AtRest, AtWork, InUndo, Installing

\* A directory that stays holds something of the user's, at any depth.
LEMMA UndoCreatedTrace == ASSUME Base, Tree, Trace, UndoCreated PROVE Trace'
  <1> USE DEF Base
  <1> DEFINE gone == {d \in mem.created : Emptied(d)}
  <1>1. /\ pc = "created" /\ pc' = "idle" /\ told' = "uninstalled"
        /\ fs' = fs \ gone /\ made' = made \ gone
        /\ UNCHANGED <<block, exposed, theirs>>
    BY DEF UndoCreated, Remove
  <1>2. /\ "manifest" \notin fs /\ \A r \in Rcs : ~block[r]
        /\ \A p \in made : p \in mem.created \/ Excused(p)
    BY <1>1 DEF Trace, AtWork, InUndo, Uninstalling
  <1>3. ASSUME NEW p \in made' PROVE Excused(p)
    <2>1. p \in made /\ p \in Paths /\ p \notin gone
      BY <1>1 DEF Typed
    <2>2. CASE p \in mem.created
      <3>1. PICK q \in Below(p) \cap fs : q \notin mem.created
        BY <2>1, <2>2 DEF Emptied
      <3>2. q \in theirs \/ Excused(q)
        BY <1>2, <3>1 DEF Tree
      <3>3. CASE q \in theirs \/ Holds(q, theirs)
        BY <2>1, <3>1, <3>3, BelowBelow DEF Holds
      <3>4. CASE exposed /\ q \in PrepMakes
        <4>1. p \in Above[q]
          BY <3>1 DEF Below
        <4> QED
          BY <3>4, <4>1, AboveIs DEF PrepMakes
      <3> QED
        BY <3>2, <3>3, <3>4
    <2> QED
      BY <1>2, <2>1, <2>2
  <1>4. "program" \notin fs
    <2>1. SUFFICES ASSUME "program" \in fs PROVE FALSE
      OBVIOUS
    <2>2. "program" \notin theirs
      BY DEF Typed, TheirPaths
    <2>3. "program" \in mem.created \/ Holds("program", theirs)
      BY <1>2, <2>1, <2>2 DEF Tree, PrepMakes
    <2>4. "program" \notin mem.created
      BY DEF Recorded, Sound, Parents
    <2> QED
      BY <2>2, <2>3, <2>4, Leaves DEF Holds
  <1> HIDE DEF gone
  <1>5. AtRest'
    BY <1>1, <1>2, <1>3, <1>4 DEF AtRest
  <1> QED
    BY <1>1, <1>2, <1>5 DEF Trace, AtWork, InUndo, Installing, Uninstalling

\* What goes on beside the commands only adds: the user's files, and the directory of a
\* tunnel where the record in force has not put it already.
LEMMA WorldTrace ==
    ASSUME Base, Tree, Bridged, Trace,
           \/ \E b \in Sources : Prep(b)
           \/ ServeStart \/ ServeStop
           \/ \E p \in {"tool", "app", "own_code"} : UserWrites(p)
           \/ \E r \in Rcs : UserEditsRc(r)
    PROVE  Trace'
  <1>1. AtRest /\ AtWork /\ InUndo
    BY DEF Trace
  <1>2. /\ UNCHANGED <<block, disk, mem, pc, todo, sockdir, told>>
        /\ theirs \subseteq theirs' /\ (exposed => exposed')
    <2>1. CASE ServeStart
      BY <2>1 DEF ServeStart
    <2>2. CASE \E p \in {"tool", "app", "own_code"} : UserWrites(p)
      BY <2>2 DEF UserWrites
    <2>3. CASE ServeStop
      BY <2>3 DEF ServeStop
    <2>4. CASE \E b \in Sources : Prep(b)
      BY <2>4 DEF Prep
    <2>5. CASE \E r \in Rcs : UserEditsRc(r)
      BY <2>5 DEF UserEditsRc
    <2> QED
      BY <2>1, <2>2, <2>3, <2>4, <2>5
  <1>3. /\ fs \subseteq fs' /\ made \subseteq made'
        /\ fs' \ fs \subseteq {"tool", "app", "own_code"} \cup PrepMakes
        /\ \A p \in made' \ made : exposed /\ p \in PrepMakes
    <2>1. CASE \E b \in Sources : Prep(b)
      <3>1. PICK b \in Sources : Prep(b)
        BY <2>1
      <3>2. /\ tunnel[b] \in {"cache", "tmp"} /\ Make({tunnel[b]})
        BY <3>1 DEF Prep, Base, Typed
      <3>3. /\ fs' = fs \cup {tunnel[b]} \cup Above[tunnel[b]]
            /\ made' = made \cup (({tunnel[b]} \cup Above[tunnel[b]]) \ fs)
        BY <3>2 DEF Make
      <3>4. {tunnel[b]} \cup Above[tunnel[b]] \subseteq PrepMakes
        BY <3>2, AboveIs DEF PrepMakes
      <3>5. exposed \/ tunnel[b] \in fs
        <4>1. SUFFICES ASSUME ~exposed PROVE tunnel[b] \in fs
          OBVIOUS
        <4>2. tunnel[b] \in Dirs
          BY <3>2, <4>1 DEF Bridged
        <4>3. CASE pc = "idle" /\ "manifest" \in fs
          BY <1>1, <3>2, <4>2, <4>3 DEF Dirs, Load, AtRest, Present
        <4>4. CASE pc \in Installing
          BY <1>1, <3>2, <4>2, <4>4 DEF Dirs, AtWork, Present, Installing
        <4> QED
          BY <4>2, <4>3, <4>4 DEF Dirs, Load, Empty
      <3>6. tunnel[b] \in fs => fs' = fs /\ made' = made
        BY <3>2, <3>3 DEF Tree
      <3> QED
        BY <3>3, <3>4, <3>5, <3>6
    <2>2. CASE ~ \E b \in Sources : Prep(b)
      BY <2>2 DEF UserWrites, UserEditsRc, ServeStart, ServeStop
    <2> QED
      BY <2>1, <2>2
  <1>4. \A p : Excused(p) => Excused(p)'
    BY <1>2, HoldsStays
  <1>5. \A p \in made' : p \in made \/ Excused(p)'
    BY <1>2, <1>3
  <1> HIDE DEF Excused
  <1>6. (Accounted(disk) => Accounted(disk)') /\ (Present(disk) => Present(disk)')
    BY <1>2, <1>3, <1>4, <1>5 DEF Accounted, Present, Claimed, Owned
  <1>7. (Accounted(mem) => Accounted(mem)') /\ (Present(mem) => Present(mem)')
    BY <1>2, <1>3, <1>4, <1>5 DEF Accounted, Present, Claimed, Owned
  <1>8. AtRest'
    <2>1. ("manifest" \in fs' <=> "manifest" \in fs) /\ ("program" \in fs' <=> "program" \in fs)
      BY <1>3 DEF PrepMakes
    <2>2. (pc = "idle" /\ "manifest" \in fs => Accounted(disk) /\ Present(disk))'
      BY <1>1, <1>2, <1>6, <2>1 DEF AtRest
    <2>3. pc = "idle" /\ "manifest" \notin fs => \A p \in made' : Excused(p)'
      BY <1>1, <1>4, <1>5 DEF AtRest
    <2> QED
      BY <1>1, <1>2, <2>1, <2>2, <2>3 DEF AtRest
  <1>9. AtWork'
    <2>1. (pc \in Installing => Accounted(mem) /\ Present(mem)
                               /\ "config_home" \in fs \cup mem.created)'
      BY <1>1, <1>2, <1>3, <1>7 DEF AtWork, Installing
    <2> QED
      BY <1>1, <1>2, <2>1 DEF AtWork, Installing, Uninstalling
  <1>10. InUndo'
    <2>1. (pc = "blocks" => Accounted(mem))'
      BY <1>1, <1>2, <1>7 DEF InUndo
    <2>2. (pc = "files" => \A p \in made : \/ p \in Entries(todo) \cup Owned(mem) \cup mem.created
                                            \/ Excused(p))'
      BY <1>1, <1>2, <1>4, <1>5 DEF InUndo, Owned
    <2>3. (pc = "created" => "manifest" \notin fs
                             /\ \A p \in made : p \in mem.created \/ Excused(p))'
      BY <1>1, <1>2, <1>3, <1>4, <1>5 DEF InUndo, PrepMakes
    <2> QED
      BY <1>1, <1>2, <2>1, <2>2, <2>3 DEF InUndo
  <1> QED
    BY <1>8, <1>9, <1>10 DEF Trace

LEMMA StepTrace ==
    ASSUME Base, Tree, Bridged, Trace, [Next]_vars, crashes = 0, crashes' = 0
    PROVE  Trace'
  <1>1. CASE UNCHANGED vars
    BY <1>1 DEF Trace, AtRest, AtWork, InUndo, Accounted, Present, Claimed, Owned
  <1>2. CASE NothingToRun
    BY <1>2 DEF NothingToRun, Trace, AtRest, AtWork, InUndo, Accounted, Present, Claimed, Owned,
                Installing, Uninstalling
  <1>3. CASE Crash
    BY <1>3 DEF Crash
  <1>4. CASE Next /\ ~NothingToRun /\ ~Crash
    BY <1>4, InstallStartTrace, ChooseSocketTrace, PutProgramTrace, PutCodeTrace, PutEnvTrace,
       PutRcTrace, SaveTrace, UninstallStartTrace, UndoBlocksTrace, UndoFileTrace,
       UndoOwnedTrace, UndoCreatedTrace, WorldTrace DEF Next
  <1> QED
    BY <1>1, <1>2, <1>3, <1>4

-----------------------------------------------------------------------------
(* While nothing has crashed: a command `code` of the user's.  UndoFile unlinks      *)
(* whatever has the name, so a record that names it must be worth something: the    *)
(* link is there, and the user has none.                                            *)

NamesCode(m) == "code" \in Entries(m.files)

\* The user has no `code` while ours is there, or while it may still be made or unlinked.
OwnCode ==
    /\ ~({"code", "own_code"} \subseteq fs)
    /\ "own_code" \in theirs => "own_code" \in fs
    /\ pc \in {"socket", "nosocket", "program", "code"} => "own_code" \notin fs
    /\ pc = "blocks" /\ NamesCode(mem) => "own_code" \notin fs
    /\ "code" \in Entries(todo) => "own_code" \notin fs

\* Where a record in force names it, the link is there.
CodeThere ==
    /\ pc \notin Uninstalling /\ "manifest" \in fs /\ NamesCode(disk) => "code" \in fs
    /\ pc \in {"socket", "nosocket"} /\ NamesCode(mem) => "code" \in fs
    /\ pc \in {"env", "rc", "save"} => "code" \in fs

Code == OwnCode /\ CodeThere

LEMMA InitCode == Init => Code
  <1> SUFFICES ASSUME Init PROVE Code
    OBVIOUS
  <1>1. fs \subseteq TheirPaths /\ theirs = fs /\ pc = "idle" /\ todo = <<>>
    BY DEF Init
  <1> QED
    BY <1>1, EntriesAre DEF Code, OwnCode, CodeThere, TheirPaths

\* What most steps leave alone.
Aside == {"program", "code", "own_code", "manifest"}

LEMMA InstallCode ==
    ASSUME Base, Code, \/ \E r \in Rcs : InstallStart(r)
                       \/ ChooseSocket \/ NoSocket \/ PutEnv \/ PutRc
    PROVE  Code'
  <1> USE DEF Base, Code
  <1>1. CASE \E r \in Rcs : InstallStart(r)
    <2>1. PICK r \in Rcs : InstallStart(r)
      BY <1>1
    <2>2. /\ UNCHANGED <<fs, disk, todo, theirs>> /\ pc = "idle"
          /\ \/ pc' = "idle"
             \/ /\ pc' = "socket" /\ "own_code" \notin fs
                /\ mem'.files = Load.files
      BY <2>1, LoadIs, OwnedDirAdded DEF InstallStart, OwnDirs
    <2>3. NamesCode(Load) => "manifest" \in fs /\ NamesCode(disk)
      BY EntriesAre DEF Load, NamesCode, Empty
    <2>4. OwnCode'
      BY <2>2 DEF OwnCode
    <2>5. CodeThere'
      <3>1. CASE pc' = "idle"
        BY <2>2, <3>1 DEF CodeThere, NamesCode, Uninstalling
      <3>2. CASE pc' = "socket"
        BY <2>2, <2>3, <3>2 DEF CodeThere, NamesCode, Uninstalling
      <3> QED
        BY <2>2, <3>1, <3>2
    <2> QED
      BY <2>4, <2>5
  <1>2. CASE ChooseSocket \/ NoSocket
    <2>1. /\ mem.files = mem'.files
      <3>1. AddOwnedDir(mem, "cache").files = mem.files
            /\ AddOwnedDir(mem, "cache") \in Manifests /\ Sound(AddOwnedDir(mem, "cache"))
        BY OwnedDirAdded DEF OwnDirs, Typed, Recorded
      <3>2. AddOwnedDir(AddOwnedDir(mem, "cache"), "tmp").files = mem.files
        BY <3>1, OwnedDirAdded DEF OwnDirs
      <3> QED
        BY <1>2, <3>1, <3>2 DEF ChooseSocket, NoSocket
    <2>2. \A p \in Aside : p \in fs' <=> p \in fs
      BY <1>2, MakeBase, PathsAre, AboveIs DEF ChooseSocket, NoSocket, Aside
    <2>3. UNCHANGED <<disk, todo, theirs>> /\ pc = "socket" /\ pc' \in {"program", "nosocket"}
      BY <1>2 DEF ChooseSocket, NoSocket
    <2> QED
      BY <2>1, <2>2, <2>3 DEF OwnCode, CodeThere, NamesCode, Aside, Uninstalling
  <1>3. CASE PutEnv \/ PutRc
    <2>1. \A p \in Aside : p \in fs' <=> p \in fs
      BY <1>3, MakeBase, PathsAre, AboveIs DEF PutEnv, PutRc, Aside, Typed, Rcs
    <2>2. UNCHANGED <<disk, todo, theirs>> /\ pc \in {"env", "rc"} /\ pc' \in {"rc", "save"}
      BY <1>3 DEF PutEnv, PutRc
    <2> QED
      BY <2>1, <2>2 DEF OwnCode, CodeThere, NamesCode, Aside, Uninstalling
  <1> QED
    BY <1>1, <1>2, <1>3

LEMMA PutCommandsCode == ASSUME Base, Code, PutProgram \/ PutCode PROVE Code'
  <1> USE DEF Base, Code
  <1>1. CASE PutProgram
    <2>1. fs' = fs \cup {"program", "bin", "local"}
      BY <1>1, MakeBase, PathsAre, AboveIs DEF PutProgram, Make
    <2> QED
      BY <1>1, <2>1 DEF PutProgram, OwnCode, CodeThere, NamesCode, Uninstalling
  <1>2. CASE PutCode
    <2>1. "own_code" \notin theirs
      BY <1>2 DEF PutCode, OwnCode
    <2> QED
      BY <1>2, <2>1 DEF PutCode, OwnCode, CodeThere, NamesCode, Uninstalling
  <1> QED
    BY <1>1, <1>2

LEMMA SaveCode == ASSUME Base, Code, Save PROVE Code'
  <1> USE DEF Base, Code
  <1>1. pc \in {"save", "nosocket"} /\ pc' = "idle" /\ todo' = <<>> /\ UNCHANGED theirs
    BY DEF Save, Recorded
  <1>2. fs' = fs \cup {"manifest", "config", "config_home"}
    BY PathsAre, AboveIs DEF Save, Make
  <1>3. NamesCode(disk') => NamesCode(mem)
    BY <1>1, ManifestAdded DEF Typed, Recorded, Installing, Save, NamesCode
  <1>4. OwnCode'
    BY <1>1, <1>2, EntriesAre DEF OwnCode
  <1>5. NamesCode(disk') => "code" \in fs
    BY <1>1, <1>3 DEF CodeThere
  <1>6. CodeThere'
    BY <1>1, <1>2, <1>5 DEF CodeThere, NamesCode, Uninstalling
  <1> QED
    BY <1>4, <1>6

\* There is a manifest where there is a program: the fallback is not used.
LEMMA UninstallStartCode == ASSUME Base, Trace, Code, UninstallStart PROVE Code'
  <1> USE DEF Base, Code, UninstallStart
  <1>1. /\ "program" \in fs /\ pc = "idle" /\ pc' = "blocks"
        /\ UNCHANGED <<fs, disk, todo, theirs>>
    OBVIOUS
  <1>2. "manifest" \in fs /\ mem' = disk
    BY <1>1 DEF Trace, AtRest
  <1>3. NamesCode(mem') => "code" \in fs
    BY <1>1, <1>2 DEF NamesCode, CodeThere, Uninstalling
  <1> QED
    BY <1>1, <1>3 DEF OwnCode, CodeThere, NamesCode, Uninstalling

LEMMA UndoCode ==
    ASSUME Base, Trace, Code, UndoBlocks \/ UndoFile \/ UndoOwned \/ UndoCreated
    PROVE  Code'
  <1> USE DEF Base, Code
  <1>1. CASE UndoBlocks
    <2>1. \A p \in Aside : p \in fs' <=> p \in fs
      BY <1>1 DEF UndoBlocks, Remove, Aside, Rcs
    <2> QED
      BY <1>1, <2>1 DEF UndoBlocks, OwnCode, CodeThere, NamesCode, Aside, Uninstalling
  <1>2. CASE UndoFile
    <2> DEFINE head == Head(todo)
    <2>1. /\ todo \in Suffixes /\ todo # <<>> /\ todo' = Tail(todo)
          /\ Entries(todo) = {head} \cup Entries(todo') /\ head \in {"program", "code", "manifest"}
          /\ head \notin Entries(todo')
      BY <1>2, Tails DEF UndoFile, Typed
    <2>2. /\ pc = "files" /\ pc' = pc /\ UNCHANGED <<disk, mem, theirs>>
          /\ fs' = fs \ ({head} \cup IF head = "code" THEN {"own_code"} ELSE {})
      BY <1>2 DEF UndoFile, Remove
    <2>3. "own_code" \in fs => "own_code" \in fs'
      BY <2>1, <2>2 DEF OwnCode
    <2> HIDE DEF head
    <2> QED
      BY <2>1, <2>2, <2>3 DEF OwnCode, CodeThere, NamesCode, Uninstalling
  <1>3. CASE UndoOwned
    <2>1. \A p \in {"program", "code", "own_code"} : p \in fs' <=> p \in fs
      BY <1>3, BelowIs DEF UndoOwned, Remove, Recorded, Sound, OwnDirs
    <2> QED
      BY <1>3, <2>1, EntriesAre DEF UndoOwned, OwnCode, CodeThere, NamesCode, Uninstalling
  <1>4. CASE UndoCreated
    <2>1. \A p \in Aside : p \in fs' <=> p \in fs
      BY <1>4 DEF UndoCreated, Remove, Aside, Recorded, Sound, Parents
    <2>2. "manifest" \notin fs'
      BY <1>4, <2>1 DEF UndoCreated, Trace, InUndo, Aside
    <2> QED
      BY <1>4, <2>1, <2>2, EntriesAre
         DEF UndoCreated, OwnCode, CodeThere, NamesCode, Aside, Recorded
  <1> QED
    BY <1>1, <1>2, <1>3, <1>4

LEMMA WorldCode ==
    ASSUME Base, Code,
           \/ NothingToRun \/ ServeStart \/ ServeStop
           \/ \E b \in Sources : Prep(b)
           \/ \E p \in {"tool", "app", "own_code"} : UserWrites(p)
           \/ \E r \in Rcs : UserEditsRc(r)
    PROVE  Code'
  <1> USE DEF Base, Code
  <1>1. CASE NothingToRun \/ ServeStart \/ ServeStop
    BY <1>1 DEF NothingToRun, ServeStart, ServeStop, OwnCode, CodeThere, NamesCode
  <1>2. CASE \E b \in Sources : Prep(b)
    <2>1. PICK b \in Sources : Prep(b)
      BY <1>2
    <2>2. tunnel[b] \in {"cache", "tmp"}
      BY <2>1 DEF Prep, Typed
    <2>3. \A p \in Aside : p \in fs' <=> p \in fs
      BY <2>1, <2>2, MakeBase, PathsAre, AboveIs DEF Prep, Aside
    <2> QED
      BY <2>1, <2>3 DEF Prep, OwnCode, CodeThere, NamesCode, Aside, Uninstalling
  <1>3. CASE \E p \in {"tool", "app", "own_code"} : UserWrites(p)
    BY <1>3, EntriesAre DEF UserWrites, OwnCode, CodeThere, NamesCode, Recorded
  <1>4. CASE \E r \in Rcs : UserEditsRc(r)
    BY <1>4 DEF UserEditsRc, OwnCode, CodeThere, NamesCode, Rcs
  <1> QED
    BY <1>1, <1>2, <1>3, <1>4

LEMMA StepCode ==
    ASSUME Base, Trace, Code, [Next]_vars, crashes = 0, crashes' = 0
    PROVE  Code'
  <1>1. CASE UNCHANGED vars
    BY <1>1 DEF Code, OwnCode, CodeThere, NamesCode
  <1>2. CASE Crash
    BY <1>2 DEF Crash
  <1>3. CASE Next /\ ~Crash
    BY <1>3, InstallCode, PutCommandsCode, SaveCode, UninstallStartCode, UndoCode, WorldCode
       DEF Next
  <1> QED
    BY <1>1, <1>2, <1>3

-----------------------------------------------------------------------------
(* What the layers give.                                                   *)

\* No order names a file twice.
LEMMA OrdersAreDistinct ==
    ASSUME NEW s \in Orders
    PROVE  /\ Entries(s) \subseteq {"program", "code", "manifest"}
           /\ \A m, n \in DOMAIN s : s[m] = s[n] => m = n
  <1>1. \A x : \A m, n \in DOMAIN <<x>> : m = n
    OBVIOUS
  <1>2. \A x, y : x # y => \A m, n \in DOMAIN <<x, y>> : <<x, y>>[m] = <<x, y>>[n] => m = n
    OBVIOUS
  <1>3. \A x, y, z : x # y /\ x # z /\ y # z =>
            \A m, n \in DOMAIN <<x, y, z>> : <<x, y, z>>[m] = <<x, y, z>>[n] => m = n
    OBVIOUS
  <1>4. \A m, n \in DOMAIN s : s[m] = s[n] => m = n
    <2>1. CASE s = <<>>
      BY <2>1
    <2>2. CASE s \in {<<"manifest">>, <<"program">>}
      BY <1>1, <2>2
    <2>3. CASE s = <<"program", "code">>
      BY <1>2, <2>3
    <2>4. CASE s = <<"program", "code", "manifest">>
      BY <1>3, <2>4
    <2>5. CASE s = <<"manifest", "program", "code">>
      BY <1>3, <2>5
    <2> QED
      BY <2>1, <2>2, <2>3, <2>4, <2>5 DEF Orders
  <1> QED
    BY <1>4, EntriesAre DEF Orders

LEMMA BaseTypes == Base => TypeOK
  <1> SUFFICES ASSUME Base PROVE TypeOK
    OBVIOUS
  <1> USE DEF Base
  <1>1. theirs \subseteq Paths
    BY PathsAre DEF Typed, TheirPaths
  <1>2. /\ Entries(mem.files) \subseteq {"program", "code", "manifest"}
        /\ \A m, n \in DOMAIN mem.files : mem.files[m] = mem.files[n] => m = n
    BY OrdersAreDistinct DEF Recorded, Sound
  <1>3. mem.owned \cap mem.created = {}
    BY DEF Recorded, Sound, OwnDirs, Parents
  <1>4. todo \in Seq(Paths)
    BY SuffixesAreSequences DEF Typed
  <1> QED
    BY <1>1, <1>2, <1>3, <1>4 DEF Typed, TypeOK, Installing, Uninstalling

LEMMA StepGrows ==
    ASSUME Base, [Next]_vars, {"manifest"} \subseteq fs \cap fs'
    PROVE  Grown(disk, disk')
  <1> USE DEF Base
  <1>1. CASE UNCHANGED disk
    BY <1>1 DEF Grown
  <1>2. CASE Save
    <2>1. pc \in Installing /\ Grown(disk, mem)
      BY <1>2 DEF Save, Installing, Merged
    <2>2. /\ Entries(mem.files) \subseteq Entries(disk'.files) /\ disk'.owned = mem.owned
          /\ mem.created \subseteq disk'.created /\ disk'.blocks = mem.blocks
      BY <1>2, <2>1, ManifestAdded DEF Save, Typed, Recorded, Installing
    <2> QED
      BY <2>1, <2>2 DEF Grown
  <1>3. UNCHANGED disk \/ Save
    BY DEF Next, InstallStart, ChooseSocket, NoSocket, PutProgram, PutCode, PutEnv, PutRc,
           UninstallStart, NothingToRun, UndoBlocks, UndoFile, UndoOwned, UndoCreated,
           Crash, ServeStart, ServeStop, Prep, UserWrites, UserEditsRc
  <1> QED
    BY <1>1, <1>2, <1>3

\* The layers that hold while nothing has crashed.
Whole == crashes = 0 => Bridged /\ Trace /\ Code

LEMMA StepWhole == Base /\ Tree /\ Whole /\ [Next]_vars => Whole'
  <1> SUFFICES ASSUME Base, Tree, Whole, [Next]_vars, crashes' = 0
               PROVE  (Bridged /\ Trace /\ Code)'
    BY DEF Whole
  <1>1. crashes' = crashes \/ crashes' = crashes + 1
    BY DEF Next, InstallStart, ChooseSocket, NoSocket, PutProgram, PutCode, PutEnv, PutRc, Save,
           UninstallStart, NothingToRun, UndoBlocks, UndoFile, UndoOwned, UndoCreated, Crash,
           ServeStart, ServeStop, Prep, UserWrites, UserEditsRc
  <1>2. crashes = 0
    BY <1>1 DEF Base, Typed
  <1> QED
    BY <1>2, StepBridged, StepTrace, StepCode DEF Whole

LEMMA TraceSays == Whole => NoTrace
  <1> SUFFICES ASSUME AtRest, told = "uninstalled", pc = "idle"
               PROVE  Leftover \subseteq IF exposed THEN PrepMakes ELSE {}
    BY DEF Whole, Trace, NoTrace
  <1>1. (\A p \in made : Excused(p)) /\ \A r \in Rcs : ~block[r]
    BY DEF AtRest
  <1> QED
    BY <1>1 DEF Leftover, Holds

LEMMA CodeSays == Base /\ Whole => UserKept
  BY DEF Base, Kept, Whole, Code, OwnCode, UserKept

LEMMA Basis == Spec => [](Base /\ Tree /\ Whole)
  <1>1. Init => Whole
    BY InitBridged, InitTrace, InitCode DEF Whole
  <1> HIDE DEF vars
  <1> QED
    BY <1>1, InitBase, InitTree, StepBase, StepTree, StepWhole, PTL DEF Spec

-----------------------------------------------------------------------------
(* The theorems.                                                           *)

\* For any number of installations and crashes every variable keeps its type: the
\* record names each file once, in the order of an installation, and claims no
\* directory both as ours and as a parent (manifest.py:90-111).
THEOREM TypeCorrect == Spec => []TypeOK
  BY Basis, BaseTypes, PTL

\* For any number of installations and crashes a step that finds a manifest and leaves
\* one leaves in it all that was recorded (manifest.py:90-111).
THEOREM RecordNeverShrinks == Spec => RecordGrows
  <1>1. Base /\ [Next]_vars =>
          [{"manifest"} \subseteq fs \cap fs' =>
              /\ Entries(disk.files) \subseteq Entries(disk'.files)
              /\ disk.owned \subseteq disk'.owned
              /\ disk.created \subseteq disk'.created
              /\ \A r \in Rcs : disk.blocks[r] \in {"none", disk'.blocks[r]}]_vars
    BY StepGrows DEF Grown
  <1> HIDE DEF vars
  <1> QED
    BY <1>1, Basis, PTL DEF Spec, RecordGrows

\* For any number of installations neither installation nor uninstallation takes a file
\* of the user's, a command `code` that came between two of them included; and for any
\* number of crashes nothing disappears but, at most, that command
\* (remote_setup.py:88-91, 107-108, uninstall.py:35, manifest.py:126-161).
THEOREM UserFilesStay == Spec => []UserKept
  BY Basis, CodeSays, PTL

\* For any number of installations, whatever shell file or directory each of them uses
\* and also when one finds no directory for its socket, an uninstall that ran to its end
\* leaves nothing of ours, with the user at work in between; and where a bridge was at
\* work during an uninstall, at most what its PREP makes
\* (README.md:29, uninstall.py:79-83, manifest.py:126-161).
THEOREM UninstallLeavesNothing == Spec => []NoTrace
  BY Basis, TraceSays, PTL
=============================================================================
