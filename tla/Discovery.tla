------------------------------ MODULE Discovery ------------------------------
(***************************************************************************)
(* sshconfig.py: reading ~/.ssh/config and everything it includes to find  *)
(* the aliases an installation can choose from.                            *)
(*                                                                         *)
(* A configuration is a set of files that include each other, in any shape:*)
(* twice, in circles, too deep, too many.  Depth-first reading is a stack  *)
(* of what is left to do in each file that is open.                        *)
(***************************************************************************)
EXTENDS Naturals, FiniteSets, Sequences, SequencesExt

CONSTANTS
    Files, Main,   \* the files there are, and ~/.ssh/config
    Aliases,       \* the concrete aliases that Host lines name
    Trees,         \* the configurations to read
    MaxDepth, MaxFiles, MaxAliases   \* the code's limits

\* What a line is to the reader: an alias (patterns such as `*` name none), one
\* file an Include expands to, a line that is refused (Match exec, an Include of
\* nothing, unbalanced quotes), or a marker of version 1, a comment.
Item == [do : {"host"}, what : Aliases] \cup [do : {"include"}, what : Files]
        \cup [do : {"refuse", "start", "end"}]
Host(a) == [do |-> "host", what |-> a]
Include(f) == [do |-> "include", what |-> f]
Refuse == [do |-> "refuse"]
Start == [do |-> "start"]
End == [do |-> "end"]

ASSUME DiscoveryAssumption ==
    /\ Main \in Files /\ IsFiniteSet(Files) /\ IsFiniteSet(Aliases)
    /\ \A t \in Trees : t.text \in [Files -> Seq(Item)] /\ t.unsafe \subseteq Files
    /\ MaxDepth \in Nat /\ MaxFiles \in Nat \ {0} /\ MaxAliases \in Nat \ {0}

VARIABLES
    tree,      \* what is on disk: the lines of each file, and those not safe to read
    stack,     \* the rest of each open file, the innermost last
    seen,      \* Discovery.seen
    aliases,   \* Discovery.aliases
    outcome    \* how it ended, and whether the aliases have been used

discoveryVars == <<tree, stack, seen, aliases, outcome>>

Outcomes == {"reading", "ok", "depth", "files", "unsafe", "refused", "aliases", "used"}

DiscoveryTypeOK ==
    /\ stack \in Seq(Seq(Item)) /\ seen \subseteq Files
    /\ aliases \in Seq(Aliases) /\ Len(aliases) <= MaxAliases
    /\ outcome \in Outcomes

\* discover_aliases(): the outermost frame is the call for the main file.
DiscoveryInit ==
    /\ tree \in Trees
    /\ stack = << <<Include(Main)>> >> /\ seen = {} /\ aliases = <<>>
    /\ outcome = "reading"

-----------------------------------------------------------------------------

Top == stack[Len(stack)]
Rest == [stack EXCEPT ![Len(stack)] = Tail(@)]
NextIs(kind) == outcome = "reading" /\ stack # <<>> /\ Top # <<>> /\ Head(Top).do = kind
Raise(reason) == outcome' = reason /\ stack' = <<>> /\ UNCHANGED aliases

\* Mutant: a file is read each time it is included.
OpenAgain(f) ==
    IF Len(stack) - 1 > MaxDepth THEN Raise("depth") /\ UNCHANGED seen
    ELSE IF Cardinality(seen) >= MaxFiles THEN Raise("files") /\ UNCHANGED seen
    ELSE /\ seen' = seen \cup {f}
         /\ IF f \in tree.unsafe THEN Raise("unsafe")
            ELSE stack' = Append(Rest, tree.text[f]) /\ UNCHANGED <<aliases, outcome>>

\* Mutant: a file that is not safe is passed over.
OpenPassing(f) ==
    IF Len(stack) - 1 > MaxDepth THEN Raise("depth") /\ UNCHANGED seen
    ELSE IF f \in seen \cup tree.unsafe THEN stack' = Rest /\ UNCHANGED <<seen, aliases, outcome>>
    ELSE IF Cardinality(seen) >= MaxFiles THEN Raise("files") /\ UNCHANGED seen
    ELSE /\ seen' = seen \cup {f}
         /\ stack' = Append(Rest, tree.text[f]) /\ UNCHANGED <<aliases, outcome>>

\* read(): the depth is checked first, also of a file that was read before.
Open(f) ==
    IF Len(stack) - 1 > MaxDepth THEN Raise("depth") /\ UNCHANGED seen
    ELSE IF f \in seen THEN stack' = Rest /\ UNCHANGED <<seen, aliases, outcome>>
    ELSE IF Cardinality(seen) >= MaxFiles THEN Raise("files") /\ UNCHANGED seen
    ELSE /\ seen' = seen \cup {f}
         /\ IF f \in tree.unsafe THEN Raise("unsafe")
            ELSE stack' = Append(Rest, tree.text[f]) /\ UNCHANGED <<aliases, outcome>>

ReadInclude == NextIs("include") /\ Open(Head(Top).what) /\ UNCHANGED tree

\* Mutant: aliases are put in front.
AddFirst(a) ==
    IF a \in ToSet(aliases) THEN stack' = Rest /\ UNCHANGED <<aliases, outcome>>
    ELSE IF Len(aliases) >= MaxAliases THEN Raise("aliases")
    ELSE aliases' = <<a>> \o aliases /\ stack' = Rest /\ UNCHANGED outcome

AddAlias(a) ==
    IF a \in ToSet(aliases) THEN stack' = Rest /\ UNCHANGED <<aliases, outcome>>
    ELSE IF Len(aliases) >= MaxAliases THEN Raise("aliases")
    ELSE aliases' = Append(aliases, a) /\ stack' = Rest /\ UNCHANGED outcome

ReadHost == NextIs("host") /\ AddAlias(Head(Top).what) /\ UNCHANGED <<tree, seen>>

ReadRefused == NextIs("refuse") /\ Raise("refused") /\ UNCHANGED <<tree, seen>>

ReadComment ==
    /\ NextIs("start") \/ NextIs("end")
    /\ stack' = Rest /\ UNCHANGED <<tree, seen, aliases, outcome>>

\* The end of a file, or of the whole configuration.
Return ==
    /\ outcome = "reading" /\ stack # <<>> /\ Top = <<>>
    /\ stack' = Front(stack)
    /\ outcome' = IF Len(stack) = 1 THEN "ok" ELSE outcome
    /\ UNCHANGED <<tree, seen, aliases>>

DiscoveryNext == ReadInclude \/ ReadHost \/ ReadRefused \/ ReadComment \/ Return

-----------------------------------------------------------------------------
(* A reference: what a configuration means, without a reader.              *)

IncludesOf(f) == {g \in Files : Include(g) \in ToSet(tree.text[f])}
Closed(files) == \A f \in files : IncludesOf(f) \subseteq files
Reachable ==
    {f \in Files : \A files \in SUBSET Files : Main \in files /\ Closed(files) => f \in files}
Named == {a \in Aliases : \E f \in Reachable : Host(a) \in ToSet(tree.text[f])}

\* A chain of MaxDepth + 1 different files, each included by the one before, and
\* one more include.
TooDeep ==
    \E chain \in [1..MaxDepth + 1 -> Files] :
        /\ chain[1] = Main
        /\ \A i, j \in DOMAIN chain : i # j => chain[i] # chain[j]
        /\ \A i \in 1..MaxDepth : chain[i + 1] \in IncludesOf(chain[i])
        /\ IncludesOf(chain[MaxDepth + 1]) # {}

\* The chains of different files, each included by the one before.
Chains ==
    {files \in UNION {[1..n -> Files] : n \in 1..Cardinality(Files)} :
        /\ files[1] = Main /\ IsInjective(files)
        /\ \A i \in 2..Len(files) : files[i] \in IncludesOf(files[i - 1])}

\* Where an alias is in the text that has every included file written out in its
\* place, and none within itself: the line in each file of such a chain.
Places(a) ==
    UNION {{at \in [DOMAIN files -> UNION {DOMAIN tree.text[f] : f \in Files}] :
               \A i \in DOMAIN files :
                   /\ at[i] \in DOMAIN tree.text[files[i]]
                   /\ tree.text[files[i]][at[i]] =
                         IF i < Len(files) THEN Include(files[i + 1]) ELSE Host(a)} :
           files \in Chains}
Before(p, q) ==
    \E k \in DOMAIN p \cap DOMAIN q : p[k] < q[k] /\ \A i \in 1..k - 1 : p[i] = q[i]

FirstAt(a, s) == CHOOSE i \in DOMAIN s : s[i] = a /\ \A j \in 1..i - 1 : s[j] # a

\* When the reading ends well, it has found every alias of every file that the
\* configuration includes, once, and none of these files is one to refuse: no
\* shape of includes hides a file from the check that they are safe, or an alias
\* from the user (sshconfig.py:69-96).
FoundAll ==
    outcome = "ok" =>
        /\ ToSet(aliases) = Named /\ IsInjective(aliases)
        /\ \A f \in Reachable : f \notin tree.unsafe /\ Refuse \notin ToSet(tree.text[f])

\* "in file order" (sshconfig.py:116): as if the included files were written out
\* in place, also where they include each other in a circle.  Which alias is
\* offered, or installed for, first depends on it.
InFileOrder ==
    outcome = "ok" =>
        \A i, j \in DOMAIN aliases :
            i < j => \E p \in Places(aliases[i]) : \A q \in Places(aliases[j]) : Before(p, q)

\* A configuration is refused for a reason it gives: including a file again, or
\* in a circle, or naming an alias again, is none.
Justified ==
    /\ outcome = "depth" => TooDeep
    /\ outcome = "files" => Cardinality(Reachable) > MaxFiles
    /\ outcome = "aliases" => Cardinality(Named) > MaxAliases
    /\ outcome = "unsafe" => Reachable \cap tree.unsafe # {}
    /\ outcome = "refused" => \E f \in Reachable : Refuse \in ToSet(tree.text[f])
=============================================================================
