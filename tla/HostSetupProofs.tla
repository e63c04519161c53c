--------------------------- MODULE HostSetupProofs ---------------------------
(***************************************************************************)
(* For every set of files, whatever they include, and all limits: what the *)
(* reader of the SSH configuration finds, and why it stops; and what an    *)
(* installation makes of it.                                               *)
(*                                                                         *)
(* The reader is depth-first with a set of the files it has seen.  The     *)
(* invariant says that nothing gets lost between the two: a line of a file *)
(* that was opened has been dealt with or is still on the stack, and the   *)
(* open files are a chain of different files that include each other.      *)
(* Then the choice of the remote, and last the texts: what a bridge reads  *)
(* from the settings that were written, and which lines are left alone.    *)
(***************************************************************************)
EXTENDS HostSetup, FiniteSetTheorems, SequenceTheorems, TLAPS

\* An item that is still to be read.
Waits(item, frames) == \E i \in DOMAIN frames : item \in ToSet(frames[i])

\* What the reader has done with an item it has read.
Dealt(item) ==
    /\ item.do # "refuse"
    /\ item.do = "include" => item.what \in seen
    /\ item.do = "host" => item.what \in ToSet(aliases)

Readable ==
    /\ tree.text \in [Files -> Seq(Item)]
    /\ tree.unsafe \subseteq Files

\* The outermost frame is the call for the main file.
Frames ==
    /\ stack \in Seq(Seq(Item))
    /\ outcome = "reading" => stack # <<>>
    /\ stack # <<>> => \/ stack[1] = <<>> /\ Main \in seen
                       \/ stack = << <<Include(Main)>> >> /\ seen = {}
    /\ outcome # "reading" => stack = <<>>
    /\ outcome = "ok" => Main \in seen

\* The files that are open: each is included by the one before, none is open twice.
Chain(files) ==
    /\ files \in [1..Len(stack) - 1 -> seen]
    /\ \A i, j \in DOMAIN files : i # j => files[i] # files[j]
    /\ Len(stack) > 1 => files[1] = Main
    /\ \A i \in DOMAIN files : i > 1 => files[i] \in IncludesOf(files[i - 1])
    /\ \A i \in DOMAIN files : ToSet(stack[i + 1]) \subseteq ToSet(tree.text[files[i]])

Opened ==
    /\ seen \subseteq Reachable /\ Cardinality(seen) <= MaxFiles
    /\ outcome = "reading" => /\ Len(stack) <= MaxDepth + 2
                              /\ \E files : Chain(files)

Found ==
    /\ aliases \in Seq(Aliases) /\ IsInjective(aliases) /\ Len(aliases) <= MaxAliases
    /\ Cardinality(ToSet(aliases)) = Len(aliases)
    /\ ToSet(aliases) \subseteq Named

\* Nothing is lost.
Remembered ==
    outcome \in {"reading", "ok"} =>
        \A f \in seen : /\ f \notin tree.unsafe
                        /\ \A item \in ToSet(tree.text[f]) : Dealt(item) \/ Waits(item, stack)

Reader == outcome # "used" => Readable /\ Frames /\ Opened /\ Found /\ Remembered /\ Justified

\* The reader has ended well when its aliases are used.
Handed ==
    /\ pc \in {"choose", "chosen", "leftovers", "done"} => outcome = "used"
    /\ outcome \in Outcomes

IInv == Handed /\ Reader

-----------------------------------------------------------------------------
(* Lines, frames and includes.                                             *)

LEMMA Items ==
    ASSUME NEW item \in Item
    PROVE  /\ item.do \in {"host", "include", "refuse", "start", "end"}
           /\ item.do = "host" => item.what \in Aliases /\ item = Host(item.what)
           /\ item.do = "include" => item.what \in Files /\ item = Include(item.what)
           /\ item.do = "refuse" => item = Refuse
  BY DEF Item, Host, Include, Refuse

LEMMA HeadAndTail ==
    ASSUME NEW S, NEW s \in Seq(S), s # <<>>
    PROVE  /\ Head(s) \in S /\ Tail(s) \in Seq(S)
           /\ ToSet(s) = {Head(s)} \cup ToSet(Tail(s))
  <1>1. /\ Head(s) = s[1] /\ Tail(s) \in Seq(S) /\ Len(s) \in Nat \ {0}
        /\ Len(Tail(s)) = Len(s) - 1
        /\ \A j \in 1..Len(Tail(s)) : Tail(s)[j] = s[j + 1]
    OBVIOUS
  <1>2. \A j \in 1..Len(s) : j = 1 \/ (j - 1 \in 1..Len(Tail(s)) /\ s[j] = Tail(s)[j - 1])
    BY <1>1
  <1>3. \A j \in 1..Len(Tail(s)) : j + 1 \in 1..Len(s)
    BY <1>1
  <1>4. DOMAIN s = 1..Len(s) /\ DOMAIN Tail(s) = 1..Len(Tail(s)) /\ 1 \in 1..Len(s)
    BY <1>1
  <1>5. ASSUME NEW x \in ToSet(s) PROVE x \in {Head(s)} \cup ToSet(Tail(s))
    <2>1. PICK j \in 1..Len(s) : x = s[j]
      BY <1>4 DEF ToSet
    <2>2. CASE j = 1
      BY <1>1, <2>1, <2>2
    <2>3. CASE j # 1
      BY <1>2, <1>4, <2>1, <2>3 DEF ToSet
    <2> QED
      BY <2>2, <2>3
  <1>6. {Head(s)} \cup ToSet(Tail(s)) \subseteq ToSet(s)
    BY <1>1, <1>3, <1>4 DEF ToSet
  <1> QED
    BY <1>1, <1>5, <1>6

LEMMA AppendNew ==
    ASSUME NEW S, NEW s \in Seq(S), NEW x \in S
    PROVE  /\ Append(s, x) \in Seq(S) /\ Len(Append(s, x)) = Len(s) + 1
           /\ ToSet(Append(s, x)) = ToSet(s) \cup {x}
           /\ IsInjective(s) /\ x \notin ToSet(s) => IsInjective(Append(s, x))
  <1> DEFINE t == Append(s, x)
  <1>1. /\ t \in Seq(S) /\ Len(t) = Len(s) + 1 /\ Len(s) \in Nat
        /\ DOMAIN s = 1..Len(s) /\ DOMAIN t = 1..Len(s) + 1
        /\ \A i \in DOMAIN s : t[i] = s[i]
        /\ t[Len(s) + 1] = x
    OBVIOUS
  <1>2. \A i \in DOMAIN t : i \in DOMAIN s \/ i = Len(s) + 1
    BY <1>1
  <1>3. DOMAIN s \subseteq DOMAIN t /\ Len(s) + 1 \in DOMAIN t
    BY <1>1
  <1> HIDE DEF t
  <1>4. ToSet(t) = ToSet(s) \cup {x}
    BY <1>1, <1>2, <1>3 DEF ToSet
  <1>5. ASSUME IsInjective(s), x \notin ToSet(s), NEW i \in DOMAIN t, NEW j \in DOMAIN t, t[i] = t[j]
        PROVE  i = j
    <2>1. \A k \in DOMAIN s : t[k] \in ToSet(s)
      BY <1>1 DEF ToSet
    <2> QED
      BY <1>1, <1>2, <1>5, <2>1 DEF IsInjective
  <1>6. IsInjective(s) /\ x \notin ToSet(s) => IsInjective(t)
    BY <1>5 DEF IsInjective
  <1> QED
    BY <1>1, <1>4, <1>6 DEF t

\* Reading an item of the innermost frame leaves the others where they are.
LEMMA RestProperties ==
    ASSUME stack \in Seq(Seq(Item)), stack # <<>>, Top # <<>>
    PROVE  /\ Rest \in Seq(Seq(Item)) /\ Len(Rest) = Len(stack)
           /\ Head(Top) \in Item
           /\ \A i \in 1..Len(stack) - 1 : Rest[i] = stack[i]
           /\ \A i \in 1..Len(stack) : ToSet(Rest[i]) \subseteq ToSet(stack[i])
           /\ Head(Top) \in ToSet(stack[Len(stack)])
           /\ \A item : Waits(item, stack) => item = Head(Top) \/ Waits(item, Rest)
  <1>1. Top \in Seq(Item) /\ Len(stack) \in Nat \ {0}
    BY DEF Top
  <1>2. Head(Top) \in Item /\ Tail(Top) \in Seq(Item) /\ ToSet(Top) = {Head(Top)} \cup ToSet(Tail(Top))
    BY <1>1, HeadAndTail
  <1>3. /\ Rest \in Seq(Seq(Item)) /\ Len(Rest) = Len(stack)
        /\ \A i \in 1..Len(stack) - 1 : Rest[i] = stack[i]
        /\ Rest[Len(stack)] = Tail(Top)
    BY <1>1, <1>2 DEF Rest, Top
  <1>4. \A i \in 1..Len(stack) : ToSet(stack[i]) \subseteq ToSet(Rest[i]) \cup {Head(Top)}
                                /\ ToSet(Rest[i]) \subseteq ToSet(stack[i])
    <2> SUFFICES ASSUME NEW i \in 1..Len(stack)
                 PROVE  ToSet(stack[i]) \subseteq ToSet(Rest[i]) \cup {Head(Top)}
                        /\ ToSet(Rest[i]) \subseteq ToSet(stack[i])
      OBVIOUS
    <2>1. CASE i = Len(stack)
      <3>1. stack[i] = Top /\ Rest[i] = Tail(Top)
        BY <2>1, <1>3 DEF Top
      <3> QED
        BY <3>1, <1>2
    <2>2. CASE i # Len(stack)
      <3>1. Rest[i] = stack[i]
        BY <2>2, <1>3, <1>1
      <3> QED
        BY <3>1
    <2> QED
      BY <2>1, <2>2
  <1>5. DOMAIN stack = 1..Len(stack) /\ DOMAIN Rest = 1..Len(stack)
    BY <1>1, <1>3
  <1>6. \A item : Waits(item, stack) => item = Head(Top) \/ Waits(item, Rest)
    BY <1>4, <1>5 DEF Waits
  <1> QED
    BY <1>2, <1>3, <1>4, <1>6 DEF Top

\* What the main file reaches is closed, and the smallest such set.
LEMMA ReachableClosed ==
    /\ Reachable \subseteq Files /\ Main \in Reachable
    /\ \A f \in Reachable : IncludesOf(f) \subseteq Reachable
  BY DiscoveryAssumption DEF Reachable, Closed, IncludesOf

LEMMA ReachableLeast ==
    ASSUME NEW files \in SUBSET Files, Main \in files, Closed(files)
    PROVE  Reachable \subseteq files
  BY DEF Reachable

LEMMA FiniteFiles ==
    /\ IsFiniteSet(Reachable) /\ Cardinality(Reachable) \in Nat
    /\ IsFiniteSet(Named) /\ Cardinality(Named) \in Nat
  <1>1. Reachable \in SUBSET Files /\ Named \in SUBSET Aliases
    BY ReachableClosed DEF Named
  <1> QED
    BY <1>1, DiscoveryAssumption, FS_Subset, FS_CardinalityType

\* The meaning of a configuration depends on its text alone.
LEMMA SameMeaning ==
    ASSUME UNCHANGED tree
    PROVE  /\ Readable' = Readable
           /\ Reachable' = Reachable /\ Named' = Named /\ TooDeep' = TooDeep
           /\ \A f \in Files : IncludesOf(f)' = IncludesOf(f)
  <1>1. \A f \in Files : IncludesOf(f)' = IncludesOf(f)
    BY DEF IncludesOf
  <1>2. Reachable' = Reachable
    BY <1>1 DEF Reachable, Closed, IncludesOf
  <1>3. Named' = Named
    BY <1>2 DEF Named
  <1>4. TooDeep' = TooDeep
    BY DEF TooDeep, IncludesOf
  <1> QED
    BY <1>1, <1>2, <1>3, <1>4 DEF Readable

-----------------------------------------------------------------------------
(* The first state.                                                        *)

LEMMA InitReader == Init => IInv
  <1> SUFFICES ASSUME Init PROVE IInv
    OBVIOUS
  <1> USE DEF Init, DiscoveryInit
  <1>1. Handed
    BY DEF Handed, Outcomes
  <1>2. Readable
    BY DiscoveryAssumption DEF Readable
  <1>3. Include(Main) \in Item
    BY DiscoveryAssumption DEF Include, Item
  <1>4. stack \in Seq(Seq(Item)) /\ Len(stack) = 1 /\ stack # <<>>
    BY <1>3
  <1>5. Frames
    BY <1>4 DEF Frames
  <1>6. Cardinality(seen) = 0
    BY FS_EmptySet
  <1>7. Chain(<<>>)
    <2>1. <<>> \in [1..0 -> seen] /\ DOMAIN <<>> = {}
      OBVIOUS
    <2> QED
      BY <1>4, <2>1 DEF Chain
  <1>8. Opened
    BY <1>4, <1>6, <1>7, DiscoveryAssumption DEF Opened
  <1>9. ToSet(aliases) = {}
    BY DEF ToSet
  <1>10. Found
    <2>1. aliases \in Seq(Aliases) /\ Len(aliases) = 0 /\ DOMAIN aliases = {}
      OBVIOUS
    <2>2. IsInjective(aliases)
      BY <2>1 DEF IsInjective
    <2>3. Cardinality(ToSet(aliases)) = 0
      BY <1>9, FS_EmptySet
    <2> QED
      BY <1>9, <2>1, <2>2, <2>3, DiscoveryAssumption DEF Found
  <1>11. Remembered /\ Justified
    BY DEF Remembered, Justified
  <1> QED
    BY <1>1, <1>2, <1>5, <1>8, <1>10, <1>11 DEF IInv, Reader

-----------------------------------------------------------------------------
(* The reader's steps.                                                     *)

\* A reason to stop is about the text, not about the reader.
LEMMA StopProperties ==
    ASSUME Reader, outcome = "reading", UNCHANGED tree,
           Raise("depth") \/ Raise("files") \/ Raise("unsafe") \/ Raise("refused") \/ Raise("aliases"),
           seen' \subseteq Reachable, Cardinality(seen') <= MaxFiles,
           Justified'
    PROVE  Reader'
  <1>1. /\ Readable' /\ Found'
        /\ seen' \subseteq Reachable'
    BY SameMeaning DEF Reader, Raise, Found, Readable
  <1>2. stack' = <<>> /\ outcome' \notin {"reading", "ok"}
    BY DEF Raise
  <1>3. Frames'
    BY <1>2 DEF Frames
  <1>4. Opened' /\ Remembered'
    BY <1>1, <1>2 DEF Opened, Remembered
  <1> QED
    BY <1>1, <1>3, <1>4 DEF Reader

\* What stays to be shown when an item is read and the reading goes on.
LEMMA GoOn ==
    ASSUME Reader, outcome = "reading", UNCHANGED <<tree, outcome, seen>>,
           stack # <<>>, Top # <<>>, stack' = Rest, NEW read, read = Head(Top),
           Found', Dealt(read)', \A item : Dealt(item) => Dealt(item)',
           read = Include(Main) => Main \in seen
    PROVE  Reader'
  <1>1. Readable /\ Frames /\ Opened /\ Remembered
    BY DEF Reader
  <1>2. /\ stack \in Seq(Seq(Item)) /\ Len(stack) \in Nat \ {0}
        /\ DOMAIN stack = 1..Len(stack) /\ DOMAIN Rest = 1..Len(stack)
        /\ Rest \in Seq(Seq(Item)) /\ Len(Rest) = Len(stack)
        /\ \A i \in 1..Len(stack) - 1 : Rest[i] = stack[i]
        /\ \A i \in 1..Len(stack) : ToSet(Rest[i]) \subseteq ToSet(stack[i])
        /\ \A item : Waits(item, stack) => item = Head(Top) \/ Waits(item, Rest)
    <2>1. stack \in Seq(Seq(Item))
      BY <1>1 DEF Frames
    <2>2. Len(stack) \in Nat \ {0} /\ DOMAIN stack = 1..Len(stack)
      BY <2>1
    <2>3. Rest \in Seq(Seq(Item)) /\ Len(Rest) = Len(stack)
      BY <2>1, RestProperties
    <2>4. DOMAIN Rest = 1..Len(stack)
      BY <2>3
    <2> QED
      BY <2>1, <2>2, <2>3, <2>4, RestProperties
  <1>3. Len(stack) > 1 /\ stack[1] = <<>> /\ Main \in seen
    <2>1. CASE stack = << <<Include(Main)>> >>
      <3>1. Head(Top) = Include(Main) /\ seen = {}
        BY <2>1, <1>1 DEF Top, Frames
      <3> QED
        BY <3>1
    <2>2. CASE stack[1] = <<>> /\ Main \in seen
      BY <1>2, <2>2 DEF Top
    <2> QED
      BY <1>1, <2>1, <2>2 DEF Frames
  <1>4. Readable'
    BY <1>1 DEF Readable
  <1>5. Frames'
    <2>1. Rest # <<>> /\ Rest[1] = <<>>
      BY <1>2, <1>3
    <2> QED
      BY <2>1, <1>2, <1>3 DEF Frames
  <1>6. Opened'
    <2>1. PICK files : Chain(files)
      BY <1>1 DEF Opened
    <2>2. \A f \in seen : f \in Files
      BY <1>1, ReachableClosed DEF Opened
    <2>3. DOMAIN files = 1..Len(stack) - 1 /\ \A i \in DOMAIN files : files[i] \in seen
      BY <2>1 DEF Chain
    <2>4. Chain(files)'
      <3>1. \A i \in DOMAIN files : i > 1 => files[i] \in IncludesOf(files[i - 1])'
        <4>1. \A i \in DOMAIN files : i > 1 => i - 1 \in DOMAIN files
          BY <2>3, <1>2
        <4> QED
          BY <2>1, <2>2, <2>3, <4>1, SameMeaning DEF Chain
      <3>2. \A i \in DOMAIN files : ToSet(stack'[i + 1]) \subseteq ToSet(tree'.text[files[i]])
        <4>1. \A i \in DOMAIN files : i + 1 \in 1..Len(stack)
          BY <2>3, <1>2
        <4> QED
          BY <4>1, <1>2, <2>1 DEF Chain
      <3> QED
        BY <1>2, <2>1, <3>1, <3>2 DEF Chain
    <2> QED
      BY <1>1, <1>2, <2>4, SameMeaning DEF Opened
  <1>7. Remembered'
    <2> SUFFICES ASSUME NEW f \in seen
                 PROVE  /\ f \notin tree.unsafe
                        /\ \A item \in ToSet(tree.text[f]) : Dealt(item)' \/ Waits(item, stack')
      BY DEF Remembered
    <2>1. f \notin tree.unsafe /\ \A item \in ToSet(tree.text[f]) : Dealt(item) \/ Waits(item, stack)
      BY <1>1 DEF Remembered
    <2>2. \A item \in ToSet(tree.text[f]) : Dealt(item)' \/ item = read \/ Waits(item, Rest)
      BY <2>1, <1>2
    <2> QED
      BY <2>1, <2>2
  <1>8. Justified'
    BY DEF Justified
  <1> QED
    BY <1>4, <1>5, <1>6, <1>7, <1>8 DEF Reader

\* What is read next is a line of a file that the main file reaches, or the call for
\* the main file itself.
LEMMA NextItem ==
    ASSUME Reader, outcome = "reading", stack # <<>>, Top # <<>>
    PROVE  /\ stack \in Seq(Seq(Item)) /\ Head(Top) \in Item /\ Len(stack) \in Nat \ {0}
           /\ IF Len(stack) > 1
              THEN /\ Main \in seen
                   /\ \A files : Chain(files) =>
                         /\ files[Len(stack) - 1] \in Reachable
                         /\ Head(Top) \in ToSet(tree.text[files[Len(stack) - 1]])
              ELSE Len(stack) = 1 /\ Head(Top) = Include(Main) /\ seen = {}
  <1>1. Frames /\ Opened
    BY DEF Reader
  <1>2. stack \in Seq(Seq(Item)) /\ Len(stack) \in Nat \ {0}
    BY <1>1 DEF Frames
  <1>3. Head(Top) \in Item /\ Head(Top) \in ToSet(stack[Len(stack)])
    BY <1>2, RestProperties
  <1>4. CASE stack = << <<Include(Main)>> >> /\ seen = {}
    <2>1. Len(stack) = 1 /\ ~(Len(stack) > 1) /\ Head(Top) = Include(Main)
      BY <1>4 DEF Top
    <2> QED
      BY <1>2, <1>3, <1>4, <2>1
  <1>5. CASE stack[1] = <<>> /\ Main \in seen
    <2>1. Len(stack) > 1
      BY <1>2, <1>5 DEF Top
    <2>2. ASSUME NEW files, Chain(files)
          PROVE  /\ files[Len(stack) - 1] \in Reachable
                 /\ Head(Top) \in ToSet(tree.text[files[Len(stack) - 1]])
      <3>1. DOMAIN files = 1..Len(stack) - 1 /\ Len(stack) - 1 \in DOMAIN files
        BY <1>2, <2>1, <2>2 DEF Chain
      <3>2. files[Len(stack) - 1] \in seen
        BY <2>2, <3>1 DEF Chain
      <3>3. ToSet(stack[Len(stack) - 1 + 1]) \subseteq ToSet(tree.text[files[Len(stack) - 1]])
        BY <2>2, <3>1 DEF Chain
      <3>4. Len(stack) - 1 + 1 = Len(stack)
        BY <1>2
      <3> QED
        BY <1>1, <1>3, <3>2, <3>3, <3>4 DEF Opened
    <2> QED
      BY <1>2, <1>3, <1>5, <2>1, <2>2
  <1> QED
    BY <1>1, <1>4, <1>5 DEF Frames

LEMMA NextReachable ==
    ASSUME Reader, outcome = "reading", stack # <<>>, Top # <<>>
    PROVE  \/ Head(Top) = Include(Main) /\ seen = {}
           \/ \E f \in Reachable : Head(Top) \in ToSet(tree.text[f])
  BY NextItem DEF Reader, Opened

LEMMA ReadCommentStep ==
    ASSUME Reader, ReadComment
    PROVE  Reader'
  <1>1. /\ outcome = "reading" /\ stack # <<>> /\ Top # <<>> /\ Head(Top).do \in {"start", "end"}
        /\ UNCHANGED <<tree, seen, aliases, outcome>> /\ stack' = Rest
    BY DEF ReadComment, NextIs
  <1>2. Found'
    BY <1>1, SameMeaning DEF Reader, Found
  <1>3. PICK read : read = Head(Top)
    OBVIOUS
  <1>4. Dealt(read)' /\ read # Include(Main)
    BY <1>1, <1>3 DEF Dealt, Include
  <1>5. \A item : Dealt(item) => Dealt(item)'
    BY <1>1 DEF Dealt
  <1> QED
    BY <1>1, <1>2, <1>3, <1>4, <1>5, GoOn

LEMMA ReadRefusedStep ==
    ASSUME Reader, ReadRefused
    PROVE  Reader'
  <1>1. /\ outcome = "reading" /\ stack # <<>> /\ Top # <<>> /\ Head(Top).do = "refuse"
        /\ UNCHANGED <<tree, seen>> /\ Raise("refused")
    BY DEF ReadRefused, NextIs
  <1>2. Head(Top) = Refuse /\ Head(Top) # Include(Main)
    BY <1>1, NextItem, Items DEF Include
  <1>3. Justified'
    BY <1>1, <1>2, NextReachable, SameMeaning DEF Justified, Raise
  <1>4. seen' \subseteq Reachable /\ Cardinality(seen') <= MaxFiles
    BY <1>1 DEF Reader, Opened
  <1> QED
    BY <1>1, <1>3, <1>4, StopProperties

LEMMA ReadHostStep ==
    ASSUME Reader, ReadHost
    PROVE  Reader'
  <1>1. /\ outcome = "reading" /\ stack # <<>> /\ Top # <<>> /\ Head(Top).do = "host"
        /\ UNCHANGED <<tree, seen>> /\ AddAlias(Head(Top).what)
    BY DEF ReadHost, NextIs
  <1>2. PICK read, a : read = Head(Top) /\ a = Head(Top).what
    OBVIOUS
  <1>3. read.do = "host" /\ read.what = a /\ a \in Aliases /\ read = Host(a) /\ read # Include(Main)
    BY <1>1, <1>2, NextItem, Items DEF Include
  <1>4. Found /\ seen \subseteq Reachable /\ Cardinality(seen) <= MaxFiles
    BY <1>1 DEF Reader, Opened
  <1>5. a \in Named
    <2>1. \E f \in Reachable : Host(a) \in ToSet(tree.text[f])
      BY <1>1, <1>2, <1>3, NextReachable
    <2> QED
      BY <1>3, <2>1 DEF Named
  <1>6. ToSet(aliases) \subseteq Aliases /\ Len(aliases) \in Nat
    BY <1>4 DEF Found, ToSet
  <1>7. CASE a \in ToSet(aliases) /\ stack' = Rest /\ UNCHANGED <<aliases, outcome>>
    <2>1. Found'
      BY <1>1, <1>4, <1>7, SameMeaning DEF Found
    <2>2. Dealt(read)' /\ \A item : Dealt(item) => Dealt(item)'
      BY <1>1, <1>3, <1>7 DEF Dealt
    <2> QED
      BY <1>1, <1>2, <1>3, <1>7, <2>1, <2>2, GoOn
  <1>8. CASE a \notin ToSet(aliases) /\ Len(aliases) >= MaxAliases /\ Raise("aliases")
    <2>1. ToSet(aliases) \cup {a} \in SUBSET Named
      BY <1>4, <1>5 DEF Found
    <2>2. IsFiniteSet(ToSet(aliases))
      BY <2>1, FiniteFiles, FS_Subset
    <2>3. Cardinality(ToSet(aliases) \cup {a}) = Len(aliases) + 1
      BY <1>4, <1>8, <2>2, FS_AddElement DEF Found
    <2>4. Cardinality(Named) > MaxAliases
      BY <1>6, <1>8, <2>1, <2>3, FiniteFiles, FS_Subset, DiscoveryAssumption
    <2>5. Justified'
      BY <1>1, <1>8, <2>4, SameMeaning DEF Justified, Raise
    <2> QED
      BY <1>1, <1>4, <1>8, <2>5, StopProperties
  <1>9. CASE /\ a \notin ToSet(aliases) /\ Len(aliases) < MaxAliases
             /\ aliases' = Append(aliases, a) /\ stack' = Rest /\ UNCHANGED outcome
    <2>1. /\ aliases' \in Seq(Aliases) /\ Len(aliases') = Len(aliases) + 1
          /\ ToSet(aliases') = ToSet(aliases) \cup {a} /\ IsInjective(aliases')
      BY <1>3, <1>4, <1>9, AppendNew DEF Found
    <2>2. ToSet(aliases) \in SUBSET Aliases /\ IsFiniteSet(ToSet(aliases))
      BY <1>6, DiscoveryAssumption, FS_Subset
    <2>3. Cardinality(ToSet(aliases')) = Len(aliases')
      <3>1. Cardinality(ToSet(aliases) \cup {a}) = Cardinality(ToSet(aliases)) + 1
        BY <1>9, <2>2, FS_AddElement
      <3>2. Cardinality(ToSet(aliases)) = Len(aliases)
        BY <1>4 DEF Found
      <3> QED
        BY <2>1, <3>1, <3>2
    <2>4. Found'
      <3>1. Len(aliases') <= MaxAliases
        BY <1>6, <1>9, <2>1, DiscoveryAssumption
      <3>2. ToSet(aliases') \subseteq Named'
        BY <1>1, <1>4, <1>5, <2>1, SameMeaning DEF Found
      <3> QED
        BY <2>1, <2>3, <3>1, <3>2 DEF Found
    <2>5. Dealt(read)' /\ \A item : Dealt(item) => Dealt(item)'
      BY <1>1, <1>3, <1>9, <2>1 DEF Dealt
    <2> QED
      BY <1>1, <1>2, <1>3, <1>9, <2>4, <2>5, GoOn
  <1> QED
    BY <1>1, <1>2, <1>6, <1>7, <1>8, <1>9, DiscoveryAssumption DEF AddAlias

\* A file that was included and is not yet open: its place in the chain.
LEMMA Opening ==
    ASSUME Reader, outcome = "reading", stack # <<>>, Top # <<>>,
           NEW f, Head(Top) = Include(f)
    PROVE  /\ f \in Reachable
           /\ \A files : Chain(files) /\ Len(stack) > 1 => f \in IncludesOf(files[Len(stack) - 1])
           /\ IF Len(stack) > 1 THEN Main \in seen ELSE Len(stack) = 1 /\ f = Main /\ seen = {}
  <1>1. f \in Files /\ Head(Top).do = "include"
    <2>1. Head(Top).do = "include" /\ Head(Top).what = f
      BY DEF Include
    <2> QED
      BY <2>1, NextItem, Items
  <1>2. Include(f) = Include(Main) => f = Main
    BY DEF Include
  <1>3. \A g \in Files : Include(f) \in ToSet(tree.text[g]) => f \in IncludesOf(g)
    BY <1>1 DEF IncludesOf
  <1>4. f \in Reachable
    BY <1>2, <1>3, NextReachable, ReachableClosed
  <1>5. ASSUME NEW files, Chain(files), Len(stack) > 1
        PROVE  f \in IncludesOf(files[Len(stack) - 1])
    <2>1. /\ files[Len(stack) - 1] \in Reachable
          /\ Include(f) \in ToSet(tree.text[files[Len(stack) - 1]])
      BY <1>5, NextItem
    <2> QED
      BY <1>3, <2>1, ReachableClosed
  <1>6. IF Len(stack) > 1 THEN Main \in seen ELSE Len(stack) = 1 /\ f = Main /\ seen = {}
    BY <1>2, NextItem
  <1> QED
    BY <1>4, <1>5, <1>6

LEMMA DepthStep ==
    ASSUME Reader, outcome = "reading", stack # <<>>, Top # <<>>, UNCHANGED <<tree, seen>>,
           NEW f, Head(Top) = Include(f), Len(stack) - 1 > MaxDepth, Raise("depth")
    PROVE  Reader'
  <1>1. Opened /\ Len(stack) \in Nat /\ MaxDepth \in Nat
    BY NextItem, DiscoveryAssumption DEF Reader
  <1>2. Len(stack) - 1 = MaxDepth + 1
    BY <1>1 DEF Opened
  <1>3. PICK files : Chain(files)
    BY <1>1 DEF Opened
  <1>4. files \in [1..MaxDepth + 1 -> Files]
    BY <1>1, <1>2, <1>3, ReachableClosed DEF Chain, Opened
  <1>5. \A i \in 1..MaxDepth : files[i + 1] \in IncludesOf(files[i])
    <2> SUFFICES ASSUME NEW i \in 1..MaxDepth
                 PROVE  files[i + 1] \in IncludesOf(files[i])
      OBVIOUS
    <2>1. i + 1 \in DOMAIN files /\ i + 1 > 1 /\ (i + 1) - 1 = i
      BY <1>1, <1>4
    <2> QED
      BY <1>3, <2>1 DEF Chain
  <1>6. IncludesOf(files[MaxDepth + 1]) # {}
    BY <1>1, <1>2, <1>3, Opening
  <1>7. TooDeep
    <2>1. \A i, j \in DOMAIN files : i # j => files[i] # files[j]
      BY <1>3 DEF Chain
    <2>2. files[1] = Main
      BY <1>1, <1>2, <1>3 DEF Chain
    <2> QED
      BY <1>4, <1>5, <1>6, <2>1, <2>2 DEF TooDeep
  <1>8. Justified'
    BY <1>7, SameMeaning DEF Justified, Raise
  <1> QED
    BY <1>1, <1>8, StopProperties DEF Opened

LEMMA TooManyStep ==
    ASSUME Reader, outcome = "reading", stack # <<>>, Top # <<>>, UNCHANGED <<tree, seen>>,
           NEW f, Head(Top) = Include(f), f \notin seen, Cardinality(seen) >= MaxFiles, Raise("files")
    PROVE  Reader'
  <1>1. seen \subseteq Reachable /\ Cardinality(seen) <= MaxFiles /\ f \in Reachable
    BY Opening DEF Reader, Opened
  <1>2. seen \in SUBSET Reachable /\ seen \cup {f} \in SUBSET Reachable
    BY <1>1
  <1>3. IsFiniteSet(seen)
    BY <1>2, FiniteFiles, FS_Subset
  <1>4. Cardinality(seen \cup {f}) = Cardinality(seen) + 1 /\ Cardinality(seen) \in Nat
    BY <1>3, FS_AddElement, FS_CardinalityType
  <1>5. Cardinality(seen \cup {f}) <= Cardinality(Reachable)
    BY <1>2, FiniteFiles, FS_Subset
  <1>6. Cardinality(Reachable) > MaxFiles
    BY <1>4, <1>5, FiniteFiles, DiscoveryAssumption
  <1>7. Justified'
    BY <1>6, SameMeaning DEF Justified, Raise
  <1> QED
    BY <1>1, <1>7, StopProperties

LEMMA OneMore ==
    ASSUME seen \subseteq Reachable, Cardinality(seen) <= MaxFiles, NEW f \in Reachable,
           f \notin seen, ~(Cardinality(seen) >= MaxFiles)
    PROVE  seen \cup {f} \subseteq Reachable /\ Cardinality(seen \cup {f}) <= MaxFiles
  <1>1. seen \in SUBSET Reachable
    OBVIOUS
  <1>2. IsFiniteSet(seen) /\ Cardinality(seen) \in Nat
    BY <1>1, FiniteFiles, FS_Subset, FS_CardinalityType
  <1>3. Cardinality(seen \cup {f}) = Cardinality(seen) + 1
    BY <1>2, FS_AddElement
  <1> QED
    BY <1>1, <1>2, <1>3, DiscoveryAssumption

LEMMA UnsafeStep ==
    ASSUME Reader, outcome = "reading", stack # <<>>, Top # <<>>, UNCHANGED tree,
           NEW f, Head(Top) = Include(f), f \notin seen, ~(Cardinality(seen) >= MaxFiles),
           seen' = seen \cup {f}, f \in tree.unsafe, Raise("unsafe")
    PROVE  Reader'
  <1>1. f \in Reachable
    BY Opening
  <1>2. seen' \subseteq Reachable /\ Cardinality(seen') <= MaxFiles
    BY <1>1, OneMore DEF Reader, Opened
  <1>3. Justified'
    BY <1>1, SameMeaning DEF Justified, Raise
  <1> QED
    BY <1>2, <1>3, StopProperties

\* A file is opened: it is the end of the chain, and its lines wait.
LEMMA OpenStep ==
    ASSUME Reader, outcome = "reading", stack # <<>>, Top # <<>>, UNCHANGED <<tree, aliases, outcome>>,
           NEW f, Head(Top) = Include(f), f \notin seen, ~(Cardinality(seen) >= MaxFiles),
           ~(Len(stack) - 1 > MaxDepth),
           seen' = seen \cup {f}, f \notin tree.unsafe, stack' = Append(Rest, tree.text[f])
    PROVE  Reader'
  <1>1. Readable /\ Frames /\ Opened /\ Found /\ Remembered
    BY DEF Reader
  <1>2. f \in Reachable /\ f \in Files
    BY Opening, ReachableClosed
  <1>3. PICK text : text = tree.text[f] /\ text \in Seq(Item)
    BY <1>1, <1>2 DEF Readable
  <1>4. PICK n \in Nat \ {0} : n = Len(stack)
    BY NextItem
  <1>5. stack \in Seq(Seq(Item)) /\ Rest \in Seq(Seq(Item)) /\ Len(Rest) = n
    BY <1>1, <1>4, RestProperties DEF Frames
  <1>6. /\ stack' \in Seq(Seq(Item)) /\ Len(stack') = n + 1 /\ DOMAIN stack' = 1..n + 1
        /\ \A i \in 1..n : stack'[i] = Rest[i]
        /\ stack'[n + 1] = text
    <2>1. stack' = Append(Rest, text)
      BY <1>3
    <2> QED
      BY <1>3, <1>5, <2>1
  <1>7. \A i \in 1..n : ToSet(stack'[i]) \subseteq ToSet(stack[i])
    BY <1>1, <1>4, <1>6, RestProperties DEF Frames
  <1>8. Readable' /\ Found'
    BY <1>1, SameMeaning DEF Readable, Found
  <1>9. Frames'
    <2>1. stack'[1] = <<>> /\ Main \in seen'
      <3>1. CASE stack = << <<Include(Main)>> >> /\ seen = {}
        <4>1. n = 1 /\ Rest = << <<>> >> /\ Include(f) = Include(Main)
          BY <1>4, <3>1 DEF Rest, Top
        <4>2. f = Main
          BY <4>1 DEF Include
        <4> QED
          BY <1>6, <4>1, <4>2
      <3>2. CASE stack[1] = <<>> /\ Main \in seen
        <4>1. n # 1
          BY <1>4, <3>2 DEF Top
        <4>2. Rest[1] = stack[1]
          BY <1>4, <1>5, <4>1, RestProperties
        <4> QED
          BY <1>4, <1>6, <3>2, <4>2
      <3> QED
        BY <1>1, <3>1, <3>2 DEF Frames
    <2>2. stack' # <<>>
      BY <1>6
    <2> QED
      BY <1>6, <2>1, <2>2 DEF Frames
  <1>10. Opened'
    <2>1. PICK files : Chain(files)
      BY <1>1 DEF Opened
    <2>2. files \in [1..n - 1 -> seen]
      BY <1>4, <2>1 DEF Chain
    <2>3. PICK more : more = [i \in 1..n |-> IF i = n THEN f ELSE files[i]]
      OBVIOUS
    <2>4. /\ more \in [1..n -> seen'] /\ more[n] = f
          /\ \A i \in 1..n - 1 : more[i] = files[i] /\ files[i] \in seen /\ files[i] \in Files
      BY <1>1, <2>2, <2>3, ReachableClosed DEF Opened
    <2>5. \A i, j \in DOMAIN more : i # j => more[i] # more[j]
      BY <2>1, <2>2, <2>4 DEF Chain
    <2>6. more[1] = Main
      BY <1>4, <2>1, <2>4, Opening DEF Chain
    <2>7. ASSUME NEW i \in 1..n, i > 1
          PROVE  more[i] \in IncludesOf(more[i - 1])'
      <3>1. i - 1 \in 1..n - 1 /\ more[i - 1] = files[i - 1] /\ files[i - 1] \in Files
        BY <2>4, <2>7
      <3>2. CASE i = n
        <4>1. Len(stack) > 1 /\ Len(stack) - 1 = i - 1
          BY <1>4, <2>7, <3>2
        <4>2. f \in IncludesOf(files[i - 1])
          BY <2>1, <4>1, Opening
        <4> QED
          BY <2>4, <3>1, <3>2, <4>2, SameMeaning
      <3>3. CASE i # n
        <4>1. i \in 1..n - 1
          BY <3>3
        <4>2. files[i] \in IncludesOf(files[i - 1])
          BY <2>1, <2>2, <2>7, <4>1 DEF Chain
        <4> QED
          BY <2>4, <3>1, <4>1, <4>2, SameMeaning
      <3> QED
        BY <3>2, <3>3
    <2>8. ASSUME NEW i \in 1..n
          PROVE  ToSet(stack'[i + 1]) \subseteq ToSet(tree.text[more[i]])
      <3>1. CASE i = n
        BY <1>3, <1>6, <2>4, <3>1
      <3>2. CASE i # n
        <4>1. i \in 1..n - 1 /\ i + 1 \in 1..n
          BY <3>2
        <4>2. ToSet(stack[i + 1]) \subseteq ToSet(tree.text[files[i]])
          BY <2>1, <2>2, <4>1 DEF Chain
        <4> QED
          BY <1>7, <2>4, <4>1, <4>2
      <3> QED
        BY <3>1, <3>2
    <2>9. Chain(more)'
      <3>1. Len(stack') - 1 = n /\ DOMAIN more = 1..n
        BY <1>6, <2>4
      <3>2. /\ more \in [1..Len(stack') - 1 -> seen']
            /\ \A i \in DOMAIN more : i > 1 => more[i] \in IncludesOf(more[i - 1])'
            /\ \A i \in DOMAIN more : ToSet(stack'[i + 1]) \subseteq ToSet(tree'.text[more[i]])
        BY <2>4, <2>7, <2>8, <3>1
      <3> QED
        BY <2>5, <2>6, <3>2 DEF Chain
    <2>10. seen' \subseteq Reachable' /\ Cardinality(seen') <= MaxFiles
      BY <1>1, <1>2, OneMore, SameMeaning DEF Opened
    <2>11. Len(stack') <= MaxDepth + 2
      BY <1>4, <1>6, DiscoveryAssumption
    <2> QED
      BY <2>9, <2>10, <2>11 DEF Opened
  <1>11. Remembered'
    <2> SUFFICES ASSUME NEW g \in seen'
                 PROVE  /\ g \notin tree.unsafe
                        /\ \A item \in ToSet(tree.text[g]) : Dealt(item)' \/ Waits(item, stack')
      BY DEF Remembered
    <2>1. CASE g = f
      BY <1>3, <1>6, <2>1 DEF Waits
    <2>2. CASE g \in seen
      <3>1. g \notin tree.unsafe /\ \A item \in ToSet(tree.text[g]) : Dealt(item) \/ Waits(item, stack)
        BY <1>1, <2>2 DEF Remembered
      <3>2. \A item : Dealt(item) => Dealt(item)'
        BY DEF Dealt
      <3>3. Dealt(Include(f))'
        BY DEF Dealt, Include
      <3>4. \A item : Waits(item, stack) => item = Include(f) \/ Waits(item, Rest)
        BY <1>5, RestProperties
      <3>5. \A item : Waits(item, Rest) => Waits(item, stack')
        <4>1. DOMAIN Rest = 1..n
          BY <1>5
        <4> QED
          BY <1>6, <4>1 DEF Waits
      <3> QED
        BY <3>1, <3>2, <3>3, <3>4, <3>5
    <2> QED
      BY <2>1, <2>2
  <1>12. Justified'
    BY DEF Justified
  <1> QED
    BY <1>8, <1>9, <1>10, <1>11, <1>12 DEF Reader

LEMMA ReadIncludeStep ==
    ASSUME Reader, ReadInclude
    PROVE  Reader'
  <1>1. /\ outcome = "reading" /\ stack # <<>> /\ Top # <<>> /\ Head(Top).do = "include"
        /\ UNCHANGED tree /\ Open(Head(Top).what)
    BY DEF ReadInclude, NextIs
  <1>2. PICK read, f : read = Head(Top) /\ f = Head(Top).what
    OBVIOUS
  <1>3. Head(Top) = Include(f) /\ Open(f)
    BY <1>1, <1>2, NextItem, Items
  <1>4. CASE f \in seen /\ stack' = Rest /\ UNCHANGED <<seen, aliases, outcome>>
    <2>1. Found'
      BY <1>1, <1>4, SameMeaning DEF Reader, Found
    <2>2. Dealt(read)' /\ \A item : Dealt(item) => Dealt(item)'
      BY <1>2, <1>3, <1>4 DEF Dealt, Include
    <2>3. read = Include(Main) => Main \in seen
      BY <1>2, <1>3, <1>4 DEF Include
    <2> QED
      BY <1>1, <1>2, <1>4, <2>1, <2>2, <2>3, GoOn
  <1>5. CASE Len(stack) - 1 > MaxDepth /\ Raise("depth") /\ UNCHANGED seen
    BY <1>1, <1>3, <1>5, DepthStep
  <1>6. CASE /\ f \notin seen /\ Cardinality(seen) >= MaxFiles
             /\ Raise("files") /\ UNCHANGED seen
    BY <1>1, <1>3, <1>6, TooManyStep
  <1>7. CASE /\ f \notin seen /\ ~(Cardinality(seen) >= MaxFiles) /\ seen' = seen \cup {f}
             /\ f \in tree.unsafe /\ Raise("unsafe")
    BY <1>1, <1>3, <1>7, UnsafeStep
  <1>8. CASE /\ ~(Len(stack) - 1 > MaxDepth) /\ f \notin seen /\ ~(Cardinality(seen) >= MaxFiles)
             /\ seen' = seen \cup {f} /\ f \notin tree.unsafe
             /\ stack' = Append(Rest, tree.text[f]) /\ UNCHANGED <<aliases, outcome>>
    BY <1>1, <1>3, <1>8, OpenStep
  <1> QED
    BY <1>3, <1>4, <1>5, <1>6, <1>7, <1>8 DEF Open

LEMMA ReturnStep ==
    ASSUME Reader, Return
    PROVE  Reader'
  <1>1. /\ outcome = "reading" /\ stack # <<>> /\ Top = <<>> /\ UNCHANGED <<tree, seen, aliases>>
        /\ stack' = Front(stack) /\ outcome' = IF Len(stack) = 1 THEN "ok" ELSE outcome
    BY DEF Return
  <1>2. Readable /\ Frames /\ Opened /\ Found /\ Remembered
    BY <1>1 DEF Reader
  <1>3. PICK n \in Nat \ {0} : n = Len(stack)
    BY <1>1, <1>2 DEF Frames
  <1>4. /\ stack \in Seq(Seq(Item)) /\ DOMAIN stack = 1..n /\ stack[n] = <<>>
        /\ stack' \in Seq(Seq(Item)) /\ Len(stack') = n - 1 /\ DOMAIN stack' = 1..n - 1
        /\ \A i \in 1..n - 1 : stack'[i] = stack[i]
    BY <1>1, <1>2, <1>3 DEF Frames, Front, Top
  <1>5. Main \in seen /\ stack[1] = <<>>
    <2>1. stack # << <<Include(Main)>> >>
      BY <1>1 DEF Top
    <2> QED
      BY <1>1, <1>2, <2>1 DEF Frames
  <1>6. Readable' /\ Found'
    BY <1>1, <1>2, SameMeaning DEF Readable, Found
  <1>7. \A item : Waits(item, stack) => Waits(item, stack')
    <2>1. ToSet(stack[n]) = {}
      BY <1>4 DEF ToSet
    <2>2. \A i \in 1..n : i = n \/ i \in 1..n - 1
      BY <1>3
    <2> QED
      BY <1>4, <2>1, <2>2 DEF Waits
  <1>8. Remembered'
    <2>1. \A item : Dealt(item) => Dealt(item)'
      BY <1>1 DEF Dealt
    <2>2. ASSUME NEW f \in seen
          PROVE  /\ f \notin tree.unsafe
                 /\ \A item \in ToSet(tree.text[f]) : Dealt(item)' \/ Waits(item, stack')
      BY <1>1, <1>2, <1>7, <2>1 DEF Remembered
    <2> QED
      BY <1>1, <2>2 DEF Remembered
  <1>9. CASE n = 1
    <2>1. outcome' = "ok" /\ stack' = <<>>
      BY <1>1, <1>3, <1>4, <1>9
    <2>2. Frames' /\ Justified'
      BY <1>1, <1>5, <2>1 DEF Frames, Justified
    <2>3. Opened'
      BY <1>1, <1>2, <2>1, SameMeaning DEF Opened
    <2> QED
      BY <1>6, <1>8, <2>2, <2>3 DEF Reader
  <1>10. CASE n # 1
    <2>1. outcome' = "reading" /\ stack' # <<>> /\ stack'[1] = <<>>
      BY <1>1, <1>3, <1>4, <1>5, <1>10
    <2>2. Frames' /\ Justified'
      BY <1>1, <1>4, <1>5, <2>1 DEF Frames, Justified
    <2>3. PICK files : Chain(files)
      BY <1>1, <1>2 DEF Opened
    <2>4. files \in [1..n - 1 -> seen]
      BY <1>3, <2>3 DEF Chain
    <2>5. PICK fewer : fewer = [i \in 1..n - 2 |-> files[i]]
      OBVIOUS
    <2>6. /\ fewer \in [1..n - 2 -> seen]
          /\ \A i \in 1..n - 2 : /\ fewer[i] = files[i] /\ i \in 1..n - 1
                                 /\ i > 1 => i - 1 \in 1..n - 2 /\ files[i - 1] \in Files
                                 /\ i + 1 \in 1..n - 1
      BY <1>2, <1>3, <2>4, <2>5, ReachableClosed DEF Opened
    <2>7. Chain(fewer)'
      <3>1. Len(stack') - 1 = n - 2 /\ DOMAIN fewer = 1..n - 2
        BY <1>3, <1>4, <2>6
      <3>2. \A i, j \in DOMAIN fewer : i # j => fewer[i] # fewer[j]
        BY <2>3, <2>4, <2>6, <3>1 DEF Chain
      <3>3. Len(stack') > 1 => fewer[1] = Main
        BY <1>3, <1>4, <2>3, <2>6 DEF Chain
      <3>4. \A i \in DOMAIN fewer : i > 1 => fewer[i] \in IncludesOf(fewer[i - 1])'
        BY <1>1, <2>3, <2>4, <2>6, <3>1, SameMeaning DEF Chain
      <3>5. \A i \in DOMAIN fewer : ToSet(stack'[i + 1]) \subseteq ToSet(tree'.text[fewer[i]])
        BY <1>1, <1>4, <2>3, <2>4, <2>6, <3>1 DEF Chain
      <3>6. fewer \in [1..Len(stack') - 1 -> seen']
        BY <1>1, <2>6, <3>1
      <3> QED
        BY <3>2, <3>3, <3>4, <3>5, <3>6 DEF Chain
    <2>8. Opened'
      BY <1>1, <1>2, <1>3, <1>4, <2>7, DiscoveryAssumption, SameMeaning DEF Opened
    <2> QED
      BY <1>6, <1>8, <2>2, <2>8 DEF Reader
  <1> QED
    BY <1>9, <1>10

\* Nothing else disturbs what the reader knows.
LEMMA ReaderStays ==
    ASSUME Reader, UNCHANGED discoveryVars
    PROVE  Reader'
  <1> USE DEF discoveryVars
  <1>1. Readable' = Readable /\ Frames' = Frames
    BY SameMeaning DEF Frames
  <1>2. Opened' = Opened
    <2>1. \A f \in Files : IncludesOf(f)' = IncludesOf(f)
      BY SameMeaning
    <2>2. ASSUME NEW files PROVE Chain(files)' = Chain(files)
      BY DEF Chain, IncludesOf
    <2> QED
      BY <2>2, SameMeaning DEF Opened
  <1>3. Found' = Found /\ Justified' = Justified
    BY SameMeaning DEF Found, Justified
  <1>4. Remembered' = Remembered
    BY DEF Remembered, Dealt
  <1> QED
    BY <1>1, <1>2, <1>3, <1>4 DEF Reader

LEMMA StepReader ==
    ASSUME IInv, [Next]_vars
    PROVE  IInv'
  <1> USE DEF IInv, Handed
  <1>1. CASE Read
    <2>1. outcome = "reading" /\ pc = "read" /\ pc' = "read"
      BY <1>1 DEF Read, DiscoveryNext, ReadInclude, ReadHost, ReadRefused, ReadComment, Return, NextIs
    <2>2. Reader'
      BY <1>1, ReadIncludeStep, ReadHostStep, ReadRefusedStep, ReadCommentStep, ReturnStep
         DEF Read, DiscoveryNext
    <2>3. outcome' \in Outcomes
      BY <1>1 DEF Read, DiscoveryNext, ReadInclude, ReadHost, ReadRefused, ReadComment, Return,
                  Open, AddAlias, Raise, Outcomes
    <2> QED
      BY <2>1, <2>2, <2>3
  <1>2. CASE HandOver
    BY <1>2 DEF HandOver, Reader, Outcomes
  <1>3. CASE RemoveLeftovers
    BY <1>3 DEF RemoveLeftovers, Reader
  <1>4. CASE UNCHANGED discoveryVars /\ (pc' \in {"choose", "chosen", "leftovers", "done"} =>
                                         pc \in {"choose", "chosen", "leftovers", "done"})
    BY <1>4, ReaderStays DEF discoveryVars
  <1>5. CASE NotRead
    BY <1>4, <1>5 DEF NotRead
  <1>6. CASE ChooseFound \/ \E a \in Aliases : ChooseNamed(a)
    BY <1>4, <1>6 DEF ChooseFound, ChooseNamed
  <1>7. CASE \E text \in EnvTexts : Configure(text)
    BY <1>4, <1>7 DEF Configure
  <1>8. CASE UNCHANGED vars
    BY <1>4, <1>8 DEF vars
  <1> QED
    BY <1>1, <1>2, <1>3, <1>5, <1>6, <1>7, <1>8 DEF Next, Done

LEMMA ReaderInvariance == Spec => []IInv
  <1> HIDE DEF vars
  <1> QED
    BY InitReader, StepReader, PTL DEF Spec

\* A reading that ended well has seen all there is.
LEMMA SeenAll ==
    ASSUME Reader, outcome = "ok"
    PROVE  FoundAll
  <1>1. Readable /\ Frames /\ Opened /\ Found /\ Remembered
    BY DEF Reader
  <1>2. \A item : ~Waits(item, stack)
    BY <1>1 DEF Frames, Waits
  <1>3. \A f \in seen : f \in Files /\ f \notin tree.unsafe
                        /\ \A item \in ToSet(tree.text[f]) : Dealt(item)
    BY <1>1, <1>2, ReachableClosed DEF Remembered, Opened
  <1>4. Closed(seen)
    <2>1. ASSUME NEW f \in seen, NEW g \in IncludesOf(f)
          PROVE  g \in seen
      BY <1>3 DEF IncludesOf, Dealt, Include
    <2> QED
      BY <2>1 DEF Closed
  <1>5. seen = Reachable
    BY <1>1, <1>4, ReachableClosed, ReachableLeast DEF Opened, Frames
  <1>6. Named \subseteq ToSet(aliases)
    <2>1. ASSUME NEW a \in Aliases, NEW f \in Reachable, Host(a) \in ToSet(tree.text[f])
          PROVE  a \in ToSet(aliases)
      BY <1>3, <1>5, <2>1 DEF Dealt, Host
    <2> QED
      BY <2>1 DEF Named
  <1>7. \A f \in Reachable : f \notin tree.unsafe /\ Refuse \notin ToSet(tree.text[f])
    BY <1>3, <1>5 DEF Dealt, Refuse
  <1> QED
    BY <1>1, <1>6, <1>7 DEF FoundAll, Found

-----------------------------------------------------------------------------
(* Elements in their order.                                                *)

LEMMA Ranks ==
    ASSUME NEW n \in Nat, NEW I \in SUBSET (1..n)
    PROVE  /\ Cardinality(I) \in Nat
           /\ \A i \in I : Rank(i, I) \in 1..Cardinality(I)
           /\ \A k \in 1..Cardinality(I) : \E i \in I : Rank(i, I) = k
           /\ \A i, h \in I : Rank(i, I) = Rank(h, I) => i = h
  <1> DEFINE upTo(i) == {j \in I : j <= i}
  <1>0. \A i : Rank(i, I) = Cardinality(upTo(i))
    BY DEF Rank
  <1> HIDE DEF upTo
  <1>1. IsFiniteSet(1..n)
    BY FS_Interval
  <1>2. IsFiniteSet(I) /\ Cardinality(I) \in Nat
    BY <1>1, FS_Subset, FS_CardinalityType
  <1>3. ASSUME NEW i \in I
        PROVE  /\ IsFiniteSet(upTo(i)) /\ Cardinality(upTo(i)) \in Nat
               /\ Cardinality(upTo(i)) <= Cardinality(I) /\ Cardinality(upTo(i)) # 0
    <2>1. upTo(i) \in SUBSET I /\ i \in upTo(i)
      BY DEF upTo
    <2>2. IsFiniteSet(upTo(i)) /\ Cardinality(upTo(i)) <= Cardinality(I)
      BY <1>2, <2>1, FS_Subset
    <2> QED
      BY <2>1, <2>2, FS_CardinalityType, FS_EmptySet
  <1>4. ASSUME NEW i \in I, NEW h \in I, i < h
        PROVE  Cardinality(upTo(i)) # Cardinality(upTo(h))
    <2>1. \A j \in I : j \in Nat
      OBVIOUS
    <2>2. \A j \in I : j <= i => j <= h
      BY <1>4, <2>1
    <2>3. h <= h /\ ~(h <= i)
      BY <1>4, <2>1
    <2>4. upTo(i) \in SUBSET upTo(h)
      BY <2>2 DEF upTo
    <2>5. h \in upTo(h) /\ h \notin upTo(i)
      BY <2>3 DEF upTo
    <2> QED
      BY <1>3, <2>4, <2>5, FS_Subset
  <1>5. \A i, h \in I : Cardinality(upTo(i)) = Cardinality(upTo(h)) => i = h
    <2>1. \A i, h \in I : i = h \/ i < h \/ h < i
      OBVIOUS
    <2> QED
      BY <1>4, <2>1
  <1>6. PICK rank : rank = [i \in I |-> Cardinality(upTo(i))]
    OBVIOUS
  <1>7. rank \in Injection(I, 1..Cardinality(I))
    <2>1. \A i \in I : Cardinality(upTo(i)) \in 1..Cardinality(I)
      BY <1>2, <1>3
    <2>2. rank \in [I -> 1..Cardinality(I)]
      BY <1>6, <2>1
    <2>3. IsInjective(rank)
      BY <1>5, <1>6 DEF IsInjective
    <2> QED
      BY <2>2, <2>3 DEF Injection
  <1>8. IsFiniteSet(1..Cardinality(I)) /\ Cardinality(1..Cardinality(I)) = Cardinality(I)
    BY <1>2, FS_Interval
  <1>9. rank \in Surjection(I, 1..Cardinality(I))
    BY <1>7, <1>8, FS_Injection
  <1>10. \A k \in 1..Cardinality(I) : \E i \in I : Cardinality(upTo(i)) = k
    BY <1>6, <1>9 DEF Surjection
  <1> QED
    BY <1>0, <1>2, <1>3, <1>5, <1>10

LEMMA PickProperties ==
    ASSUME NEW S, NEW s \in Seq(S), NEW I \in SUBSET (DOMAIN s)
    PROVE  Pick(s, I) \in Seq(S) /\ ToSet(Pick(s, I)) = {s[i] : i \in I}
  <1> DEFINE at(k) == CHOOSE i \in I : Rank(i, I) = k
             p == Pick(s, I)
  <1>1. I \in SUBSET (1..Len(s)) /\ Len(s) \in Nat
    OBVIOUS
  <1>2. Cardinality(I) \in Nat
    BY <1>1, Ranks
  <1>3. ASSUME NEW k \in 1..Cardinality(I)
        PROVE  at(k) \in I /\ Rank(at(k), I) = k
    <2>1. \E i \in I : Rank(i, I) = k
      BY <1>1, Ranks
    <2> QED
      BY <2>1
  <1>4. ASSUME NEW i \in I
        PROVE  \E k \in 1..Cardinality(I) : at(k) = i
    <2>1. PICK k \in 1..Cardinality(I) : k = Rank(i, I)
      BY <1>1, Ranks
    <2>2. at(k) \in I /\ Rank(at(k), I) = Rank(i, I)
      BY <1>3, <2>1
    <2>3. at(k) = i
      BY <1>1, <2>2, Ranks
    <2> QED
      BY <2>3
  <1>5. p = [k \in 1..Cardinality(I) |-> s[at(k)]]
    BY DEF Pick
  <1> HIDE DEF at, p
  <1>6. p \in Seq(S)
    <2>1. \A k \in 1..Cardinality(I) : s[at(k)] \in S
      BY <1>1, <1>3
    <2> QED
      BY <1>2, <1>5, <2>1
  <1>7. ToSet(p) = {s[i] : i \in I}
    BY <1>3, <1>4, <1>5 DEF ToSet
  <1> QED
    BY <1>6, <1>7 DEF p

-----------------------------------------------------------------------------
(* What is written is what is read.                                        *)

LEMMA ManagedKeys ==
    /\ Len(Managed) = 10 /\ DOMAIN Managed = 1..10
    /\ ToSet(Managed) = {"BIND", "PORT", "TOKEN", "CODE_BIN", "DEFAULT_HOST", "ALLOWED_HOSTS",
                         "DRY_RUN", "TUNNEL", "TUNNEL_ALIAS", "TUNNEL_SOCKET"}
    /\ \A i, j \in 1..10 : Managed[i] = Managed[j] => i = j
    /\ Plain \notin ToSet(Managed)
  <1>1. Len(Managed) = 10
    BY DEF Managed
  <1>6. DOMAIN Managed = 1..10
    BY DEF Managed
  <1>7. /\ Managed[1] = "BIND" /\ Managed[2] = "PORT" /\ Managed[3] = "TOKEN"
        /\ Managed[4] = "CODE_BIN" /\ Managed[5] = "DEFAULT_HOST"
    BY DEF Managed
  <1>8. /\ Managed[6] = "ALLOWED_HOSTS" /\ Managed[7] = "DRY_RUN" /\ Managed[8] = "TUNNEL"
        /\ Managed[9] = "TUNNEL_ALIAS" /\ Managed[10] = "TUNNEL_SOCKET"
    BY DEF Managed
  <1>2. \A i \in 1..10 : i \in {1, 2, 3, 4, 5, 6, 7, 8, 9, 10}
    OBVIOUS
  <1>3. \A i, j \in 1..10 : Managed[i] = Managed[j] => i = j
    BY <1>2, <1>7, <1>8
  <1>4. ToSet(Managed) = {"BIND", "PORT", "TOKEN", "CODE_BIN", "DEFAULT_HOST", "ALLOWED_HOSTS",
                          "DRY_RUN", "TUNNEL", "TUNNEL_ALIAS", "TUNNEL_SOCKET"}
    BY <1>2, <1>6, <1>7, <1>8 DEF ToSet
  <1> QED
    BY <1>1, <1>3, <1>4, <1>6 DEF Plain

\* Where the last line of a key stands is its value.
LEMMA LastLine ==
    ASSUME NEW S, NEW text \in Seq(S), NEW key, key # Plain, NEW i \in DOMAIN text, text[i].key = key,
           \A j \in i + 1..Len(text) : text[j].key # key
    PROVE  key \in DOMAIN ReadValues(text) /\ ReadValues(text)[key] = text[i].val
  <1> DEFINE LastAt(k, l) == text[l].key = k /\ \A j \in l + 1..Len(text) : text[j].key # k
  <1>1. DOMAIN text = 1..Len(text) /\ Len(text) \in Nat
    OBVIOUS
  <1>2. \A l \in DOMAIN text : LastAt(key, l) => l = i
    <2> SUFFICES ASSUME NEW l \in DOMAIN text, LastAt(key, l) PROVE l = i
      OBVIOUS
    <2>1. l \in 1..Len(text) /\ i \in 1..Len(text)
      BY <1>1
    <2>2. ~(l < i)
      <3>1. l < i => i \in l + 1..Len(text)
        BY <2>1
      <3> QED
        BY <3>1
    <2>3. ~(i < l)
      <3>1. i < l => l \in i + 1..Len(text)
        BY <2>1
      <3> QED
        BY <3>1
    <2> QED
      BY <2>1, <2>2, <2>3
  <1>3. LastAt(key, i)
    OBVIOUS
  <1> HIDE DEF LastAt
  <1>4. (CHOOSE l \in DOMAIN text : LastAt(key, l)) = i
    BY <1>2, <1>3
  <1>5. key \in {l.key : l \in ToSet(text)} \ {Plain}
    BY DEF ToSet
  <1>6. ReadValues(text) = [k \in {l.key : l \in ToSet(text)} \ {Plain} |->
                              text[CHOOSE l \in DOMAIN text : LastAt(k, l)].val]
    BY DEF ReadValues, LastAt
  <1>7. /\ key \in DOMAIN ReadValues(text)
        /\ ReadValues(text)[key] = text[CHOOSE l \in DOMAIN text : LastAt(key, l)].val
    BY <1>5, <1>6
  <1> QED
    BY <1>4, <1>7

\* All elements in their order, and those of the first of two sequences.
LEMMA PickFirst ==
    ASSUME NEW S, NEW s \in Seq(S), NEW t, NEW n \in Nat, DOMAIN s = 1..n,
           \A i \in 1..n : t[i] = s[i]
    PROVE  Pick(t, 1..n) = s
  <1>1. Cardinality(1..n) = n
    <2>1. Cardinality(1..n) = IF 1 > n THEN 0 ELSE n - 1 + 1
      BY FS_Interval
    <2> QED
      BY <2>1
  <1>2. ASSUME NEW k \in 1..n PROVE Rank(k, 1..n) = k
    <2>1. {j \in 1..n : j <= k} = 1..k
      OBVIOUS
    <2>2. Cardinality(1..k) = k
      BY FS_Interval
    <2> QED
      BY <2>1, <2>2 DEF Rank
  <1>3. ASSUME NEW k \in 1..n PROVE (CHOOSE i \in 1..n : Rank(i, 1..n) = k) = k
    <2>1. \A i \in 1..n : Rank(i, 1..n) = k => i = k
      BY <1>2
    <2> QED
      BY <1>2, <2>1
  <1>4. Pick(t, 1..n) = [k \in 1..n |-> t[CHOOSE i \in 1..n : Rank(i, 1..n) = k]]
    BY <1>1 DEF Pick
  <1>5. \A k \in 1..n : t[CHOOSE i \in 1..n : Rank(i, 1..n) = k] = s[k]
    BY <1>3
  <1>6. s = [k \in 1..n |-> s[k]]
    OBVIOUS
  <1> QED
    BY <1>4, <1>5, <1>6

\* What the new text consists of: n lines of the user's own and those of the installer.
LinesOf(text, values, new, n) ==
    /\ n \in Nat /\ DOMAIN Own(text) = 1..n
    /\ Len(new) = n + 10 /\ DOMAIN new = 1..n + 10 /\ \E T : new \in Seq(T)
    /\ \A i \in 1..n : new[i] = Own(text)[i] /\ new[i].key \notin ToSet(Managed)
    /\ \A i \in 1..10 : new[n + i].key = Managed[i] /\ new[n + i].val = values[Managed[i]]
    /\ Pick(new, 1..n) = Own(text)

\* The old lines that stay, then the new ones.
LEMMA Shape ==
    ASSUME NEW S, NEW text \in Seq(S), NEW values, DOMAIN values = ToSet(Managed)
    PROVE  LinesOf(text, values, UpdateEnvText(text, values), Len(Own(text)))
  <1> DEFINE kept == Own(text)
             line(i) == [key |-> Managed[i], val |-> values[Managed[i]]]
             written == [i \in 1..10 |-> line(i)]
             T == S \cup {line(i) : i \in 1..10}
             new == UpdateEnvText(text, values)
  <1>1. kept \in Seq(S) /\ \A l \in ToSet(kept) : l.key \notin ToSet(Managed)
    <2> DEFINE I == {i \in DOMAIN text : text[i].key \notin ToSet(Managed)}
    <2>1. I \in SUBSET (DOMAIN text)
      OBVIOUS
    <2>2. Pick(text, I) \in Seq(S) /\ ToSet(Pick(text, I)) = {text[i] : i \in I}
      BY <2>1, PickProperties
    <2> QED
      BY <2>2 DEF Own
  <1>2. new = kept \o written
    BY ManagedKeys DEF UpdateEnvText, Own
  <1>3. \A i \in 1..10 : written[i] = line(i) /\ line(i) \in T
    OBVIOUS
  <1>4. \A i \in 1..10 : line(i).key = Managed[i] /\ line(i).val = values[Managed[i]]
    OBVIOUS
  <1>5. written \in Seq(T) /\ Len(written) = 10
    <2>1. written \in [1..10 -> T]
      BY <1>3
    <2> QED
      BY <2>1
  <1>6. kept \in Seq(T)
    BY <1>1
  <1> HIDE DEF kept, line, written, T, new
  <1>7. PICK n \in Nat : n = Len(kept) /\ DOMAIN kept = 1..n
    BY <1>6
  <1>8. /\ new \in Seq(T) /\ Len(new) = n + 10 /\ DOMAIN new = 1..n + 10
        /\ \A i \in 1..10 : new[n + i] = written[i]
    <2>1. Len(written) = 10 /\ n \in Nat /\ Len(kept) = n
      BY <1>5, <1>7
    <2>2. new \in Seq(T) /\ Len(new) = n + 10
      <3>1. new \in Seq(T) /\ Len(new) = Len(kept) + Len(written)
        BY <1>2, <1>5, <1>6, ConcatProperties
      <3> QED
        BY <2>1, <3>1
    <2>3. DOMAIN new = 1..n + 10
      BY <2>2
    <2>4. ASSUME NEW i \in 1..10
          PROVE  new[n + i] = written[i]
      <3>1. n + i \in 1..Len(kept) + Len(written) /\ ~(n + i <= Len(kept)) /\ n + i - Len(kept) = i
        BY <2>1
      <3>2. \A k \in 1..Len(kept) + Len(written) :
               (kept \o written)[k] = IF k <= Len(kept) THEN kept[k] ELSE written[k - Len(kept)]
        BY <1>5, <1>6, ConcatProperties
      <3> QED
        BY <1>2, <3>1, <3>2
    <2> QED
      BY <2>2, <2>3, <2>4
  <1>9. \A i \in 1..10 : new[n + i].key = Managed[i] /\ new[n + i].val = values[Managed[i]]
    BY <1>3, <1>4, <1>8
  <1>10. \A i \in 1..n : new[i] = kept[i]
    <2>1. \A k \in 1..n + 10 : new[k] = IF k <= n THEN kept[k] ELSE written[k - n]
      <3>1. \A k \in 1..Len(kept) + Len(written) :
               (kept \o written)[k] = IF k <= Len(kept) THEN kept[k] ELSE written[k - Len(kept)]
        BY <1>5, <1>6, ConcatProperties
      <3> QED
        BY <1>2, <1>5, <1>7, <3>1
    <2> QED
      BY <2>1
  <1>11. \A i \in 1..n : new[i].key \notin ToSet(Managed)
    BY <1>1, <1>7, <1>10 DEF ToSet
  <1>12. Pick(new, 1..n) = kept
    BY <1>6, <1>7, <1>8, <1>10, PickFirst
  <1> QED
    BY <1>7, <1>8, <1>9, <1>10, <1>11, <1>12 DEF LinesOf, new, kept

\* A key the installer writes is read as it was written, whatever the file held.
LEMMA ReadBack ==
    ASSUME NEW S, NEW text \in Seq(S), NEW values, DOMAIN values = ToSet(Managed),
           NEW key \in ToSet(Managed)
    PROVE  LET new == ReadValues(UpdateEnvText(text, values)) IN
           key \in DOMAIN new /\ new[key] = values[key]
  <1> DEFINE new == UpdateEnvText(text, values)
  <1>0. PICK n : n = Len(Own(text))
    OBVIOUS
  <1>9. LinesOf(text, values, new, n)
    BY <1>0, Shape
  <1> HIDE DEF new
  <1>8. n \in Nat
    BY <1>9 DEF LinesOf
  <1>1. /\ Len(new) = n + 10 /\ DOMAIN new = 1..n + 10 /\ \E T : new \in Seq(T)
        /\ \A i \in 1..10 : new[n + i].key = Managed[i] /\ new[n + i].val = values[Managed[i]]
    BY <1>9 DEF LinesOf
  <1>2. PICK T : new \in Seq(T)
    BY <1>1
  <1>10. PICK i \in 1..10 : Managed[i] = key
    BY ManagedKeys DEF ToSet
  <1>11. PICK place : place = n + i
    OBVIOUS
  <1>12. place \in DOMAIN new /\ new[place].key = key /\ new[place].val = values[key]
    <2>1. n + i \in 1..n + 10
      BY <1>8
    <2> QED
      BY <1>1, <1>10, <1>11, <2>1
  <1>13. \A j \in place + 1..Len(new) : new[j].key # key
    <2> SUFFICES ASSUME NEW j \in place + 1..Len(new) PROVE new[j].key # key
      OBVIOUS
    <2>1. j - n \in i + 1..10 /\ n + (j - n) = j
      BY <1>1, <1>8, <1>11
    <2>2. PICK h \in 1..10 : h = j - n
      BY <2>1
    <2>3. h # i /\ n + h = j
      BY <2>1, <2>2
    <2>4. new[n + h].key = Managed[h]
      BY <1>1
    <2> QED
      BY <1>10, <2>3, <2>4, ManagedKeys
  <1>14. key # Plain
    BY ManagedKeys
  <1>15. new \in Seq(T) /\ place \in DOMAIN new /\ new[place].key = key
    BY <1>2, <1>12
  <1>16. key \in DOMAIN ReadValues(new) /\ ReadValues(new)[key] = new[place].val
    BY <1>13, <1>14, <1>15, LastLine
  <1> QED
    BY <1>12, <1>16 DEF new

-----------------------------------------------------------------------------
(* The choice of the remote.                                               *)

Chosen ==
    /\ pc \in {"read", "choose", "chosen", "leftovers", "done", "failed"}
    /\ how \in {"no", "named", "found", "asked"}
    /\ target \in Aliases \cup {None} /\ allowed \in Seq(Aliases)
    /\ pc \in {"chosen", "leftovers"} => target \in Aliases /\ target \in ToSet(allowed)

\* What the settings were written from, and what the remote was given of them.
Written ==
    /\ given \in {None} \cup [alias : Aliases, token : ValidTokens]
    /\ pc = "leftovers" =>
          /\ before \in EnvTexts
          /\ \E code : env = UpdateEnvText(before, NewValues(ReadValues(before), code))
          /\ given = [alias |-> target, token |-> TokenOf(ReadValues(before))[1]]

SInv == IInv /\ DiscoveryTypeOK /\ Chosen /\ Written /\ NeverGuesses

LEMMA Least ==
    ASSUME NEW n \in Nat, NEW I \in SUBSET (1..n), I # {}
    PROVE  \E i \in I : \A j \in I : i <= j
  <1> DEFINE upTo(i) == {j \in I : j <= i}
  <1>1. IsFiniteSet(I) /\ Cardinality(I) \in Nat /\ Cardinality(I) # 0
    <2>1. IsFiniteSet(1..n)
      BY FS_Interval
    <2>2. IsFiniteSet(I)
      BY <2>1, FS_Subset
    <2> QED
      BY <2>2, FS_CardinalityType, FS_EmptySet
  <1>2. PICK i \in I : Rank(i, I) = 1
    <2>1. 1 \in 1..Cardinality(I)
      BY <1>1
    <2> QED
      BY <2>1, Ranks
  <1>3. IsFiniteSet(upTo(i)) /\ Cardinality(upTo(i)) = 1
    <2>1. upTo(i) \in SUBSET I
      OBVIOUS
    <2>2. IsFiniteSet(upTo(i))
      BY <1>1, <2>1, FS_Subset
    <2> QED
      BY <1>2, <2>2 DEF Rank
  <1>4. i \in upTo(i)
    OBVIOUS
  <1> HIDE DEF upTo
  <1>5. \A j \in upTo(i) : j = i
    BY <1>3, <1>4, FS_Singleton
  <1>6. ASSUME NEW j \in I PROVE i <= j
    <2>1. j <= i => j = i
      BY <1>5 DEF upTo
    <2> QED
      BY <2>1
  <1> QED
    BY <1>6

LEMMA First ==
    ASSUME NEW S, NEW s \in Seq(S), NEW a \in ToSet(s)
    PROVE  FirstAt(a, s) \in 1..Len(s) /\ s[FirstAt(a, s)] = a
  <1> DEFINE I == {i \in DOMAIN s : s[i] = a}
  <1>1. DOMAIN s = 1..Len(s) /\ Len(s) \in Nat
    OBVIOUS
  <1>2. I \in SUBSET (1..Len(s)) /\ I # {}
    BY <1>1 DEF ToSet
  <1>3. PICK i \in I : \A j \in I : i <= j
    BY <1>1, <1>2, Least
  <1>4. \A j \in 1..i - 1 : s[j] # a
    <2> SUFFICES ASSUME NEW j \in 1..i - 1, s[j] = a PROVE FALSE
      OBVIOUS
    <2>1. i \in 1..Len(s)
      BY <1>2
    <2>2. j \in 1..Len(s) /\ ~(i <= j)
      BY <1>1, <2>1
    <2> QED
      BY <1>1, <1>3, <2>2
  <1>5. \E l \in DOMAIN s : s[l] = a /\ \A j \in 1..l - 1 : s[j] # a
    BY <1>3, <1>4
  <1> QED
    BY <1>1, <1>5 DEF FirstAt

LEMMA Equivalent ==
    ASSUME aliases \in Seq(Aliases), NEW a \in Aliases, NEW said
    PROVE  /\ EquivalentAliases(a, said) \in Seq(Aliases)
           /\ ToSet(EquivalentAliases(a, said)) =
                 {a} \cup {b \in ToSet(aliases) : b # a /\ SameMachine(a, b, said)}
  <1> DEFINE I == {i \in DOMAIN aliases : aliases[i] # a /\ SameMachine(a, aliases[i], said)}
             others == Pick(aliases, I)
  <1>1. others \in Seq(Aliases) /\ ToSet(others) = {aliases[i] : i \in I}
    <2>1. I \in SUBSET (DOMAIN aliases)
      OBVIOUS
    <2> QED
      BY <2>1, PickProperties
  <1>2. ToSet(others) = {b \in ToSet(aliases) : b # a /\ SameMachine(a, b, said)}
    BY <1>1 DEF ToSet
  <1>3. EquivalentAliases(a, said) = <<a>> \o others
    BY DEF EquivalentAliases
  <1> HIDE DEF I, others
  <1>4. /\ <<a>> \in Seq(Aliases) /\ Len(<<a>>) = 1 /\ <<a>>[1] = a
    OBVIOUS
  <1>5. PICK n \in Nat : n = Len(others) /\ DOMAIN others = 1..n
    BY <1>1
  <1>6. PICK all : all = <<a>> \o others
    OBVIOUS
  <1>7. all \in Seq(Aliases) /\ Len(all) = 1 + n
    BY <1>1, <1>4, <1>5, <1>6, ConcatProperties
  <1>8. \A k \in 1..1 + n : all[k] = IF k <= 1 THEN <<a>>[k] ELSE others[k - 1]
    BY <1>1, <1>4, <1>5, <1>6, ConcatProperties
  <1>9. all[1] = a /\ \A k \in 1..n : all[k + 1] = others[k]
    BY <1>4, <1>8
  <1>10. DOMAIN all = 1..1 + n
    BY <1>7
  <1>11. \A k \in 1..1 + n : k = 1 \/ \E l \in 1..n : k = l + 1
    <2>1. ASSUME NEW k \in 1..1 + n, k # 1 PROVE k - 1 \in 1..n /\ k = (k - 1) + 1
      BY <2>1
    <2> QED
      BY <2>1
  <1>12. 1 \in 1..1 + n /\ \A k \in 1..n : k + 1 \in 1..1 + n
    OBVIOUS
  <1>13. ToSet(all) = {a} \cup ToSet(others)
    <2>1. ToSet(all) = {all[k] : k \in 1..1 + n} /\ ToSet(others) = {others[k] : k \in 1..n}
      BY <1>5, <1>10 DEF ToSet
    <2>2. ASSUME NEW k \in 1..1 + n PROVE all[k] \in {a} \cup ToSet(others)
      BY <1>9, <1>11, <2>1
    <2>3. ASSUME NEW k \in 1..n PROVE others[k] \in ToSet(all)
      BY <1>9, <1>12, <2>1
    <2>4. a \in ToSet(all)
      BY <1>9, <1>12, <2>1
    <2> QED
      BY <2>1, <2>2, <2>3, <2>4
  <1> QED
    BY <1>2, <1>3, <1>6, <1>7, <1>13

\* Where only one alias is offered, the others that run Linux are the same machine.
LEMMA OnlyChoice ==
    ASSUME aliases \in Seq(Aliases), NEW said \in [ToSet(aliases) -> Answer],
           NEW a, OnePerMachine(said) = {a},
           NEW b \in ToSet(aliases), b # a, Linux(b, said)
    PROVE  said[b].machine # None /\ said[b].machine = said[a].machine
  <1> DEFINE same == {d \in ToSet(aliases) : Linux(d, said) /\ MachineOf(d, said) = MachineOf(b, said)}
             I == {FirstAt(d, aliases) : d \in same}
  <1>1. PICK n \in Nat : n = Len(aliases)
    OBVIOUS
  <1>2. I \in SUBSET (1..n) /\ I # {}
    <2>1. b \in same
      OBVIOUS
    <2>2. \A d \in ToSet(aliases) : FirstAt(d, aliases) \in 1..n
      BY <1>1, First
    <2> QED
      BY <2>1, <2>2
  <1>3. PICK i \in I : \A j \in I : i <= j
    BY <1>2, Least
  <1>4. PICK d \in same : i = FirstAt(d, aliases)
    OBVIOUS
  <1>5. d \in OnePerMachine(said)
    <2>1. d \in ToSet(aliases) /\ Linux(d, said) /\ MachineOf(d, said) = MachineOf(b, said)
      OBVIOUS
    <2>2. ASSUME NEW e \in ToSet(aliases), Linux(e, said), MachineOf(e, said) = MachineOf(d, said)
          PROVE  FirstAt(d, aliases) <= FirstAt(e, aliases)
      BY <1>3, <1>4, <2>1, <2>2
    <2> QED
      BY <2>1, <2>2 DEF OnePerMachine
  <1>6. a \in ToSet(aliases) /\ MachineOf(a, said) = MachineOf(b, said)
    BY <1>5
  <1>7. /\ said[a].machine \in Machines \cup {None} /\ said[b].machine \in Machines \cup {None}
        /\ a \in Aliases /\ b \in Aliases
    BY <1>6 DEF Answer, ToSet
  <1> QED
    BY <1>6, <1>7, HostSetupAssumption DEF MachineOf

LEMMA TakeStep ==
    ASSUME aliases \in Seq(Aliases), NEW a \in Aliases, NEW known,
           NEW said \in [known -> Answer], known = {a} \cup ToSet(aliases),
           NEW way \in {"named", "found", "asked"},
           way = "found" => OnePerMachine(said) = {a},
           UNCHANGED aliases, Take(a, said, way), Chosen
    PROVE  Chosen' /\ NeverGuesses' /\ pc' \in {"chosen", "failed"}
  <1>1. CASE said[a].probe = "linux"
    <2>1. /\ pc' = "chosen" /\ answers' = said /\ how' = way
          /\ target' = a /\ allowed' = EquivalentAliases(a, said)
      BY <1>1 DEF Take
    <2>2. /\ allowed' \in Seq(Aliases)
          /\ ToSet(allowed') = {a} \cup {b \in ToSet(aliases) : b # a /\ SameMachine(a, b, said)}
      BY <2>1, Equivalent
    <2>3. Chosen'
      BY <2>1, <2>2 DEF Chosen
    <2>4. ASSUME how' = "found", NEW b \in ToSet(aliases) \ {a}, said[b].probe \in {"linux", "old"}
          PROVE  said[b].machine # None /\ said[b].machine = said[a].machine
      <3>1. Linux(b, said) /\ said \in [ToSet(aliases) -> Answer] /\ OnePerMachine(said) = {a}
        <4>1. a \in ToSet(aliases)
          BY <2>1, <2>4 DEF OnePerMachine
        <4>2. known = ToSet(aliases)
          BY <4>1
        <4> QED
          BY <2>1, <2>4, <4>2 DEF Linux
      <3> QED
        BY <2>4, <3>1, OnlyChoice
    <2>5. ASSUME NEW b \in (DOMAIN said) \ {a}
          PROVE  b \in ToSet(allowed') <=> said[b].machine # None /\ said[b].machine = said[a].machine
      <3>1. b \in ToSet(aliases) /\ b # a
        BY <2>5
      <3>2. b \in ToSet(allowed') <=> SameMachine(a, b, said)
        BY <2>2, <3>1
      <3> QED
        BY <3>2 DEF SameMachine
    <2>6. NeverGuesses'
      <3>1. ASSUME NEW b \in ToSet(aliases') \ {target'}, how' = "found",
                   answers'[b].probe \in {"linux", "old"}
            PROVE  answers'[b].machine # None /\ answers'[b].machine = answers'[target'].machine
        BY <2>1, <2>4, <3>1
      <3>2. ASSUME NEW b \in (DOMAIN answers') \ {target'}
            PROVE  b \in ToSet(allowed') <=>
                      answers'[b].machine # None /\ answers'[b].machine = answers'[target'].machine
        BY <2>1, <2>5, <3>2
      <3> QED
        BY <3>1, <3>2 DEF NeverGuesses
    <2> QED
      BY <2>1, <2>3, <2>6
  <1>2. CASE said[a].probe # "linux"
    BY <1>2 DEF Take, Stop, choiceVars, Chosen, NeverGuesses
  <1> QED
    BY <1>1, <1>2

LEMMA Token ==
    ASSUME NEW existing
    PROVE  \E t \in ValidTokens : TokenOf(existing) = <<t>> /\ TokenOf(existing)[1] = t
  BY HostSetupAssumption DEF TokenOf

\* Written says the same where the texts and the choice stay.
LEMMA SameValues ==
    ASSUME UNCHANGED <<target, allowed>>, NEW existing, NEW code
    PROVE  NewValues(existing, code)' = NewValues(existing, code)
  BY DEF NewValues, AllowedHosts

LEMMA StepSettings ==
    ASSUME SInv, [Next]_vars
    PROVE  SInv'
  <1>1. IInv'
    BY StepReader DEF SInv
  <1>2. Chosen /\ Written /\ DiscoveryTypeOK /\ NeverGuesses
    BY DEF SInv
  <1>3. ASSUME outcome' # "used" PROVE DiscoveryTypeOK'
    <2>1. Frames' /\ Opened' /\ Found' /\ outcome' \in Outcomes
      BY <1>1, <1>3 DEF IInv, Handed, Reader
    <2>2. seen' \subseteq Files
      BY <2>1 DEF Opened, Reachable
    <2> QED
      BY <2>1, <2>2 DEF Frames, Found, DiscoveryTypeOK
  <1>4. CASE Read
    <2>1. outcome' # "used" /\ pc = "read" /\ UNCHANGED <<pc, choiceVars, textVars>>
      BY <1>4 DEF Read, DiscoveryNext, ReadInclude, ReadHost, ReadRefused, ReadComment, Return, NextIs,
                  Open, AddAlias, Raise
    <2> QED
      BY <1>1, <1>2, <1>3, <2>1 DEF SInv, Chosen, Written, NeverGuesses, choiceVars, textVars
  <1>5. CASE HandOver
    <2>1. /\ UNCHANGED <<stack, aliases, choiceVars, textVars>> /\ seen' = {}
          /\ pc' = "choose" /\ outcome' = "used"
      BY <1>5 DEF HandOver
    <2>2. DiscoveryTypeOK'
      BY <1>2, <2>1 DEF DiscoveryTypeOK, Outcomes
    <2> QED
      BY <1>1, <1>2, <2>1, <2>2 DEF SInv, Chosen, Written, NeverGuesses, choiceVars, textVars
  <1>6. CASE NotRead
    BY <1>1, <1>2, <1>6
       DEF NotRead, SInv, Chosen, Written, NeverGuesses, choiceVars, textVars, discoveryVars, DiscoveryTypeOK
  <1>7. ASSUME UNCHANGED <<discoveryVars, textVars>>, pc' \in {"chosen", "failed"}, Chosen', NeverGuesses'
        PROVE  SInv'
    <2>1. DiscoveryTypeOK'
      BY <1>2, <1>7 DEF discoveryVars, DiscoveryTypeOK
    <2>2. Written'
      BY <1>2, <1>7 DEF textVars, Written
    <2> QED
      BY <1>1, <1>7, <2>1, <2>2 DEF SInv
  <1>8. ASSUME Stop PROVE Chosen' /\ NeverGuesses' /\ pc' = "failed"
    BY <1>2, <1>8 DEF Stop, Chosen, NeverGuesses, choiceVars
  <1>9. aliases \in Seq(Aliases)
    BY <1>2 DEF DiscoveryTypeOK
  <1>10. ASSUME NEW a \in Aliases, ChooseNamed(a) PROVE SInv'
    <2>1. UNCHANGED <<discoveryVars, textVars>> /\ UNCHANGED aliases
      BY <1>10 DEF ChooseNamed, discoveryVars
    <2>2. PICK said \in [{a} \cup ToSet(aliases) -> Answer] : Take(a, said, "named") \/ Stop
      BY <1>10 DEF ChooseNamed
    <2>3. Take(a, said, "named") => Chosen' /\ NeverGuesses' /\ pc' \in {"chosen", "failed"}
      BY <1>2, <1>9, <2>1, TakeStep
    <2> QED
      BY <1>7, <1>8, <2>1, <2>2, <2>3
  <1>11. CASE ChooseFound
    <2>1. UNCHANGED <<discoveryVars, textVars>> /\ UNCHANGED aliases
      BY <1>11 DEF ChooseFound, discoveryVars
    <2>2. PICK said \in [ToSet(aliases) -> Answer] :
             \/ \E a \in OnePerMachine(said) :
                   Take(a, said, IF OnePerMachine(said) = {a} THEN "found" ELSE "asked")
             \/ Stop
      BY <1>11 DEF ChooseFound
    <2>3. ASSUME NEW a \in OnePerMachine(said),
                 Take(a, said, IF OnePerMachine(said) = {a} THEN "found" ELSE "asked")
          PROVE  Chosen' /\ NeverGuesses' /\ pc' \in {"chosen", "failed"}
      <3>1. a \in ToSet(aliases) /\ a \in Aliases
        BY <1>9 DEF OnePerMachine, ToSet
      <3>2. {a} \cup ToSet(aliases) = ToSet(aliases)
        BY <3>1
      <3>3. PICK way \in {"named", "found", "asked"} :
               way = IF OnePerMachine(said) = {a} THEN "found" ELSE "asked"
        OBVIOUS
      <3> QED
        BY <1>2, <1>9, <2>1, <2>3, <3>1, <3>2, <3>3, TakeStep
    <2> QED
      BY <1>7, <1>8, <2>1, <2>2, <2>3
  <1>12. ASSUME NEW text \in EnvTexts, Configure(text) PROVE SInv'
    <2>1. /\ pc = "chosen" /\ pc' \in {"leftovers", "failed"}
          /\ how' = "no" /\ UNCHANGED <<target, allowed, discoveryVars>>
      BY <1>12 DEF Configure
    <2>2. Chosen' /\ NeverGuesses' /\ DiscoveryTypeOK'
      BY <1>2, <2>1 DEF Chosen, NeverGuesses, DiscoveryTypeOK, discoveryVars
    <2>3. Written'
      <3>1. CASE pc' = "failed" /\ UNCHANGED textVars
        BY <1>2, <3>1 DEF Written, textVars
      <3>2. CASE pc' # "failed"
        <4>1. PICK code : env' = UpdateEnvText(text, NewValues(ReadValues(text), code))
          BY <1>12, <3>2 DEF Configure
        <4>2. before' = text /\ given' = [alias |-> target, token |-> TokenOf(ReadValues(text))[1]]
          BY <1>12, <3>2 DEF Configure
        <4>3. target' = target /\ NewValues(ReadValues(text), code)' = NewValues(ReadValues(text), code)
          BY <2>1, SameValues
        <4>4. target \in Aliases /\ TokenOf(ReadValues(text))[1] \in ValidTokens
          BY <1>2, <2>1, Token DEF Chosen
        <4>5. env' = UpdateEnvText(before', NewValues(ReadValues(before), code)')
          BY <4>1, <4>2, SameValues, <2>1
        <4> QED
          BY <4>2, <4>3, <4>4, <4>5 DEF Written
      <3> QED
        BY <1>12, <3>1, <3>2 DEF Configure
    <2> QED
      BY <1>1, <2>2, <2>3 DEF SInv
  <1>13. CASE RemoveLeftovers
    BY <1>1, <1>2, <1>13
       DEF RemoveLeftovers, SInv, Chosen, Written, NeverGuesses, choiceVars, textVars, DiscoveryTypeOK
  <1>14. CASE UNCHANGED vars
    <2>1. Written'
      <3>1. \A existing, code : NewValues(existing, code)' = NewValues(existing, code)
        BY <1>14, SameValues DEF vars, choiceVars
      <3> QED
        BY <1>2, <1>14, <3>1 DEF vars, Written, choiceVars, textVars
    <2> QED
      BY <1>1, <1>2, <1>14, <2>1
         DEF vars, SInv, Chosen, NeverGuesses, choiceVars, discoveryVars, DiscoveryTypeOK
  <1> QED
    BY <1>4, <1>5, <1>6, <1>10, <1>11, <1>12, <1>13, <1>14 DEF Next, Done

LEMMA SettingsInvariance == Spec => []SInv
  <1>1. Init => SInv
    <2> SUFFICES ASSUME Init PROVE SInv
      OBVIOUS
    <2>1. IInv
      BY InitReader
    <2>2. DiscoveryTypeOK
      <3>1. Frames /\ Opened /\ Found /\ outcome = "reading"
        BY <2>1 DEF IInv, Reader, Init, DiscoveryInit
      <3> QED
        BY <3>1 DEF Frames, Opened, Reachable, Found, DiscoveryTypeOK, Outcomes
    <2>3. Chosen /\ Written /\ NeverGuesses
      BY DEF Init, Chosen, Written, NeverGuesses
    <2> QED
      BY <2>1, <2>2, <2>3 DEF SInv
  <1> HIDE DEF vars
  <1> QED
    BY <1>1, StepSettings, PTL DEF Spec

-----------------------------------------------------------------------------
(* The settings that are written.                                          *)

\* What the bridge reads of the keys the installer writes: its own values.
LEMMA ReadOwn ==
    ASSUME SInv, pc = "leftovers"
    PROVE  \E code : \A key \in ToSet(Managed) :
              ValueOr(ReadValues(env), key, <<>>) = NewValues(ReadValues(before), code)[key]
  <1>1. PICK code : env = UpdateEnvText(before, NewValues(ReadValues(before), code))
    BY DEF SInv, Written
  <1>2. before \in Seq(ToSet(before))
    BY HostSetupAssumption DEF SInv, Written
  <1>3. DOMAIN NewValues(ReadValues(before), code) = ToSet(Managed)
    BY DEF NewValues
  <1>4. ASSUME NEW key \in ToSet(Managed)
        PROVE  /\ key \in DOMAIN ReadValues(env)
               /\ ReadValues(env)[key] = NewValues(ReadValues(before), code)[key]
    BY <1>1, <1>2, <1>3, ReadBack
  <1> QED
    BY <1>4 DEF ValueOr

\* What the installer writes, key by key.
LEMMA Values ==
    ASSUME NEW existing, NEW code
    PROVE  LET new == NewValues(existing, code) IN
           /\ new["BIND"] = <<Local>>
           /\ new["PORT"] = PortOf(existing) /\ new["TOKEN"] = TokenOf(existing)
           /\ new["DEFAULT_HOST"] = <<target>> /\ new["TUNNEL_ALIAS"] = <<target>>
           /\ new["ALLOWED_HOSTS"] = allowed
           /\ new["DRY_RUN"] = ValueOr(existing, "DRY_RUN", <<"0">>)
           /\ new["TUNNEL"] = ValueOr(existing, "TUNNEL", <<"1">>)
  BY ManagedKeys DEF NewValues, AllowedHosts

\* The environment of a bridge decides on nothing the remote was given.
LEMMA Overrides ==
    ASSUME NEW environment \in Environments, NEW values
    PROVE  \A key \in {"BIND", "TOKEN", "DEFAULT_HOST", "ALLOWED_HOSTS", "TUNNEL_ALIAS"} :
              Lookup(key, values, environment) = ValueOr(values, key, <<>>)
  BY HostSetupAssumption DEF Lookup, ValueOr

LEMMA WrittenConfig ==
    ASSUME SInv, pc = "leftovers", NEW environment \in Environments
    PROVE  LET config == ReadHostConfig(env, environment)
               existing == ReadValues(before)
               set(key, value) == IF ValueOr(environment, key, <<>>) # <<>>
                                  THEN environment[key] ELSE value
           IN /\ config.ok
              /\ config.port = set("PORT", PortOf(existing))
              /\ config.token = TokenOf(existing)
              /\ config.allowed = ToSet(allowed) /\ config.alias = <<target>>
              /\ config.dryRun = Flag(set("DRY_RUN", ValueOr(existing, "DRY_RUN", <<"0">>)), FALSE)
              /\ config.tunnel = Flag(set("TUNNEL", ValueOr(existing, "TUNNEL", <<"1">>)), TRUE)
  <1> DEFINE existing == ReadValues(before)
             values == ReadValues(env)
             set(key, value) == IF ValueOr(environment, key, <<>>) # <<>> THEN environment[key] ELSE value
             get(key) == Lookup(key, values, environment)
  <1>1. PICK code : \A key \in ToSet(Managed) :
                       ValueOr(values, key, <<>>) = NewValues(existing, code)[key]
    BY ReadOwn
  <1>2. /\ get("BIND") = <<Local>> /\ get("TOKEN") = TokenOf(existing)
        /\ get("DEFAULT_HOST") = <<target>> /\ get("ALLOWED_HOSTS") = allowed
        /\ get("TUNNEL_ALIAS") = <<target>>
    BY <1>1, Overrides, Values, ManagedKeys
  <1>3. /\ get("PORT") = set("PORT", PortOf(existing))
        /\ get("DRY_RUN") = set("DRY_RUN", ValueOr(existing, "DRY_RUN", <<"0">>))
        /\ get("TUNNEL") = set("TUNNEL", ValueOr(existing, "TUNNEL", <<"1">>))
    BY <1>1, Values, ManagedKeys DEF Lookup
  <1>4. get("PORT") \in {<<p>> : p \in Ports}
    <2>1. PortOf(existing) \in {<<p>> : p \in Ports}
      BY HostTextAssumption DEF PortOf
    <2>2. ValueOr(environment, "PORT", <<>>) # <<>> => environment["PORT"] \in {<<p>> : p \in Ports}
      BY HostSetupAssumption DEF ValueOr
    <2> QED
      BY <1>3, <2>1, <2>2
  <1>5. get("TOKEN") \in {<<t>> : t \in ValidTokens}
    BY <1>2, Token
  <1>6. target \in ToSet(allowed)
    BY DEF SInv, Chosen
  <1>7. ReadHostConfig(env, environment) =
           [ok |-> /\ get("BIND") \in {<<>>, <<Local>>}
                   /\ (IF get("PORT") = <<>> THEN <<DefaultPort>> ELSE get("PORT"))
                         \in {<<p>> : p \in Ports}
                   /\ get("TOKEN") = <<>> \/ get("TOKEN") \in {<<t>> : t \in ValidTokens},
            port |-> IF get("PORT") = <<>> THEN <<DefaultPort>> ELSE get("PORT"),
            token |-> get("TOKEN"),
            allowed |-> IF ToSet(get("ALLOWED_HOSTS")) = {} THEN ToSet(get("DEFAULT_HOST"))
                        ELSE ToSet(get("ALLOWED_HOSTS")),
            dryRun |-> Flag(get("DRY_RUN"), FALSE),
            tunnel |-> Flag(get("TUNNEL"), TRUE),
            alias |-> IF get("TUNNEL_ALIAS") = <<>> THEN get("DEFAULT_HOST") ELSE get("TUNNEL_ALIAS"),
            socket |-> get("TUNNEL_SOCKET")]
    BY DEF ReadHostConfig
  <1> HIDE DEF get, existing, values, set
  <1>8. get("PORT") # <<>>
    BY <1>4
  <1>9. <<target>> # <<>>
    OBVIOUS
  <1>10. /\ ReadHostConfig(env, environment).ok
         /\ ReadHostConfig(env, environment).port = get("PORT")
         /\ ReadHostConfig(env, environment).token = get("TOKEN")
         /\ ReadHostConfig(env, environment).allowed = ToSet(allowed)
         /\ ReadHostConfig(env, environment).alias = <<target>>
    BY <1>2, <1>4, <1>5, <1>6, <1>7, <1>8, <1>9
  <1>11. /\ ReadHostConfig(env, environment).dryRun = Flag(get("DRY_RUN"), FALSE)
         /\ ReadHostConfig(env, environment).tunnel = Flag(get("TUNNEL"), TRUE)
    BY <1>7
  <1> QED
    BY <1>2, <1>3, <1>10, <1>11 DEF existing, set

LEMMA Admission ==
    ASSUME SInv PROVE LetsIn
  <1> SUFFICES ASSUME pc = "leftovers", NEW environment \in Environments
               PROVE  LET config == ReadHostConfig(env, environment) IN
                      /\ config.ok /\ config.token = <<given.token>>
                      /\ given.alias \in config.allowed /\ config.allowed = ToSet(allowed)
                      /\ config.alias = <<given.alias>>
    BY DEF LetsIn
  <1>1. given = [alias |-> target, token |-> TokenOf(ReadValues(before))[1]] /\ target \in ToSet(allowed)
    BY DEF SInv, Written, Chosen
  <1>2. <<given.token>> = TokenOf(ReadValues(before)) /\ given.alias = target
    BY <1>1, Token
  <1> QED
    BY <1>1, <1>2, WrittenConfig

LEMMA Keeping ==
    ASSUME SInv PROVE KeepsSettings
  <1> SUFFICES ASSUME pc = "leftovers", NEW environment \in Environments,
                      ReadHostConfig(before, environment).ok
               PROVE  LET old == ReadHostConfig(before, environment)
                          new == ReadHostConfig(env, environment)
                          kept == "PORT" \in DOMAIN environment \/ old.port \in {<<p>> : p \in Digits}
                      IN /\ new.port = IF kept THEN old.port ELSE <<DefaultPort>>
                         /\ old.token # <<>> => new.token = old.token
                         /\ new.dryRun = old.dryRun /\ new.tunnel = old.tunnel
    BY DEF KeepsSettings
  <1> DEFINE existing == ReadValues(before)
             old == ReadHostConfig(before, environment)
             new == ReadHostConfig(env, environment)
             kept == "PORT" \in DOMAIN environment \/ old.port \in {<<p>> : p \in Digits}
             raw(key) == Lookup(key, existing, environment)
             set(key, value) == IF ValueOr(environment, key, <<>>) # <<>> THEN environment[key] ELSE value
  <1>1. /\ new.port = set("PORT", PortOf(existing)) /\ new.token = TokenOf(existing)
        /\ new.dryRun = Flag(set("DRY_RUN", ValueOr(existing, "DRY_RUN", <<"0">>)), FALSE)
        /\ new.tunnel = Flag(set("TUNNEL", ValueOr(existing, "TUNNEL", <<"1">>)), TRUE)
    BY WrittenConfig
  <1>2. /\ old.port = IF raw("PORT") = <<>> THEN <<DefaultPort>> ELSE raw("PORT")
        /\ old.token = raw("TOKEN")
        /\ old.dryRun = Flag(raw("DRY_RUN"), FALSE) /\ old.tunnel = Flag(raw("TUNNEL"), TRUE)
    BY DEF ReadHostConfig
  <1>3. /\ old.port \in {<<p>> : p \in Ports}
        /\ old.token = <<>> \/ old.token \in {<<t>> : t \in ValidTokens}
    BY DEF ReadHostConfig
  <1>4. \A key : raw(key) = set(key, ValueOr(existing, key, <<>>))
    BY DEF Lookup
  <1>5. raw("TOKEN") = ValueOr(existing, "TOKEN", <<>>)
    BY Overrides
  <1> HIDE DEF existing, old, new, raw
  <1>6. new.port = IF kept THEN old.port ELSE <<DefaultPort>>
    <2>1. CASE ValueOr(environment, "PORT", <<>>) # <<>>
      <3>1. environment["PORT"] # <<>> /\ "PORT" \in DOMAIN environment
        BY <2>1 DEF ValueOr
      <3> QED
        BY <1>1, <1>2, <1>4, <2>1, <3>1
    <2>2. CASE ValueOr(environment, "PORT", <<>>) = <<>>
      <3>1. <<>> \notin {<<p>> : p \in Ports}
        OBVIOUS
      <3>2. "PORT" \notin DOMAIN environment
        BY <2>2, <3>1, HostSetupAssumption DEF ValueOr
      <3>3. new.port = PortOf(existing)
        BY <1>1, <2>2
      <3>4. CASE ValueOr(existing, "PORT", <<>>) = <<>>
        <4>1. old.port = <<DefaultPort>> /\ PortOf(existing) = <<DefaultPort>>
          BY <1>2, <1>4, <2>2, <3>4 DEF PortOf
        <4> QED
          BY <3>3, <4>1
      <3>5. CASE ValueOr(existing, "PORT", <<>>) # <<>>
        <4>1. old.port = ValueOr(existing, "PORT", <<>>)
          BY <1>2, <1>4, <2>2, <3>5
        <4> QED
          BY <3>2, <3>3, <4>1 DEF PortOf
      <3> QED
        BY <3>4, <3>5
    <2> QED
      BY <2>1, <2>2
  <1>7. old.token # <<>> => new.token = old.token
    BY <1>1, <1>2, <1>3, <1>5 DEF TokenOf
  <1>8. Flag(set("DRY_RUN", ValueOr(existing, "DRY_RUN", <<"0">>)), FALSE) = Flag(raw("DRY_RUN"), FALSE)
    BY <1>4 DEF Flag, ValueOr
  <1>9. Flag(set("TUNNEL", ValueOr(existing, "TUNNEL", <<"1">>)), TRUE) = Flag(raw("TUNNEL"), TRUE)
    BY <1>4 DEF Flag, ValueOr
  <1>10. new.dryRun = old.dryRun /\ new.tunnel = old.tunnel
    BY <1>1, <1>2, <1>8, <1>9
  <1> QED
    BY <1>6, <1>7, <1>10 DEF old, new

LEMMA Lines ==
    ASSUME SInv PROVE KeepsLines
  <1> SUFFICES ASSUME pc = "leftovers" PROVE KeepsLines
    BY DEF KeepsLines
  <1> DEFINE existing == ReadValues(before)
             again == ReadValues(env)
  <1>1. PICK code : env = UpdateEnvText(before, NewValues(existing, code))
    BY DEF SInv, Written
  <1>2. before \in Seq(ToSet(before))
    BY HostSetupAssumption DEF SInv, Written
  <1> DEFINE values == NewValues(existing, code)
  <1>3. DOMAIN values = ToSet(Managed)
    BY DEF NewValues
  <1>4. PICK n : n = Len(Own(before))
    OBVIOUS
  <1>5. LinesOf(before, values, env, n)
    BY <1>1, <1>2, <1>3, <1>4, Shape
  <1>6. /\ n \in Nat /\ DOMAIN env = 1..n + 10
        /\ \A i \in 1..n : env[i].key \notin ToSet(Managed)
        /\ \A i \in 1..10 : env[n + i].key = Managed[i]
        /\ Pick(env, 1..n) = Own(before)
    BY <1>5 DEF LinesOf
  <1>7. \A i \in 1..n + 10 : i \in 1..n \/ \E h \in 1..10 : i = n + h
    <2> SUFFICES ASSUME NEW i \in 1..n + 10, i \notin 1..n PROVE \E h \in 1..10 : i = n + h
      OBVIOUS
    <2>1. i - n \in 1..10 /\ i = n + (i - n)
      BY <1>6
    <2> QED
      BY <2>1
  <1>8. \A h \in 1..10 : Managed[h] \in ToSet(Managed)
    BY ManagedKeys DEF ToSet
  <1>9. (1..n) \subseteq (1..n + 10) /\ \A h \in 1..10 : n + h \in 1..n + 10
    BY <1>6
  <1>10. {i \in DOMAIN env : env[i].key \notin ToSet(Managed)} = 1..n
    <2>1. ASSUME NEW i \in DOMAIN env, env[i].key \notin ToSet(Managed) PROVE i \in 1..n
      <3>1. i \in 1..n + 10
        BY <1>6
      <3>2. \A h \in 1..10 : i # n + h
        BY <1>6, <1>8, <2>1
      <3> QED
        BY <1>7, <3>1, <3>2
    <2>2. ASSUME NEW i \in 1..n PROVE i \in DOMAIN env /\ env[i].key \notin ToSet(Managed)
      BY <1>6, <1>9
    <2> QED
      BY <2>1, <2>2
  <1>11. Own(env) = Own(before)
    BY <1>6, <1>10 DEF Own
  <1>12. ASSUME NEW key \in ToSet(Managed)
         PROVE  Cardinality({i \in DOMAIN env : env[i].key = key}) = 1
    <2>1. PICK h \in 1..10 : Managed[h] = key
      BY ManagedKeys DEF ToSet
    <2>2. PICK place : place = n + h
      OBVIOUS
    <2>3. ASSUME NEW i \in DOMAIN env, env[i].key = key PROVE i = place
      <3>1. PICK k \in 1..10 : i = n + k
        BY <1>6, <1>7, <2>3
      <3>2. Managed[k] = key
        BY <1>6, <2>3, <3>1
      <3> QED
        BY <2>1, <2>2, <3>1, <3>2, ManagedKeys
    <2>4. place \in DOMAIN env /\ env[place].key = key
      BY <1>6, <1>9, <2>1, <2>2
    <2>5. {i \in DOMAIN env : env[i].key = key} = {place}
      BY <2>3, <2>4
    <2> QED
      BY <2>5, FS_Singleton
  <1>13. \A key \in ToSet(Managed) : key \in DOMAIN again /\ again[key] = values[key]
    BY <1>1, <1>2, <1>3, ReadBack
  <1>14. ASSUME NEW next \in FindCode(again) \ {<<"code">>}
         PROVE  UpdateEnvText(env, NewValues(again, next)) = env
    <2> DEFINE new == NewValues(again, next)
    <2>1. \A key \in ToSet(Managed) : \A default : ValueOr(again, key, default) = values[key]
      BY <1>13 DEF ValueOr
    <2>2. next = values["CODE_BIN"]
      BY <2>1, ManagedKeys DEF FindCode
    <2>3. PortOf(again) = values["PORT"] /\ TokenOf(again) = values["TOKEN"]
      <3>1. values["PORT"] \in {<<p>> : p \in Digits}
        BY Values, HostTextAssumption DEF PortOf
      <3>2. values["TOKEN"] \in {<<t>> : t \in ValidTokens}
        BY Values, Token
      <3> QED
        BY <2>1, <3>1, <3>2, ManagedKeys DEF PortOf, TokenOf
    <2>4. new = values
      <3>1. ASSUME NEW key \in ToSet(Managed)
            PROVE  new[key] = values[key]
        BY <2>1, <2>2, <2>3, ManagedKeys DEF NewValues, AllowedHosts
      <3> QED
        BY <3>1 DEF NewValues
    <2>5. UpdateEnvText(env, values)
             = Own(env) \o [i \in DOMAIN Managed |-> [key |-> Managed[i], val |-> values[Managed[i]]]]
      BY <1>3 DEF UpdateEnvText, Own
    <2>6. env = Own(before) \o [i \in DOMAIN Managed |-> [key |-> Managed[i], val |-> values[Managed[i]]]]
      BY <1>1, <1>3 DEF UpdateEnvText, Own
    <2> QED
      BY <1>11, <2>4, <2>5, <2>6
  <1> QED
    BY <1>11, <1>12, <1>14 DEF KeepsLines

-----------------------------------------------------------------------------
(* The block of version 1 and the lines around it.                         *)

\* One line more, and one marker more if it is one.
LEMMA OneLineMore ==
    ASSUME NEW text, NEW n \in Nat, NEW i \in 1..n, NEW x
    PROVE  /\ Cardinality(StartsBefore(i, text, x)) \in Nat
           /\ Cardinality(StartsBefore(i + 1, text, x)) =
                 Cardinality(StartsBefore(i, text, x)) + IF text[i] = x THEN 1 ELSE 0
  <1> DEFINE old == StartsBefore(i, text, x)
  <1>1. IsFiniteSet(old) /\ Cardinality(old) \in Nat /\ i \notin old
    <2>1. IsFiniteSet(1..i - 1) /\ old \in SUBSET (1..i - 1)
      BY FS_Interval DEF StartsBefore
    <2> QED
      BY <2>1, FS_Subset, FS_CardinalityType
  <1>2. StartsBefore(i + 1, text, x) = IF text[i] = x THEN old \cup {i} ELSE old
    <2>1. \A j : j \in 1..(i + 1) - 1 <=> j \in 1..i - 1 \/ j = i
      OBVIOUS
    <2> QED
      BY <2>1 DEF StartsBefore
  <1> HIDE DEF old
  <1>3. Cardinality(old \cup {i}) = Cardinality(old) + 1
    BY <1>1, FS_AddElement
  <1> QED
    BY <1>1, <1>2, <1>3 DEF old

\* What the loop of replace_block knows after each line.
LEMMA InsideProperties ==
    ASSUME NEW S, NEW text \in Seq(S), NEW start, NEW end
    PROVE  /\ ~Inside(text, start, end)[0]
           /\ \A i \in 1..Len(text) :
                 Inside(text, start, end)[i] <=>
                    (text[i] = start \/ (text[i] # end /\ Inside(text, start, end)[i - 1]))
  <1>1. PICK n \in Nat : n = Len(text)
    OBVIOUS
  <1> DEFINE Step(f) == [i \in 0..n |-> i # 0 /\ (text[i] = start \/ (text[i] # end /\ f[i - 1]))]
             inside == [i \in 0..n |->
                           \E j \in 1..i : text[j] = start /\ \A k \in j + 1..i : text[k] # end]
  <1>2. \A i \in 0..n : inside[i] = Step(inside)[i]
    <2> SUFFICES ASSUME NEW i \in 0..n PROVE inside[i] <=> Step(inside)[i]
      BY Zenon
    <2>1. CASE i = 0
      <3>1. ~inside[0]
        BY <2>1
      <3>2. ~Step(inside)[0]
        BY <2>1
      <3> QED
        BY <2>1, <3>1, <3>2
    <2>2. CASE i # 0
      <3>1. i - 1 \in 0..n /\ i \in 1..i /\ i + 1..i = {} /\ \A j \in 1..i : j = i \/ j \in 1..i - 1
        BY <2>2
      <3>2. CASE text[i] = start
        BY <2>2, <3>1, <3>2
      <3>3. CASE text[i] # start
        <4>1. inside[i] <=> \E j \in 1..i - 1 : text[j] = start /\ \A k \in j + 1..i : text[k] # end
          BY <3>1, <3>3
        <4>2. ASSUME NEW j \in 1..i - 1
              PROVE  (\A k \in j + 1..i : text[k] # end) <=>
                     text[i] # end /\ \A k \in j + 1..i - 1 : text[k] # end
          <5>1. \A k : k \in j + 1..i <=> k = i \/ k \in j + 1..i - 1
            BY <2>2
          <5> QED
            BY <5>1
        <4> QED
          BY <2>2, <3>1, <3>3, <4>1, <4>2
      <3> QED
        BY <3>2, <3>3
    <2> QED
      BY <2>1, <2>2
  <1>3. inside = Step(inside)
    BY <1>2
  <1>4. \E f : f = Step(f)
    BY <1>3
  <1>5. Inside(text, start, end) = CHOOSE f : f = Step(f)
    BY <1>1 DEF Inside
  <1>6. Inside(text, start, end) = Step(Inside(text, start, end))
    BY <1>4, <1>5
  <1>7. PICK f : f = Inside(text, start, end)
    OBVIOUS
  <1>8. f = [i \in 0..n |-> i # 0 /\ (text[i] = start \/ (text[i] # end /\ f[i - 1]))]
    BY <1>6, <1>7
  <1>9. ~f[0]
    BY <1>8
  <1>10. \A i \in 1..n : f[i] <=> (text[i] = start \/ (text[i] # end /\ f[i - 1]))
    BY <1>8
  <1> QED
    BY <1>1, <1>7, <1>9, <1>10

\* Where starts and ends take turns, a block is open when one more has started.
LEMMA KeptOutside ==
    ASSUME NEW S, NEW text \in Seq(S), NEW start, NEW end, start # end, Balanced(text, start, end)
    PROVE  KeepOutside(text, start, end) = Outside(text, start, end)
  <1>1. PICK n \in Nat : n = Len(text)
    OBVIOUS
  <1>2. DOMAIN text = 1..n
    BY <1>1
  <1>3. PICK inside : inside = Inside(text, start, end)
    OBVIOUS
  <1>4. /\ ~inside[0]
        /\ \A i \in 1..n : inside[i] <=> (text[i] = start \/ (text[i] # end /\ inside[i - 1]))
    <2>1. \A i \in 1..Len(text) :
             inside[i] <=> (text[i] = start \/ (text[i] # end /\ inside[i - 1]))
      BY <1>3, InsideProperties
    <2>2. ~inside[0]
      BY <1>3, InsideProperties
    <2> QED
      BY <1>1, <2>1, <2>2
  <1> DEFINE opened(i) == Cardinality(StartsBefore(i, text, start))
             closed(i) == Cardinality(StartsBefore(i, text, end))
  <1>5. opened(1) = 0 /\ closed(1) = 0
    <2>1. StartsBefore(1, text, start) = {} /\ StartsBefore(1, text, end) = {}
      BY DEF StartsBefore
    <2> QED
      BY <2>1, FS_EmptySet
  <1>6. \A i \in 1..n : /\ opened(i) \in Nat /\ opened(i + 1) = opened(i) + IF text[i] = start THEN 1 ELSE 0
                        /\ closed(i) \in Nat /\ closed(i + 1) = closed(i) + IF text[i] = end THEN 1 ELSE 0
    BY OneLineMore
  <1>7. \A i \in 1..n + 1 : opened(i) = closed(i) \/ opened(i) = closed(i) + 1
    BY <1>1 DEF Balanced
  <1> HIDE DEF opened, closed
  <1>8. \A i \in 1..n + 1 : ~inside[i - 1] <=> opened(i) = closed(i)
    <2> SUFFICES ASSUME \E i \in 1..n + 1 : ~(~inside[i - 1] <=> opened(i) = closed(i)) PROVE FALSE
      OBVIOUS
    <2> DEFINE I == {i \in 1..n + 1 : ~(~inside[i - 1] <=> opened(i) = closed(i))}
    <2>1. I \in SUBSET (1..n + 1) /\ I # {} /\ n + 1 \in Nat
      OBVIOUS
    <2>2. PICK i \in I : \A j \in I : i <= j
      BY <2>1, Least
    <2>3. i \in 1..n + 1 /\ ~(~inside[i - 1] <=> opened(i) = closed(i))
      BY <2>2
    <2>4. i # 1
      BY <1>4, <1>5, <2>3
    <2>5. PICK h \in 1..n : i = h + 1
      <3>1. i - 1 \in 1..n /\ i = (i - 1) + 1
        BY <2>3, <2>4
      <3> QED
        BY <3>1
    <2>6. h \in 1..n + 1 /\ ~(i <= h) /\ i - 1 = h
      BY <2>5
    <2>7. ~inside[h - 1] <=> opened(h) = closed(h)
      BY <2>2, <2>6
    <2>8. ~(~inside[h] <=> opened(h + 1) = closed(h + 1))
      BY <2>3, <2>5, <2>6
    <2>9. inside[h] <=> (text[h] = start \/ (text[h] # end /\ inside[h - 1]))
      BY <1>4
    <2>10. /\ opened(h) = closed(h) \/ opened(h) = closed(h) + 1
           /\ opened(h + 1) = closed(h + 1) \/ opened(h + 1) = closed(h + 1) + 1
      BY <1>7, <2>3, <2>5, <2>6
    <2>11. CASE text[h] = start
      <3>1. opened(h + 1) = opened(h) + 1 /\ closed(h + 1) = closed(h) /\ opened(h) \in Nat /\ closed(h) \in Nat
        BY <1>6, <2>11
      <3>2. opened(h + 1) # closed(h + 1)
        BY <2>10, <3>1
      <3> QED
        BY <2>8, <2>9, <2>11, <3>2
    <2>12. CASE text[h] = end
      <3>1. opened(h + 1) = opened(h) /\ closed(h + 1) = closed(h) + 1 /\ opened(h) \in Nat /\ closed(h) \in Nat
        BY <1>6, <2>12
      <3>2. opened(h + 1) = closed(h + 1)
        BY <2>10, <3>1
      <3> QED
        BY <2>8, <2>9, <2>12, <3>2
    <2>13. CASE text[h] # start /\ text[h] # end
      <3>1. opened(h + 1) = opened(h) /\ closed(h + 1) = closed(h)
        BY <1>6, <2>13
      <3> QED
        BY <2>7, <2>8, <2>9, <2>13, <3>1
    <2> QED
      BY <2>11, <2>12, <2>13
  <1>9. {i \in DOMAIN text : text[i] \notin {start, end} /\ ~inside[i - 1]} =
        {i \in DOMAIN text : text[i] \notin {start, end} /\ opened(i) = closed(i)}
    <2>1. \A i \in DOMAIN text : ~inside[i - 1] <=> opened(i) = closed(i)
      BY <1>2, <1>8
    <2> QED
      BY <2>1
  <1> QED
    BY <1>3, <1>9, Zenon DEF KeepOutside, Outside, opened, closed

LEMMA NoBlock ==
    ASSUME NEW S, NEW text \in Seq(S), NEW start, NEW end,
           start \notin ToSet(text), Balanced(text, start, end)
    PROVE  Outside(text, start, end) = text
  <1>1. PICK n \in Nat : n = Len(text)
    OBVIOUS
  <1>2. DOMAIN text = 1..n /\ \A i \in 1..n : text[i] # start
    BY <1>1 DEF ToSet
  <1> DEFINE opened(i) == Cardinality(StartsBefore(i, text, start))
             closed(i) == Cardinality(StartsBefore(i, text, end))
  <1>3. ASSUME NEW i \in 1..n + 1 PROVE opened(i) = 0
    <2>1. \A j \in 1..i - 1 : j \in 1..n
      OBVIOUS
    <2>2. StartsBefore(i, text, start) = {}
      BY <1>2, <2>1 DEF StartsBefore
    <2> QED
      BY <2>2, FS_EmptySet
  <1>4. \A i \in 1..n : closed(i) \in Nat /\ closed(i + 1) = closed(i) + IF text[i] = end THEN 1 ELSE 0
    BY OneLineMore
  <1>5. \A i \in 1..n + 1 : opened(i) = closed(i) \/ opened(i) = closed(i) + 1
    BY <1>1 DEF Balanced
  <1> HIDE DEF opened, closed
  <1>6. ASSUME NEW i \in 1..n PROVE closed(i) = 0 /\ text[i] # end
    <2>1. i \in 1..n + 1 /\ i + 1 \in 1..n + 1
      OBVIOUS
    <2>2. closed(i) = 0
      BY <1>3, <1>4, <1>5, <2>1
    <2>3. closed(i + 1) # 1
      BY <1>3, <1>5, <2>1
    <2> QED
      BY <1>4, <2>2, <2>3
  <1>7. {i \in DOMAIN text : text[i] \notin {start, end} /\ opened(i) = closed(i)} = 1..n
    <2>1. \A i \in 1..n : text[i] \notin {start, end} /\ opened(i) = closed(i) /\ i \in 1..n + 1
      BY <1>2, <1>3, <1>6
    <2> QED
      BY <1>2, <2>1
  <1>8. Pick(text, 1..n) = text
    BY <1>2, PickFirst
  <1> QED
    BY <1>7, <1>8, Zenon DEF Outside, opened, closed

\* The text that a block is removed from.
ConfigText ==
    pc \in {"choose", "chosen", "leftovers"} =>
        tree \in [text : [Files -> Seq(Item)], unsafe : SUBSET Files]

LEMMA StepText ==
    ASSUME IInv, ConfigText, [Next]_vars
    PROVE  ConfigText'
  <1>1. CASE HandOver
    <2>1. Readable
      BY <1>1 DEF HandOver, IInv, Reader
    <2>2. <<>> \in Seq(Item)
      OBVIOUS
    <2> QED
      BY <1>1, <2>1, <2>2 DEF HandOver, Readable, ConfigText
  <1>2. CASE Read
    BY <1>2 DEF Read, ConfigText
  <1>3. CASE NotRead \/ ChooseFound \/ \E a \in Aliases : ChooseNamed(a)
    BY <1>3 DEF NotRead, ChooseFound, ChooseNamed, ConfigText, discoveryVars
  <1>4. CASE \E text \in EnvTexts : Configure(text)
    BY <1>4 DEF Configure, ConfigText, discoveryVars
  <1>5. CASE RemoveLeftovers
    BY <1>5 DEF RemoveLeftovers, ConfigText
  <1>6. CASE UNCHANGED vars
    BY <1>6 DEF vars, discoveryVars, ConfigText
  <1> QED
    BY <1>1, <1>2, <1>3, <1>4, <1>5, <1>6 DEF Next, Done

\* The block goes and nothing else.
LEMMA OnlyTheBlock ==
    ASSUME ConfigText, [Next]_vars, pc = "leftovers", Balanced(tree.text[Main], Start, End)
    PROVE  tree'.text[Main] = Outside(tree.text[Main], Start, End) \/ UNCHANGED vars
  <1>1. PICK text : text = tree.text[Main]
    OBVIOUS
  <1>2. /\ tree \in [text : [Files -> Seq(Item)], unsafe : SUBSET Files]
        /\ text \in Seq(Item) /\ Main \in Files
    BY <1>1, DiscoveryAssumption DEF ConfigText
  <1>3. Start # End
    BY DEF Start, End
  <1>4. RemoveLeftovers \/ UNCHANGED vars
    BY DEF Next, Done, Read, HandOver, NotRead, ChooseFound, ChooseNamed, Configure
  <1>5. KeepOutside(text, Start, End) = Outside(text, Start, End)
    BY <1>1, <1>2, <1>3, KeptOutside
  <1>6. ASSUME RemoveLeftovers PROVE tree'.text[Main] = Outside(text, Start, End)
    <2>1. CASE Start \in ToSet(text)
      <3>1. tree'.text[Main] = ReplaceBlock(text, Start, End, <<>>, FALSE)
        BY <1>1, <1>2, <1>6, <2>1 DEF RemoveLeftovers
      <3>2. PICK kept : kept = KeepOutside(text, Start, End) /\ kept \in Seq(Item)
        BY <1>2, PickProperties DEF KeepOutside
      <3>3. ReplaceBlock(text, Start, End, <<>>, FALSE) = kept \o <<>>
        BY <3>2 DEF ReplaceBlock
      <3>4. kept \o <<>> = kept
        BY <3>2
      <3> QED
        BY <1>5, <3>1, <3>2, <3>3, <3>4
    <2>2. CASE Start \notin ToSet(text)
      <3>1. Outside(text, Start, End) = text
        BY <1>1, <1>2, <2>2, NoBlock
      <3> QED
        BY <1>1, <1>6, <2>2, <3>1 DEF RemoveLeftovers
    <2> QED
      BY <2>1, <2>2
  <1> QED
    BY <1>1, <1>4, <1>6

-----------------------------------------------------------------------------
(* The theorems.                                                           *)

\* For every configuration and all limits, a reading that ends well has found every
\* alias of every file the configuration includes, and each of these files was one that
\* is safe to read (sshconfig.py:69-96).
THEOREM EverythingIsFound == Spec => []FoundAll
  <1>1. IInv => FoundAll
    BY SeenAll DEF IInv, FoundAll
  <1> QED
    BY <1>1, ReaderInvariance, PTL

\* For every configuration and all limits, a reading that fails has a reason in the
\* configuration: a chain that is too deep, too many files or aliases, a file that is not
\* safe or a line to refuse (sshconfig.py:69-112).
THEOREM RefusalsAreJustified == Spec => []Justified
  <1>1. IInv => Justified
    BY DEF IInv, Reader, Justified
  <1> QED
    BY <1>1, ReaderInvariance, PTL

\* The reader stays within the limits of the code, what is let in are aliases of the SSH
\* configuration, and the remote gets a token that a bridge accepts (install.py:155-187).
THEOREM HostTypes == Spec => []TypeOK
  <1>1. SInv => TypeOK
    BY DEF SInv, Chosen, Written, TypeOK
  <1> QED
    BY <1>1, SettingsInvariance, PTL

\* For all machines, aliases and answers: nothing is installed on a machine that nobody
\* named or picked while there was another, and the aliases that are let in are the known
\* ones of the machine that was chosen (install.py:229-259).
THEOREM NoGuessing == Spec => []NeverGuesses
  <1>1. SInv => NeverGuesses
    BY DEF SInv
  <1> QED
    BY <1>1, SettingsInvariance, PTL

\* For every host.env, with any lines in any order, and every environment that starts a
\* bridge: the token and the switches it read before are those it reads after, and so is
\* the port, but for one of the file that is not digits alone, which becomes the default
\* (config.py:82-115, install.py:111-142).
THEOREM SettingsKept == Spec => []KeepsSettings
  <1> QED
    BY Keeping, SettingsInvariance, PTL

\* For every host.env and environment: a bridge starts from what the installer writes,
\* and lets in the remote that was installed, with the token it was given.
THEOREM RemoteIsLetIn == Spec => []LetsIn
  <1> QED
    BY Admission, SettingsInvariance, PTL

\* For every host.env: the user's own lines stay as they were, each key of the
\* installer's is there once, and installing again changes nothing (config.py:86-94).
THEOREM LinesKept == Spec => []KeepsLines
  <1> QED
    BY Lines, SettingsInvariance, PTL

\* For every SSH configuration whose markers are balanced, removing what version 1 left
\* takes the lines of its blocks and no others (files.py, install.py:282).
THEOREM ConfigKept == Spec => KeepsConfig
  <1>1. IInv /\ ConfigText /\ [Next]_vars => ConfigText'
    BY StepText
  <1>2. ConfigText /\ [Next]_vars =>
          [pc = "leftovers" /\ Balanced(tree.text[Main], Start, End) =>
              tree'.text[Main] = Outside(tree.text[Main], Start, End)]_vars
    BY OnlyTheBlock
  <1>3. Init => ConfigText
    BY DEF Init, ConfigText
  <1> HIDE DEF vars
  <1> QED
    BY <1>1, <1>2, <1>3, ReaderInvariance, PTL DEF Spec, KeepsConfig
=============================================================================
