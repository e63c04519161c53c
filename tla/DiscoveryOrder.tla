---------------------------- MODULE DiscoveryOrder ----------------------------
(***************************************************************************)
(* For every set of files, whatever they include: the aliases are found in *)
(* the order in which they stand in the configuration.                     *)
(*                                                                         *)
(* The open files and the line each is at are a position in the text that  *)
(* has the included files written out in place.  The invariant says that   *)
(* the reader has what stands before its position and nothing else: what   *)
(* it passes over, because the file was read before, it has already.       *)
(***************************************************************************)
EXTENDS HostSetupProofs

\* A way into the text: different files, each included at a line of the one before.
Path(files, at, n) ==
    /\ files \in [1..n -> Files] /\ at \in [1..n -> Nat \ {0}]
    /\ \A i, j \in 1..n : i # j => files[i] # files[j]
    /\ n > 0 => files[1] = Main
    /\ \A i \in 1..n - 1 : /\ at[i] \in DOMAIN tree.text[files[i]]
                           /\ tree.text[files[i]][at[i]] = Include(files[i + 1])

\* A way to an alias.
Leads(files, at, n, a) ==
    /\ n \in Nat \ {0} /\ Path(files, at, n)
    /\ at[n] \in DOMAIN tree.text[files[n]] /\ tree.text[files[n]][at[n]] = Host(a)

\* A frame is what is left of a text after its first n lines.
Left(frame, text, n) ==
    \E l \in Nat : /\ DOMAIN frame = 1..l /\ DOMAIN text = 1..n + l
                   /\ \A i \in 1..l : frame[i] = text[n + i]

\* The m open files and, in each, the line that is being read or is next.
Position(files, next, m) ==
    /\ m \in Nat /\ Len(stack) = m + 1 /\ Path(files, next, m)
    /\ \A i \in 1..m :
          /\ files[i] \in seen
          /\ Left(stack[i + 1], tree.text[files[i]], IF i = m THEN next[i] - 1 ELSE next[i])

\* A line has been dealt with if its file is closed or if it comes before.
LinesDealt(files, next, m) ==
    /\ \A f \in seen : (\A i \in 1..m : files[i] # f) =>
          \A h \in DOMAIN tree.text[f] : Dealt(tree.text[f][h])
    /\ \A i \in 1..m : \A h \in DOMAIN tree.text[files[i]] :
          h < next[i] => Dealt(tree.text[files[i]][h])

\* The end of the outermost frame is the end of the text.
Passed(at, next) == Before(at, next) \/ (Main \in seen /\ Len(stack) = 1)

AliasesPassed(next) ==
    /\ \A a \in Aliases : \A at \in Places(a) : Passed(at, next) => a \in ToSet(aliases)
    /\ \A a \in ToSet(aliases) : \E at \in Places(a) : Passed(at, next)

InText(files, next, m) ==
    Position(files, next, m) /\ LinesDealt(files, next, m) /\ AliasesPassed(next)

\* Some place of the alias stands before every place of the other.
Precedes(a, b) == \E p \in Places(a) : \A q \in Places(b) : Before(p, q)
InOrder == \A i, j \in DOMAIN aliases : i < j => Precedes(aliases[i], aliases[j])

OInv ==
    /\ outcome = "reading" =>
          \E files, next, m : InText(files, next, m)
    /\ outcome \in {"reading", "ok"} => InOrder

-----------------------------------------------------------------------------
(* Places and their order.                                                 *)

LEMMA Texts ==
    ASSUME Readable, NEW f \in Files
    PROVE  \E n \in Nat : DOMAIN tree.text[f] = 1..n
  <1>1. tree.text[f] \in Seq(Item)
    BY DEF Readable
  <1> QED
    BY <1>1

\* The places of an alias are where the ways to it end.
LEMMA PlacesAre ==
    ASSUME Readable, NEW a \in Aliases, NEW at
    PROVE  at \in Places(a) <=> \E n, files : Leads(files, at, n, a)
  <1>1. ASSUME at \in Places(a)
        PROVE  \E n, files : Leads(files, at, n, a)
    <2>1. PICK files \in Chains :
               /\ at \in [DOMAIN files -> UNION {DOMAIN tree.text[f] : f \in Files}]
               /\ \A i \in DOMAIN files :
                    /\ at[i] \in DOMAIN tree.text[files[i]]
                    /\ tree.text[files[i]][at[i]] =
                          IF i < Len(files) THEN Include(files[i + 1]) ELSE Host(a)
      BY <1>1 DEF Places
    <2>2. PICK n \in 1..Cardinality(Files) : files \in [1..n -> Files]
      BY <2>1 DEF Chains
    <2>3. n \in Nat \ {0} /\ DOMAIN files = 1..n /\ Len(files) = n
      BY <2>2, DiscoveryAssumption, FS_CardinalityType
    <2>4. files[1] = Main /\ \A i, j \in 1..n : i # j => files[i] # files[j]
      BY <2>1, <2>3 DEF Chains, IsInjective
    <2>5. ASSUME NEW i \in 1..n
          PROVE  at[i] \in Nat \ {0}
      <3>1. files[i] \in Files /\ at[i] \in DOMAIN tree.text[files[i]]
        BY <2>1, <2>2, <2>3
      <3>2. PICK l \in Nat : DOMAIN tree.text[files[i]] = 1..l
        BY <3>1, Texts
      <3> QED
        BY <3>1, <3>2
    <2>6. \A i \in 1..n - 1 : i \in 1..n /\ i < n
      BY <2>3
    <2>7. at \in [1..n -> Nat \ {0}]
      BY <2>1, <2>3, <2>5
    <2>8. Path(files, at, n)
      BY <2>1, <2>2, <2>3, <2>4, <2>6, <2>7 DEF Path
    <2> QED
      BY <2>1, <2>3, <2>8 DEF Leads
  <1>2. ASSUME NEW n, NEW files, Leads(files, at, n, a)
        PROVE  at \in Places(a)
    <2>0. n \in Nat \ {0}
      BY <1>2 DEF Leads
    <2>1. files \in [1..n -> Files] /\ DOMAIN files = 1..n /\ Len(files) = n
      BY <1>2, <2>0 DEF Leads, Path
    <2>2. \A i \in 1..n : /\ at[i] \in DOMAIN tree.text[files[i]]
                          /\ tree.text[files[i]][at[i]] =
                                IF i < n THEN Include(files[i + 1]) ELSE Host(a)
      <3>1. \A i \in 1..n : (i \in 1..n - 1 /\ i < n) \/ (i = n /\ ~(i < n))
        BY <2>0
      <3> QED
        BY <1>2, <2>0, <3>1 DEF Leads, Path
    <2>3. at \in [1..n -> UNION {DOMAIN tree.text[f] : f \in Files}]
      BY <1>2, <2>1, <2>2 DEF Leads, Path
    <2>4. n <= Cardinality(Files)
      <3>1. IsFiniteSet(1..n) /\ Cardinality(1..n) = n
        BY <2>0, FS_Interval
      <3>2. files \in Injection(1..n, Files)
        BY <1>2, <2>1 DEF Leads, Path, Injection, IsInjective
      <3> QED
        BY <3>1, <3>2, DiscoveryAssumption, FS_Injection DEF ExistsInjection
    <2>5. n \in 1..Cardinality(Files)
      BY <2>0, <2>4, DiscoveryAssumption, FS_CardinalityType
    <2>6. \A i \in 2..n : i - 1 \in 1..n - 1 /\ (i - 1) + 1 = i /\ i \in 1..n /\ i - 1 \in 1..n
      BY <2>0
    <2>7. \A i \in 2..n : files[i] \in IncludesOf(files[i - 1])
      <3>1. \A i \in 2..n : /\ at[i - 1] \in DOMAIN tree.text[files[i - 1]]
                             /\ tree.text[files[i - 1]][at[i - 1]] = Include(files[i])
        BY <1>2, <2>6 DEF Leads, Path
      <3>2. \A i \in 2..n : Include(files[i]) \in ToSet(tree.text[files[i - 1]])
        BY <3>1 DEF ToSet
      <3> QED
        BY <2>1, <2>6, <3>2 DEF IncludesOf
    <2>8. files \in Chains
      BY <1>2, <2>1, <2>5, <2>7 DEF Chains, Leads, Path, IsInjective
    <2> DEFINE ends(chain) ==
                 {way \in [DOMAIN chain -> UNION {DOMAIN tree.text[f] : f \in Files}] :
                    \A i \in DOMAIN chain :
                      /\ way[i] \in DOMAIN tree.text[chain[i]]
                      /\ tree.text[chain[i]][way[i]] =
                            IF i < Len(chain) THEN Include(chain[i + 1]) ELSE Host(a)}
    <2>9. at \in ends(files)
      BY <2>1, <2>2, <2>3
    <2>10. Places(a) = UNION {ends(chain) : chain \in Chains}
      BY Zenon DEF Places
    <2> HIDE DEF ends
    <2> QED
      BY <2>8, <2>9, <2>10
  <1> QED
    BY <1>1, <1>2

\* The lines of the includes say which files they lead to.
LEMMA SameWay ==
    ASSUME NEW files, NEW at, NEW n \in Nat, Path(files, at, n),
           NEW others, NEW next, NEW m \in Nat, Path(others, next, m),
           NEW k \in Nat \ {0}, k <= n, k <= m, \A i \in 1..k - 1 : at[i] = next[i]
    PROVE  \A i \in 1..k : files[i] = others[i]
  <1> SUFFICES ASSUME \E i \in 1..k : files[i] # others[i] PROVE FALSE
    OBVIOUS
  <1> DEFINE I == {i \in 1..k : files[i] # others[i]}
  <1>1. I \in SUBSET (1..k) /\ I # {}
    OBVIOUS
  <1>2. PICK i \in I : \A j \in I : i <= j
    BY <1>1, Least
  <1>3. i \in 1..k /\ files[i] # others[i]
    BY <1>2
  <1>4. i # 1
    BY <1>3 DEF Path
  <1>5. i - 1 \in 1..k - 1 /\ i - 1 \in 1..n - 1 /\ i - 1 \in 1..m - 1 /\ (i - 1) + 1 = i
        /\ i - 1 \in 1..k /\ ~(i <= i - 1)
    BY <1>3, <1>4
  <1>6. files[i - 1] = others[i - 1] /\ at[i - 1] = next[i - 1]
    BY <1>2, <1>5
  <1>7. Include(files[i]) = Include(others[i])
    BY <1>5, <1>6 DEF Path
  <1> QED
    BY <1>3, <1>7 DEF Include

\* What agrees with a way to an alias is at no include where the alias is.
LEMMA NoIncludeThere ==
    ASSUME NEW files, NEW at, NEW n, NEW a, Leads(files, at, n, a),
           NEW others, NEW next, NEW m \in Nat, Path(others, next, m),
           n <= m, \A i \in 1..n : at[i] = next[i]
    PROVE  n = m
  <1>1. n \in Nat \ {0} /\ Path(files, at, n) /\ n \in 1..n
        /\ \A i \in 1..n - 1 : i \in 1..n
    BY DEF Leads
  <1>2. files[n] = others[n] /\ at[n] = next[n]
    BY <1>1, SameWay
  <1>3. CASE n # m
    <2>1. n \in 1..m - 1
      BY <1>1, <1>3
    <2>2. Include(others[n + 1]) = Host(a)
      BY <1>2, <2>1 DEF Path, Leads
    <2> QED
      BY <2>2 DEF Include, Host
  <1> QED
    BY <1>3

\* A place before a position is before every place that is not.
LEMMA Between ==
    ASSUME NEW p, NEW at, NEW n, NEW a, Leads(p, at, n, a),
           NEW q, NEW bt, NEW l, NEW b, Leads(q, bt, l, b),
           NEW files, NEW next, NEW m \in Nat, Path(files, next, m),
           Before(at, next), ~Before(bt, next)
    PROVE  Before(at, bt)
  <1>1. /\ n \in Nat \ {0} /\ DOMAIN at = 1..n /\ \A i \in 1..n : at[i] \in Nat
        /\ l \in Nat \ {0} /\ DOMAIN bt = 1..l /\ \A i \in 1..l : bt[i] \in Nat
        /\ DOMAIN next = 1..m /\ \A i \in 1..m : next[i] \in Nat
    BY DEF Leads, Path
  <1>0. PICK k \in 1..n : /\ k \in 1..m /\ at[k] < next[k]
                          /\ \A i \in 1..k - 1 : at[i] = next[i]
    BY <1>1, Zenon DEF Before
  <1>2. /\ k \in Nat \ {0} /\ k <= n /\ k <= m /\ at[k] < next[k]
        /\ \A i \in 1..k - 1 : at[i] = next[i]
    BY <1>0
  <1> DEFINE I == {i \in 1..k : i \notin 1..l \/ bt[i] # next[i]}
  <1>3. CASE I = {}
    <2>1. k \in 1..k /\ \A i \in 1..k - 1 : i \in 1..k
      BY <1>2
    <2>2. k \in 1..l /\ bt[k] = next[k] /\ \A i \in 1..k - 1 : bt[i] = next[i]
      BY <1>3, <2>1
    <2>3. \A i \in 1..k - 1 : at[i] = bt[i]
      BY <1>2, <2>2
    <2>4. at[k] < bt[k]
      BY <1>2, <2>2
    <2> QED
      BY <1>0, <1>1, <2>2, <2>3, <2>4 DEF Before
  <1>4. CASE I # {}
    <2>1. I \in SUBSET (1..k) /\ k \in Nat
      BY <1>2
    <2>2. PICK j \in I : \A i \in I : j <= i
      BY <1>4, <2>1, Least
    <2>3. j \in 1..k /\ (j \notin 1..l \/ bt[j] # next[j])
      BY <2>2
    <2>4. ASSUME NEW i \in 1..j - 1
          PROVE  i \in 1..l /\ bt[i] = next[i] /\ i \in 1..k - 1
      <3>1. i \in 1..k /\ ~(j <= i) /\ i \in 1..k - 1
        BY <2>3, <2>4
      <3> QED
        BY <2>2, <3>1
    <2>5. j \in 1..l
      <3> SUFFICES ASSUME j \notin 1..l PROVE FALSE
        OBVIOUS
      <3>1. j > l
        BY <1>1, <2>3
      <3>2. j = l + 1
        <4>1. CASE j > l + 1
          <5>1. l + 1 \in 1..j - 1
            BY <1>1, <2>3, <4>1
          <5>2. l + 1 \in 1..l
            BY <2>4, <5>1
          <5> QED
            BY <1>1, <5>2
        <4> QED
          BY <1>1, <2>3, <3>1, <4>1
      <3>3. l < m /\ \A i \in 1..l : bt[i] = next[i]
        BY <1>1, <1>2, <2>3, <2>4, <3>2
      <3> QED
        BY <1>1, <3>3, NoIncludeThere
    <2>6. bt[j] # next[j] /\ j \in 1..m /\ j \in 1..n /\ j \in DOMAIN bt \cap DOMAIN next
      BY <1>1, <1>2, <2>3, <2>5
    <2>7. ~(bt[j] < next[j])
      BY <2>4, <2>6 DEF Before
    <2>8. at[j] < bt[j]
      <3>1. at[j] <= next[j]
        <4>1. j = k \/ j \in 1..k - 1
          BY <1>2, <2>3
        <4> QED
          BY <1>1, <1>2, <2>6, <4>1
      <3> QED
        BY <1>1, <2>5, <2>6, <2>7, <3>1
    <2>9. \A i \in 1..j - 1 : at[i] = bt[i]
      BY <1>2, <2>4
    <2> QED
      BY <1>1, <2>5, <2>6, <2>8, <2>9 DEF Before
  <1> QED
    BY <1>3, <1>4

-----------------------------------------------------------------------------
(* What is left of a text.                                                 *)

LEMMA LeftAll ==
    ASSUME NEW text \in Seq(Item)
    PROVE  Left(text, text, 0)
  <1>1. PICK l \in Nat : DOMAIN text = 1..l
    OBVIOUS
  <1> QED
    BY <1>1 DEF Left

LEMMA LeftNone ==
    ASSUME NEW text, NEW n \in Nat, Left(<<>>, text, n)
    PROVE  DOMAIN text = 1..n
  <1>1. PICK l \in Nat : DOMAIN <<>> = 1..l /\ DOMAIN text = 1..n + l
    BY DEF Left
  <1>2. l = 0
    <2>1. DOMAIN <<>> = {}
      OBVIOUS
    <2> QED
      BY <1>1, <2>1
  <1> QED
    BY <1>1, <1>2

LEMMA LeftTail ==
    ASSUME NEW text, NEW n \in Nat, NEW frame \in Seq(Item), frame # <<>>, Left(frame, text, n)
    PROVE  /\ n + 1 \in DOMAIN text /\ Head(frame) = text[n + 1]
           /\ Left(Tail(frame), text, n + 1)
  <1>1. PICK l \in Nat : /\ DOMAIN frame = 1..l /\ DOMAIN text = 1..n + l
                         /\ \A i \in 1..l : frame[i] = text[n + i]
    BY DEF Left
  <1>2. l # 0
    <2>1. 1 \in DOMAIN frame
      OBVIOUS
    <2> QED
      BY <1>1, <2>1
  <1>3. Head(frame) = frame[1]
    OBVIOUS
  <1>4. DOMAIN Tail(frame) = 1..l - 1 /\ \A i \in 1..l - 1 : Tail(frame)[i] = frame[i + 1]
    <2>1. /\ Len(frame) \in Nat \ {0} /\ Len(Tail(frame)) = Len(frame) - 1
          /\ DOMAIN frame = 1..Len(frame) /\ DOMAIN Tail(frame) = 1..Len(Tail(frame))
          /\ \A i \in 1..Len(Tail(frame)) : Tail(frame)[i] = frame[i + 1]
      OBVIOUS
    <2>2. Len(frame) = l
      BY <1>1, <2>1
    <2> QED
      BY <2>1, <2>2
  <1>5. \A i \in 1..l - 1 : i + 1 \in 1..l /\ n + (i + 1) = (n + 1) + i
    BY <1>1
  <1>6. \A i \in 1..l - 1 : Tail(frame)[i] = text[(n + 1) + i]
    BY <1>1, <1>4, <1>5
  <1>7. l - 1 \in Nat /\ n + l = (n + 1) + (l - 1) /\ 1 \in 1..l /\ n + 1 \in 1..n + l
    BY <1>1, <1>2
  <1> QED
    BY <1>1, <1>3, <1>4, <1>6, <1>7 DEF Left

-----------------------------------------------------------------------------
(* The reader's steps.                                                     *)

\* Where an alias is depends on the text alone.
LEMMA SamePlaces ==
    ASSUME UNCHANGED tree
    PROVE  /\ \A files, at, n : Path(files, at, n)' <=> Path(files, at, n)
           /\ \A a : Places(a)' = Places(a)
           /\ \A a, b : Precedes(a, b)' <=> Precedes(a, b)
  <1>1. ASSUME NEW files, NEW at, NEW n
        PROVE  Path(files, at, n)' <=> Path(files, at, n)
    BY DEF Path
  <1>2. ASSUME NEW a PROVE Places(a)' = Places(a)
    BY DEF Places, Chains, IncludesOf
  <1>3. ASSUME NEW a, NEW b PROVE Precedes(a, b)' <=> Precedes(a, b)
    BY <1>2 DEF Precedes
  <1> QED
    BY <1>1, <1>2, <1>3

\* The innermost frame is at its line of the text.
LEMMA Here ==
    ASSUME Frames, NEW files, NEW next, NEW m \in Nat \ {0}, Position(files, next, m), Top # <<>>
    PROVE  /\ next[m] \in DOMAIN tree.text[files[m]] /\ Head(Top) = tree.text[files[m]][next[m]]
           /\ Left(Tail(Top), tree.text[files[m]], next[m])
  <1>1. stack \in Seq(Seq(Item)) /\ Len(stack) = m + 1 /\ m \in 1..m
    BY DEF Frames, Position
  <1>2. Top \in Seq(Item) /\ Top = stack[m + 1]
    BY <1>1 DEF Top
  <1>3. next[m] - 1 \in Nat /\ (next[m] - 1) + 1 = next[m]
    <2>1. next[m] \in Nat \ {0}
      BY <1>1 DEF Position, Path
    <2> QED
      BY <2>1
  <1>4. Left(Top, tree.text[files[m]], next[m] - 1)
    BY <1>1, <1>2 DEF Position
  <1> QED
    BY <1>2, <1>3, <1>4, LeftTail

\* One line further in the innermost file.
LEMMA Advance ==
    ASSUME Reader, outcome = "reading", UNCHANGED <<tree, seen>>, stack' = Rest, stack # <<>>, Top # <<>>,
           NEW files, NEW next, NEW m \in Nat \ {0}, InText(files, next, m),
           NEW read, read = Head(Top), Dealt(read)', \A item : Dealt(item) => Dealt(item)',
           ToSet(aliases) \subseteq ToSet(aliases'),
           \A a \in Aliases : \A way, at, n :
               Leads(way, at, n, a) /\ m <= n /\ (\A i \in 1..m : at[i] = next[i])
                   => a \in ToSet(aliases'),
           \A a \in ToSet(aliases') : a \in ToSet(aliases) \/ (a \in Aliases /\ Leads(files, next, m, a))
    PROVE  \E more : InText(files, more, m)'
  <1>1. Readable /\ Frames /\ ToSet(aliases) \subseteq Aliases
    BY DEF Reader, Found, Named
  <1>2. /\ stack \in Seq(Seq(Item)) /\ Len(stack) = m + 1 /\ Path(files, next, m)
        /\ m \in 1..m
    BY <1>1 DEF Frames, InText, Position
  <1>3. /\ DOMAIN next = 1..m /\ \A i \in 1..m : next[i] \in Nat \ {0}
        /\ \A i \in 1..m : files[i] \in Files
    BY <1>2 DEF Path
  <1> DEFINE more == [next EXCEPT ![m] = @ + 1]
  <1>4. /\ more \in [1..m -> Nat \ {0}] /\ more[m] = next[m] + 1
        /\ \A i \in 1..m - 1 : more[i] = next[i] /\ i \in 1..m /\ i # m
    BY <1>2, <1>3 DEF Path
  <1> HIDE DEF more
  <1>5. Rest \in Seq(Seq(Item)) /\ Len(Rest) = m + 1 /\ \A i \in 1..m : Rest[i] = stack[i]
    BY <1>2, RestProperties
  <1>6. Rest[m + 1] = Tail(Top)
    BY <1>2, <1>5 DEF Rest, Top
  <1>7. Path(files, more, m)'
    BY <1>2, <1>4, SamePlaces DEF Path
  <1>8. Position(files, more, m)'
    <2>1. ASSUME NEW i \in 1..m
          PROVE  Left(Rest[i + 1], tree.text[files[i]], IF i = m THEN more[i] - 1 ELSE more[i])
      <3>1. CASE i = m
        <4>1. more[m] - 1 = next[m]
          BY <1>2, <1>3, <1>4
        <4>2. Left(Tail(Top), tree.text[files[m]], next[m])
          BY <1>1, Here DEF InText
        <4> QED
          BY <1>6, <3>1, <4>1, <4>2
      <3>2. CASE i # m
        <4>1. i \in 1..m - 1 /\ i + 1 \in 1..m
          BY <3>2
        <4>2. Rest[i + 1] = stack[i + 1] /\ more[i] = next[i]
          BY <1>4, <1>5, <4>1
        <4> QED
          BY <3>2, <4>2 DEF InText, Position
      <3> QED
        BY <3>1, <3>2
    <2>2. \A i \in 1..m : files[i] \in seen
      BY DEF InText, Position
    <2> QED
      BY <1>5, <1>7, <2>1, <2>2 DEF Position
  <1>9. LinesDealt(files, more, m)'
    <2>1. ASSUME NEW f \in seen, \A i \in 1..m : files[i] # f, NEW h \in DOMAIN tree.text[f]
          PROVE  Dealt(tree.text[f][h])'
      BY <2>1 DEF InText, LinesDealt
    <2>2. ASSUME NEW i \in 1..m, NEW h \in DOMAIN tree.text[files[i]], h < more[i]
          PROVE  Dealt(tree.text[files[i]][h])'
      <3>1. CASE h < next[i]
        BY <3>1 DEF InText, LinesDealt
      <3>2. CASE ~(h < next[i])
        <4>1. i = m
          BY <1>4, <2>2, <3>2
        <4>2. h \in Nat
          BY <1>1, <1>3, Texts
        <4>3. h = next[m]
          BY <1>3, <1>4, <2>2, <3>2, <4>1, <4>2
        <4> QED
          BY <1>1, <4>1, <4>3, Here DEF InText
      <3> QED
        BY <3>1, <3>2
    <2> QED
      BY <2>1, <2>2 DEF LinesDealt
  <1>10. ASSUME NEW at, NEW way, NEW n, NEW a, Leads(way, at, n, a), Before(at, next)
         PROVE  Before(at, more)
    <2>0. DOMAIN at = 1..n /\ \A i \in 1..n : at[i] \in Nat
      BY <1>10 DEF Leads, Path
    <2>1. PICK k \in 1..m : k \in 1..n /\ at[k] < next[k] /\ \A i \in 1..k - 1 : at[i] = next[i]
      BY <1>3, <1>10, <2>0 DEF Before
    <2>2. at[k] < more[k]
      BY <1>2, <1>3, <1>4, <2>0, <2>1
    <2>3. \A i \in 1..k - 1 : at[i] = more[i]
      BY <1>2, <1>3, <1>4, <2>1
    <2> QED
      BY <1>4, <2>0, <2>1, <2>2, <2>3 DEF Before
  <1>11. AliasesPassed(more)'
    <2>1. ~(Main \in seen /\ Len(stack) = 1) /\ ~(Main \in seen' /\ Len(stack') = 1)
      BY <1>2, <1>5
    <2>2. ASSUME NEW a \in Aliases, NEW at \in Places(a), Before(at, more)
          PROVE  a \in ToSet(aliases')
      <3>1. PICK n, way : Leads(way, at, n, a)
        BY <1>1, PlacesAre
      <3>2. n \in Nat \ {0} /\ DOMAIN at = 1..n /\ \A i \in 1..n : at[i] \in Nat
        BY <3>1 DEF Leads, Path
      <3>3. PICK k \in 1..m : k \in 1..n /\ at[k] < more[k] /\ \A i \in 1..k - 1 : at[i] = more[i]
        BY <1>4, <2>2, <3>2 DEF Before
      <3>4. \A i \in 1..k - 1 : at[i] = next[i]
        BY <1>2, <1>4, <3>3
      <3>5. CASE at[k] < next[k]
        <4>1. Before(at, next)
          BY <1>3, <3>2, <3>3, <3>4, <3>5 DEF Before
        <4> QED
          BY <4>1 DEF InText, AliasesPassed, Passed
      <3>6. CASE ~(at[k] < next[k])
        <4>1. k = m
          BY <1>4, <3>3, <3>6
        <4>2. at[m] = next[m]
          BY <1>3, <1>4, <3>2, <3>3, <3>6, <4>1
        <4>3. m <= n /\ \A i \in 1..m : at[i] = next[i]
          BY <3>2, <3>3, <3>4, <4>1, <4>2
        <4> QED
          BY <3>1, <4>3
      <3> QED
        BY <3>5, <3>6
    <2>3. ASSUME NEW a \in ToSet(aliases')
          PROVE  \E at \in Places(a) : Before(at, more)
      <3>1. CASE a \in ToSet(aliases)
        <4>1. PICK at \in Places(a) : Before(at, next)
          BY <2>1, <3>1 DEF InText, AliasesPassed, Passed
        <4>2. PICK n, way : Leads(way, at, n, a)
          BY <1>1, <3>1, PlacesAre
        <4> QED
          BY <1>10, <4>1, <4>2
      <3>2. CASE a \in Aliases /\ Leads(files, next, m, a)
        <4>1. next \in Places(a)
          BY <1>1, <3>2, PlacesAre
        <4>2. next[m] < more[m] /\ \A i \in 1..m - 1 : next[i] = more[i]
          BY <1>2, <1>3, <1>4
        <4>3. Before(next, more)
          BY <1>2, <1>3, <1>4, <4>2 DEF Before
        <4> QED
          BY <4>1, <4>3
      <3> QED
        BY <3>1, <3>2
    <2>4. \A a : Places(a)' = Places(a)
      BY SamePlaces
    <2> QED
      BY <2>1, <2>2, <2>3, <2>4 DEF AliasesPassed, Passed
  <1> QED
    BY <1>8, <1>9, <1>11 DEF InText

LEMMA NotOutermost ==
    ASSUME Reader, outcome = "reading", stack # <<>>, Top # <<>>, Head(Top) # Include(Main) \/ seen # {},
           NEW files, NEW next, NEW m, Position(files, next, m)
    PROVE  m \in Nat \ {0}
  <1>1. m \in Nat /\ Len(stack) = m + 1
    BY DEF Position
  <1>2. Len(stack) > 1
    BY NextItem
  <1> QED
    BY <1>1, <1>2

\* A way that has come as far as the reader is at the item that it reads.
LEMMA SameItem ==
    ASSUME Reader, outcome = "reading", Top # <<>>,
           NEW files, NEW next, NEW m \in Nat \ {0}, Position(files, next, m),
           NEW way, NEW at, NEW n, NEW a, Leads(way, at, n, a), m <= n, \A i \in 1..m : at[i] = next[i]
    PROVE  /\ \A i \in 1..m : way[i] = files[i]
           /\ IF m = n THEN Head(Top) = Host(a) ELSE Head(Top) = Include(way[m + 1])
  <1>1. n \in Nat \ {0} /\ Path(way, at, n) /\ Path(files, next, m)
    BY DEF Leads, Position
  <1>2. \A i \in 1..m - 1 : at[i] = next[i]
    OBVIOUS
  <1>3. \A i \in 1..m : way[i] = files[i]
    BY <1>1, <1>2, SameWay
  <1>4. Head(Top) = tree.text[files[m]][next[m]]
    BY Here DEF Reader
  <1>5. m \in 1..m /\ way[m] = files[m] /\ at[m] = next[m]
    BY <1>3
  <1>6. CASE m = n
    BY <1>3, <1>4, <1>5, <1>6 DEF Leads
  <1>7. CASE m # n
    <2>1. m \in 1..n - 1
      BY <1>1, <1>7
    <2>2. tree.text[way[m]][at[m]] = Include(way[m + 1])
      BY <1>1, <2>1 DEF Path
    <2> QED
      BY <1>3, <1>4, <1>5, <1>7, <2>2
  <1> QED
    BY <1>6, <1>7

LEMMA CommentInOrder ==
    ASSUME Reader, OInv, ReadComment
    PROVE  OInv'
  <1>1. /\ outcome = "reading" /\ stack # <<>> /\ Top # <<>> /\ Head(Top).do \in {"start", "end"}
        /\ UNCHANGED <<tree, seen, aliases, outcome>> /\ stack' = Rest
    BY DEF ReadComment, NextIs
  <1>2. PICK files, next, m : InText(files, next, m)
    BY <1>1 DEF OInv
  <1>3. PICK read : read = Head(Top)
    OBVIOUS
  <1>4. (\A a : read # Host(a)) /\ (\A f : read # Include(f)) /\ Dealt(read)'
    BY <1>1, <1>3 DEF Host, Include, Dealt
  <1>5. m \in Nat \ {0}
    BY <1>1, <1>2, <1>3, <1>4, NotOutermost DEF InText
  <1>6. \A item : Dealt(item) => Dealt(item)'
    BY <1>1 DEF Dealt
  <1>7. \A a \in Aliases : \A way, at, n :
            ~(Leads(way, at, n, a) /\ m <= n /\ \A i \in 1..m : at[i] = next[i])
    BY <1>1, <1>2, <1>3, <1>4, <1>5, SameItem DEF InText
  <1>8. \E more : InText(files, more, m)'
    BY <1>1, <1>2, <1>3, <1>4, <1>5, <1>6, <1>7, Advance
  <1>9. InOrder'
    BY <1>1, SamePlaces DEF OInv, InOrder
  <1> QED
    BY <1>8, <1>9 DEF OInv

\* An alias is found when the reader is at a place of it: the first, if it is new.
LEMMA HostInOrder ==
    ASSUME Reader, OInv, ReadHost, outcome' = "reading"
    PROVE  OInv'
  <1>1. /\ outcome = "reading" /\ stack # <<>> /\ Top # <<>> /\ Head(Top).do = "host"
        /\ UNCHANGED <<tree, seen>> /\ AddAlias(Head(Top).what)
    BY DEF ReadHost, NextIs
  <1>2. PICK read, a : read = Head(Top) /\ a = Head(Top).what
    OBVIOUS
  <1>3. read = Host(a) /\ a \in Aliases /\ \A f : read # Include(f)
    <2>1. read = Host(a) /\ a \in Aliases
      BY <1>1, <1>2, NextItem, Items
    <2> QED
      BY <2>1 DEF Host, Include
  <1>4. PICK files, next, m : InText(files, next, m)
    BY <1>1 DEF OInv
  <1>5. m \in Nat \ {0} /\ Path(files, next, m)
    BY <1>1, <1>2, <1>3, <1>4, NotOutermost DEF InText, Position
  <1>6. Readable /\ Frames /\ aliases \in Seq(Aliases)
    BY <1>1 DEF Reader, Found
  <1>7. Leads(files, next, m, a)
    BY <1>1, <1>2, <1>3, <1>4, <1>5, <1>6, Here DEF Leads, InText
  <1>8. /\ stack' = Rest
        /\ \/ a \in ToSet(aliases) /\ aliases' = aliases
           \/ a \notin ToSet(aliases) /\ aliases' = Append(aliases, a)
    BY <1>1, <1>2 DEF AddAlias, Raise
  <1>9. /\ ToSet(aliases') = ToSet(aliases) \cup {a}
        /\ \A item : Dealt(item) => Dealt(item)'
        /\ Dealt(read)'
    <2>1. ToSet(aliases') = ToSet(aliases) \cup {a}
      BY <1>3, <1>6, <1>8, AppendNew
    <2>2. read.do = "host" /\ read.what = a
      BY <1>3 DEF Host
    <2> QED
      BY <1>1, <2>1, <2>2 DEF Dealt
  <1>10. ASSUME NEW b \in Aliases, NEW way, NEW at, NEW n,
                Leads(way, at, n, b), m <= n, \A i \in 1..m : at[i] = next[i]
         PROVE  b \in ToSet(aliases')
    <2>1. Host(a) = Host(b)
      BY <1>1, <1>2, <1>3, <1>4, <1>5, <1>10, SameItem DEF InText
    <2> QED
      BY <1>9, <2>1 DEF Host
  <1>11. \E more : InText(files, more, m)'
    BY <1>1, <1>2, <1>3, <1>4, <1>5, <1>7, <1>8, <1>9, <1>10, Advance
  <1>12. ASSUME a \notin ToSet(aliases), NEW b \in ToSet(aliases)
         PROVE  Precedes(b, a)
    <2>1. b \in Aliases /\ Len(stack) # 1
      BY <1>4, <1>5, <1>6, <1>12 DEF ToSet, InText, Position
    <2>2. PICK at \in Places(b) : Before(at, next)
      BY <1>4, <1>12, <2>1 DEF InText, AliasesPassed, Passed
    <2>3. PICK n, p : Leads(p, at, n, b)
      BY <1>6, <2>1, PlacesAre
    <2>4. ASSUME NEW bt \in Places(a)
          PROVE  Before(at, bt)
      <3>1. PICK l, q : Leads(q, bt, l, a)
        BY <1>3, <1>6, PlacesAre
      <3>2. ~Before(bt, next)
        BY <1>3, <1>4, <1>12 DEF InText, AliasesPassed, Passed
      <3> QED
        BY <1>5, <2>2, <2>3, <3>1, <3>2, Between
    <2> QED
      BY <2>4 DEF Precedes
  <1>13. InOrder /\ \A b, c : Precedes(b, c)' <=> Precedes(b, c)
    BY <1>1, SamePlaces DEF OInv
  <1>14. InOrder'
    <2>1. CASE aliases' = aliases
      BY <1>13, <2>1 DEF InOrder
    <2>2. CASE a \notin ToSet(aliases) /\ aliases' = Append(aliases, a)
      <3>1. PICK l \in Nat : l = Len(aliases)
        BY <1>6
      <3>2. DOMAIN aliases = 1..l /\ \A i \in 1..l : aliases[i] \in ToSet(aliases)
        BY <1>6, <3>1 DEF ToSet
      <3>3. DOMAIN aliases' = 1..l + 1 /\ aliases'[l + 1] = a /\ \A i \in 1..l : aliases'[i] = aliases[i]
        BY <1>6, <2>2, <3>1
      <3>4. ASSUME NEW i \in 1..l + 1, NEW j \in 1..l + 1, i < j
            PROVE  Precedes(aliases'[i], aliases'[j])
        <4>1. i \in 1..l
          BY <3>4
        <4>2. CASE j = l + 1
          BY <1>12, <2>2, <3>2, <3>3, <4>1, <4>2
        <4>3. CASE j # l + 1
          <5>1. j \in 1..l
            BY <4>3
          <5> QED
            BY <1>13, <3>2, <3>3, <3>4, <4>1, <5>1 DEF InOrder
        <4> QED
          BY <4>2, <4>3
      <3>5. \A i, j \in DOMAIN aliases' : i < j => Precedes(aliases'[i], aliases'[j])
        BY <3>3, <3>4
      <3> QED
        BY <1>13, <3>5 DEF InOrder
    <2> QED
      BY <1>8, <2>1, <2>2
  <1> QED
    BY <1>11, <1>14 DEF OInv

\* What a file that was read before leads to was read then, or is in a file that is
\* open, where no way can return.
LEMMA NothingNew ==
    ASSUME Reader, outcome = "reading", Top # <<>>,
           NEW f \in seen, Head(Top) = Include(f),
           NEW files, NEW next, NEW m \in Nat \ {0}, InText(files, next, m),
           NEW way, NEW at, NEW n, NEW a, Leads(way, at, n, a), m <= n, \A i \in 1..m : at[i] = next[i]
    PROVE  a \in ToSet(aliases)
  <1>1. n \in Nat \ {0} /\ Path(way, at, n)
    BY DEF Leads
  <1>2. /\ \A i \in 1..m : way[i] = files[i]
        /\ IF m = n THEN Include(f) = Host(a) ELSE Include(f) = Include(way[m + 1])
    BY SameItem DEF InText
  <1>3. m < n /\ way[m + 1] = f
    BY <1>1, <1>2 DEF Include, Host
  <1> DEFINE ReadOnce(g) == g \in seen /\ \A i \in 1..m : files[i] # g
  <1>4. \A j \in m + 1..n : \A i \in 1..m : way[j] # files[i]
    BY <1>1, <1>2 DEF Path
  <1>5. ASSUME NEW g, ReadOnce(g), NEW h \in DOMAIN tree.text[g]
        PROVE  Dealt(tree.text[g][h])
    BY <1>5 DEF InText, LinesDealt
  <1>6. \A j \in m + 1..n : ReadOnce(way[j])
    <2> SUFFICES ASSUME \E j \in m + 1..n : ~ReadOnce(way[j]) PROVE FALSE
      OBVIOUS
    <2> DEFINE I == {j \in m + 1..n : ~ReadOnce(way[j])}
    <2>1. I \in SUBSET (1..n) /\ I # {} /\ n \in Nat
      BY <1>1
    <2> HIDE DEF ReadOnce
    <2>2. PICK j \in I : \A i \in I : j <= i
      BY <2>1, Least
    <2>3. j \in m + 1..n /\ ~ReadOnce(way[j])
      BY <2>2
    <2>4. way[j] \notin seen
      BY <1>4, <2>3 DEF ReadOnce
    <2>5. j # m + 1
      BY <1>3, <2>4
    <2>6. j - 1 \in m + 1..n /\ ~(j <= j - 1) /\ j - 1 \in 1..n - 1 /\ (j - 1) + 1 = j
      BY <1>1, <2>3, <2>5
    <2>7. ReadOnce(way[j - 1])
      BY <2>2, <2>6
    <2>8. at[j - 1] \in DOMAIN tree.text[way[j - 1]] /\ tree.text[way[j - 1]][at[j - 1]] = Include(way[j])
      BY <1>1, <2>6 DEF Path
    <2>9. Dealt(Include(way[j]))
      BY <1>5, <2>7, <2>8
    <2> QED
      BY <2>4, <2>9 DEF Dealt, Include
  <1>7. ReadOnce(way[n])
    BY <1>1, <1>3, <1>6
  <1> HIDE DEF ReadOnce
  <1>8. Dealt(Host(a))
    BY <1>5, <1>7 DEF Leads
  <1> QED
    BY <1>8 DEF Dealt, Host

LEMMA SkipInOrder ==
    ASSUME Reader, OInv, outcome = "reading", stack # <<>>, Top # <<>>,
           NEW f \in seen, Head(Top) = Include(f), stack' = Rest,
           UNCHANGED <<tree, seen, aliases, outcome>>
    PROVE  OInv'
  <1>1. PICK read : read = Head(Top)
    OBVIOUS
  <1>2. PICK files, next, m : InText(files, next, m)
    BY DEF OInv
  <1>3. m \in Nat \ {0}
    BY <1>2, NotOutermost DEF InText
  <1>4. Dealt(read)' /\ \A item : Dealt(item) => Dealt(item)'
    BY <1>1 DEF Dealt, Include
  <1>5. ASSUME NEW a \in Aliases, NEW way, NEW at, NEW n,
               Leads(way, at, n, a), m <= n, \A i \in 1..m : at[i] = next[i]
        PROVE  a \in ToSet(aliases')
    BY <1>2, <1>3, <1>5, NothingNew
  <1>6. \E more : InText(files, more, m)'
    BY <1>1, <1>2, <1>3, <1>4, <1>5, Advance
  <1>7. InOrder'
    BY SamePlaces DEF OInv, InOrder
  <1> QED
    BY <1>6, <1>7 DEF OInv

\* A file that is opened starts before its first line.
LEMMA OpenInOrder ==
    ASSUME Reader, OInv, outcome = "reading", stack # <<>>, Top # <<>>,
           NEW f \in Files, Head(Top) = Include(f), f \notin seen,
           seen' = seen \cup {f}, stack' = Append(Rest, tree.text[f]),
           UNCHANGED <<tree, aliases, outcome>>
    PROVE  OInv'
  <1>1. Readable /\ Frames
    BY DEF Reader
  <1>2. PICK old, next, m : InText(old, next, m)
    BY DEF OInv
  <1>3. m \in Nat /\ Len(stack) = m + 1 /\ Path(old, next, m)
    BY <1>2 DEF InText, Position
  <1>4. /\ old \in [1..m -> Files] /\ next \in [1..m -> Nat \ {0}]
        /\ \A i \in 1..m : old[i] \in seen
    BY <1>2, <1>3 DEF InText, Position, Path
  <1>5. PICK files, more : /\ files = [i \in 1..m + 1 |-> IF i = m + 1 THEN f ELSE old[i]]
                           /\ more = [i \in 1..m + 1 |-> IF i = m + 1 THEN 1 ELSE next[i]]
    OBVIOUS
  <1>6. /\ files \in [1..m + 1 -> Files] /\ more \in [1..m + 1 -> Nat \ {0}]
        /\ files[m + 1] = f /\ more[m + 1] = 1
        /\ \A i \in 1..m : files[i] = old[i] /\ more[i] = next[i] /\ i \in 1..m + 1 /\ i # m + 1
        /\ \A i \in 1..m + 1 : i \in 1..m \/ i = m + 1
    BY <1>3, <1>4, <1>5
  <1>7. m > 0 => /\ next[m] \in DOMAIN tree.text[old[m]]
                 /\ tree.text[old[m]][next[m]] = Include(f)
    BY <1>1, <1>2, <1>3, Here DEF InText
  <1>8. Path(files, more, m + 1)
    <2>1. \A i, j \in 1..m + 1 : i # j => files[i] # files[j]
      BY <1>3, <1>4, <1>6 DEF Path
    <2>2. files[1] = Main
      <3>1. CASE m = 0
        <4>1. Len(stack) = 1
          BY <1>3, <3>1
        <4>2. f = Main
          BY <4>1, Opening
        <4> QED
          BY <1>6, <3>1, <4>2
      <3>2. CASE m # 0
        BY <1>3, <1>6, <3>2 DEF Path
      <3> QED
        BY <3>1, <3>2
    <2>3. ASSUME NEW i \in 1..m
          PROVE  /\ more[i] \in DOMAIN tree.text[files[i]]
                 /\ tree.text[files[i]][more[i]] = Include(files[i + 1])
      <3>1. CASE i = m
        BY <1>3, <1>6, <1>7, <3>1
      <3>2. CASE i # m
        <4>1. i \in 1..m - 1 /\ i + 1 \in 1..m
          BY <1>3, <3>2
        <4> QED
          BY <1>3, <1>6, <4>1 DEF Path
      <3> QED
        BY <3>1, <3>2
    <2>4. (m + 1) - 1 = m /\ m + 1 > 0
      BY <1>3
    <2> QED
      BY <1>6, <2>1, <2>2, <2>3, <2>4 DEF Path
  <1>9. tree.text[f] \in Seq(Item)
    BY <1>1 DEF Readable
  <1>10. Rest \in Seq(Seq(Item)) /\ Len(Rest) = m + 1 /\ \A i \in 1..m : Rest[i] = stack[i]
    BY <1>1, <1>3, RestProperties DEF Frames
  <1>11. Rest[m + 1] = Tail(Top)
    BY <1>1, <1>3, <1>10 DEF Rest, Top, Frames
  <1>12. /\ Len(stack') = (m + 1) + 1 /\ stack'[(m + 1) + 1] = tree.text[f]
         /\ \A i \in 1..m + 1 : stack'[i] = Rest[i]
    <2>1. PICK text : text = tree.text[f] /\ text \in Seq(Item)
      BY <1>9
    <2>2. stack' = Append(Rest, text)
      BY <2>1
    <2> QED
      BY <1>3, <1>10, <2>1, <2>2
  <1>13. Position(files, more, m + 1)'
    <2>1. ASSUME NEW i \in 1..m + 1
          PROVE  Left(stack'[i + 1], tree.text[files[i]], IF i = m + 1 THEN more[i] - 1 ELSE more[i])
      <3>1. CASE i = m + 1
        <4>1. Left(tree.text[f], tree.text[f], 0)
          BY <1>9, LeftAll
        <4> QED
          BY <1>6, <1>12, <3>1, <4>1
      <3>2. CASE i = m
        <4>1. m \in Nat \ {0} /\ i # m + 1
          BY <1>3, <3>2
        <4>2. Left(Tail(Top), tree.text[old[m]], next[m])
          BY <1>1, <1>2, <4>1, Here DEF InText
        <4>3. stack'[i + 1] = Tail(Top)
          BY <1>3, <1>11, <1>12, <3>2
        <4>4. files[i] = old[m] /\ more[i] = next[m]
          BY <1>6, <3>2, <4>1
        <4> QED
          BY <4>1, <4>2, <4>3, <4>4
      <3>3. CASE i # m + 1 /\ i # m
        <4>1. i \in 1..m /\ i + 1 \in 1..m /\ i + 1 \in 1..m + 1
          BY <1>3, <3>3
        <4>2. stack'[i + 1] = stack[i + 1]
          BY <1>10, <1>12, <4>1
        <4>3. Left(stack[i + 1], tree.text[old[i]], next[i])
          BY <1>2, <3>3, <4>1 DEF InText, Position
        <4> QED
          BY <1>6, <3>3, <4>1, <4>2, <4>3
      <3> QED
        BY <3>1, <3>2, <3>3
    <2>2. \A i \in 1..m + 1 : files[i] \in seen'
      BY <1>4, <1>6
    <2>3. Path(files, more, m + 1)' /\ m + 1 \in Nat
      BY <1>3, <1>8, SamePlaces
    <2> QED
      BY <1>12, <2>1, <2>2, <2>3 DEF Position
  <1>14. LinesDealt(files, more, m + 1)'
    <2>1. \A item : Dealt(item) => Dealt(item)'
      BY DEF Dealt
    <2>2. ASSUME NEW g \in seen', \A i \in 1..m + 1 : files[i] # g, NEW h \in DOMAIN tree.text[g]
          PROVE  Dealt(tree.text[g][h])
      <3>1. g \in seen /\ \A i \in 1..m : old[i] # g
        BY <1>3, <1>6, <2>2
      <3> QED
        BY <1>2, <3>1 DEF InText, LinesDealt
    <2>3. ASSUME NEW i \in 1..m + 1, NEW h \in DOMAIN tree.text[files[i]], h < more[i]
          PROVE  Dealt(tree.text[files[i]][h])
      <3>1. CASE i = m + 1
        <4>1. h \in Nat \ {0}
          BY <1>1, <1>6, Texts
        <4> QED
          BY <1>6, <2>3, <3>1, <4>1
      <3>2. CASE i # m + 1
        BY <1>2, <1>6, <2>3, <3>2 DEF InText, LinesDealt
      <3> QED
        BY <3>1, <3>2
    <2> QED
      BY <2>1, <2>2, <2>3 DEF LinesDealt
  <1>15. AliasesPassed(more)'
    <2>1. ~(Main \in seen /\ Len(stack) = 1) /\ ~(Main \in seen' /\ Len(stack') = 1)
      <3>1. Len(stack') # 1
        BY <1>3, <1>12
      <3>2. Len(stack) = 1 => ~(Len(stack) > 1)
        OBVIOUS
      <3>3. Len(stack) = 1 => seen = {}
        BY <3>2, Opening
      <3> QED
        BY <3>1, <3>3
    <2>2. DOMAIN next = 1..m /\ DOMAIN more = 1..m + 1
      BY <1>4, <1>6
    <2>3. ASSUME NEW a \in Aliases, NEW at \in Places(a)
          PROVE  Before(at, more) <=> Before(at, next)
      <3>1. PICK n, way : Leads(way, at, n, a)
        BY <1>1, PlacesAre
      <3>2. DOMAIN at = 1..n /\ \A i \in 1..n : at[i] \in Nat \ {0}
        BY <3>1 DEF Leads, Path
      <3>3. ASSUME Before(at, more) PROVE Before(at, next)
        <4>1. PICK k \in 1..m + 1 : k \in 1..n /\ at[k] < more[k] /\ \A i \in 1..k - 1 : at[i] = more[i]
          BY <2>2, <3>2, <3>3 DEF Before
        <4>2. k # m + 1
          BY <1>6, <3>2, <4>1
        <4>3. k \in 1..m /\ \A i \in 1..k - 1 : i \in 1..m
          BY <1>3, <4>1, <4>2
        <4>4. at[k] < next[k] /\ \A i \in 1..k - 1 : at[i] = next[i]
          BY <1>6, <4>1, <4>3
        <4> QED
          BY <2>2, <3>2, <4>1, <4>3, <4>4 DEF Before
      <3>4. ASSUME Before(at, next) PROVE Before(at, more)
        <4>1. PICK k \in 1..m : k \in 1..n /\ at[k] < next[k] /\ \A i \in 1..k - 1 : at[i] = next[i]
          BY <2>2, <3>2, <3>4 DEF Before
        <4>2. \A i \in 1..k - 1 : i \in 1..m
          BY <1>3, <4>1
        <4>3. at[k] < more[k] /\ \A i \in 1..k - 1 : at[i] = more[i]
          BY <1>6, <4>1, <4>2
        <4> QED
          BY <1>6, <2>2, <3>2, <4>1, <4>3 DEF Before
      <3> QED
        BY <3>3, <3>4
    <2>4. \A a : Places(a)' = Places(a)
      BY SamePlaces
    <2>5. ToSet(aliases) \subseteq Aliases
      BY DEF Reader, Found, Named
    <2>6. ASSUME NEW a \in Aliases, NEW at \in Places(a), Before(at, more)
          PROVE  a \in ToSet(aliases)
      BY <1>2, <2>3, <2>6 DEF InText, AliasesPassed, Passed
    <2>7. ASSUME NEW a \in ToSet(aliases)
          PROVE  \E at \in Places(a) : Before(at, more)
      BY <1>2, <2>1, <2>3, <2>5 DEF InText, AliasesPassed, Passed
    <2> QED
      BY <2>1, <2>4, <2>6, <2>7 DEF AliasesPassed, Passed
  <1>16. InOrder'
    BY SamePlaces DEF OInv, InOrder
  <1> QED
    BY <1>13, <1>14, <1>15, <1>16 DEF OInv, InText

\* The end of a file is the line after the include in the file before.
LEMMA ReturnInOrder ==
    ASSUME Reader, OInv, Return
    PROVE  OInv'
  <1>1. /\ outcome = "reading" /\ stack # <<>> /\ Top = <<>> /\ UNCHANGED <<tree, seen, aliases>>
        /\ stack' = Front(stack) /\ outcome' = IF Len(stack) = 1 THEN "ok" ELSE outcome
    BY DEF Return
  <1>2. Readable /\ Frames /\ ToSet(aliases) \subseteq Aliases
    BY <1>1 DEF Reader, Found, Named
  <1>3. PICK old, next, m : InText(old, next, m)
    BY <1>1 DEF OInv
  <1>4. /\ m \in Nat /\ Len(stack) = m + 1 /\ Path(old, next, m)
        /\ old \in [1..m -> Files] /\ next \in [1..m -> Nat \ {0}]
        /\ \A i \in 1..m : old[i] \in seen
    BY <1>3 DEF InText, Position, Path
  <1>5. InOrder'
    BY <1>1, SamePlaces DEF OInv, InOrder
  <1>6. CASE m = 0
    BY <1>1, <1>4, <1>5, <1>6 DEF OInv
  <1>7. CASE m # 0
    <2>1. /\ stack \in Seq(Seq(Item)) /\ stack[m + 1] = <<>>
          /\ Len(stack') = m /\ \A i \in 1..m : stack'[i] = stack[i]
      BY <1>1, <1>2, <1>4, <1>7 DEF Frames, Front, Top
    <2>2. DOMAIN tree.text[old[m]] = 1..next[m] - 1 /\ next[m] \in Nat \ {0} /\ m \in 1..m /\ m > 0
      <3>1. m \in 1..m /\ next[m] - 1 \in Nat /\ next[m] \in Nat \ {0} /\ m > 0
        BY <1>4, <1>7
      <3>2. Left(stack[m + 1], tree.text[old[m]], next[m] - 1)
        BY <1>3, <3>1 DEF InText, Position
      <3> QED
        BY <2>1, <3>1, <3>2, LeftNone
    <2>3. \A item : Dealt(item) => Dealt(item)'
      BY <1>1 DEF Dealt
    <2>4. PICK l \in Nat : m = l + 1
      BY <1>4, <1>7
    <2>5. PICK files, more : /\ files = [i \in 1..l |-> old[i]]
                             /\ more = [i \in 1..l |-> IF i = l THEN next[i] + 1 ELSE next[i]]
      OBVIOUS
    <2>6. /\ files \in [1..l -> Files] /\ more \in [1..l -> Nat \ {0}]
          /\ \A i \in 1..l : files[i] = old[i] /\ i \in 1..m /\ i # m
          /\ \A i \in 1..l : more[i] = IF i = l THEN next[i] + 1 ELSE next[i]
          /\ \A i \in 1..l - 1 : more[i] = next[i] /\ i \in 1..l /\ i + 1 \in 1..l /\ i \in 1..m - 1
      BY <1>4, <2>4, <2>5
    <2>7. Path(files, more, l)
      <3>1. \A i, j \in 1..l : i # j => files[i] # files[j]
        BY <1>4, <2>6 DEF Path
      <3>2. l > 0 => files[1] = Main
        BY <1>4, <2>2, <2>6 DEF Path
      <3>3. \A i \in 1..l - 1 : /\ more[i] \in DOMAIN tree.text[files[i]]
                                 /\ tree.text[files[i]][more[i]] = Include(files[i + 1])
        BY <1>4, <2>6 DEF Path
      <3> QED
        BY <2>6, <3>1, <3>2, <3>3 DEF Path
    <2>8. l > 0 => /\ l \in 1..m - 1 /\ l \in 1..l /\ more[l] = next[l] + 1 /\ next[l] \in Nat
                   /\ next[l] \in DOMAIN tree.text[old[l]]
                   /\ tree.text[old[l]][next[l]] = Include(old[m])
      BY <1>4, <2>4, <2>6 DEF Path
    <2>9. Position(files, more, l)'
      <3>1. ASSUME NEW i \in 1..l
            PROVE  Left(stack'[i + 1], tree.text[files[i]], IF i = l THEN more[i] - 1 ELSE more[i])
        <4>1. i + 1 \in 1..m /\ i \in 1..m /\ i # m
          BY <2>4, <2>6
        <4>2. Left(stack[i + 1], tree.text[old[i]], next[i])
          BY <1>3, <4>1 DEF InText, Position
        <4>3. next[i] = IF i = l THEN more[i] - 1 ELSE more[i]
          BY <1>4, <2>6
        <4> QED
          BY <2>1, <2>6, <4>1, <4>2, <4>3
      <3>2. Path(files, more, l)'
        BY <1>1, <2>7, SamePlaces
      <3>3. \A i \in 1..l : files[i] \in seen
        BY <1>4, <2>6
      <3> QED
        BY <1>1, <2>1, <2>4, <3>1, <3>2, <3>3 DEF Position
    <2>10. LinesDealt(files, more, l)'
      <3>1. ASSUME NEW f \in seen, \A i \in 1..l : files[i] # f, NEW h \in DOMAIN tree.text[f]
            PROVE  Dealt(tree.text[f][h])
        <4>1. CASE f = old[m]
          <5>1. h < next[m]
            BY <2>2, <3>1, <4>1
          <5> QED
            BY <1>3, <2>2, <4>1, <5>1 DEF InText, LinesDealt
        <4>2. CASE f # old[m]
          <5>1. \A i \in 1..m : i \in 1..l \/ i = m
            BY <2>4
          <5>2. \A i \in 1..m : old[i] # f
            BY <2>6, <3>1, <4>2, <5>1
          <5> QED
            BY <1>3, <5>2 DEF InText, LinesDealt
        <4> QED
          BY <4>1, <4>2
      <3>2. ASSUME NEW i \in 1..l, NEW h \in DOMAIN tree.text[files[i]], h < more[i]
            PROVE  Dealt(tree.text[files[i]][h])
        <4>1. CASE h < next[i]
          BY <1>3, <2>6, <4>1 DEF InText, LinesDealt
        <4>2. CASE ~(h < next[i])
          <5>1. i = l
            BY <2>6, <3>2, <4>2
          <5>2. h \in Nat
            BY <1>2, <2>6, Texts
          <5>3. h = next[l] /\ l > 0
            BY <2>6, <1>4, <3>2, <4>2, <5>1, <5>2
          <5>4. tree.text[files[i]][h] = Include(old[m]) /\ old[m] \in seen
            BY <1>4, <2>2, <2>6, <2>8, <5>1, <5>3
          <5> QED
            BY <5>4 DEF Dealt, Include
        <4> QED
          BY <4>1, <4>2
      <3> QED
        BY <1>1, <2>3, <3>1, <3>2 DEF LinesDealt
    <2>11. AliasesPassed(more)'
      <3>1. ~(Main \in seen /\ Len(stack) = 1) /\ Main \in seen /\ (Len(stack') = 1 <=> l = 0)
        BY <1>4, <2>1, <2>2, <2>4 DEF Path
      <3>2. DOMAIN next = 1..m /\ DOMAIN more = 1..l /\ \A i \in 1..m : next[i] \in Nat
        BY <1>4, <2>6
      <3>3. ASSUME NEW a \in Aliases, NEW at \in Places(a), Before(at, more) \/ l = 0
            PROVE  Before(at, next)
        <4>1. PICK n, way : Leads(way, at, n, a)
          BY <1>2, PlacesAre
        <4>2. n \in Nat \ {0} /\ DOMAIN at = 1..n /\ \A i \in 1..n : at[i] \in Nat
          BY <4>1 DEF Leads, Path
        <4>3. CASE \A i \in 1..l : i \in 1..n => at[i] = next[i]
          <5>1. n >= m
            <6>1. CASE n <= l
              <7>1. n <= m /\ n # m /\ \A i \in 1..n : at[i] = next[i]
                BY <2>4, <4>2, <4>3, <6>1
              <7> QED
                BY <1>4, <4>1, <7>1, NoIncludeThere
            <6> QED
              BY <2>4, <4>2, <6>1
          <5>2. m <= n /\ \A i \in 1..m - 1 : at[i] = next[i]
            BY <2>4, <4>2, <4>3, <5>1
          <5>3. way[m] = old[m]
            <6>1. Path(way, at, n) /\ Path(old, next, m) /\ n \in Nat /\ m \in Nat \ {0} /\ m <= n /\ m <= m
              BY <1>4, <1>7, <4>1, <4>2, <5>2 DEF Leads
            <6>2. \A i \in 1..m - 1 : at[i] = next[i]
              BY <5>2
            <6>3. \A i \in 1..m : way[i] = old[i]
              BY <6>1, <6>2, SameWay
            <6> QED
              BY <2>2, <6>3
          <5>4. at[m] \in DOMAIN tree.text[way[m]]
            <6>1. m = n \/ m \in 1..n - 1
              BY <1>7, <1>4, <4>2, <5>2
            <6> QED
              BY <4>1, <6>1 DEF Leads, Path
          <5>5. at[m] < next[m] /\ m \in 1..n
            <6>1. at[m] \in 1..next[m] - 1
              BY <2>2, <5>3, <5>4
            <6>2. m \in 1..n
              BY <1>4, <1>7, <4>2, <5>2
            <6> QED
              BY <2>2, <6>1, <6>2
          <5> QED
            BY <2>2, <3>2, <4>2, <5>2, <5>5 DEF Before
        <4>4. CASE ~\A i \in 1..l : i \in 1..n => at[i] = next[i]
          <5>1. Before(at, more)
            BY <3>3, <4>4
          <5>2. PICK k \in 1..l : k \in 1..n /\ at[k] < more[k] /\ \A i \in 1..k - 1 : at[i] = more[i]
            BY <3>2, <4>2, <5>1 DEF Before
          <5>3. k \in 1..m /\ \A i \in 1..k - 1 : i \in 1..l - 1
            BY <2>4, <5>2
          <5>4. \A i \in 1..k - 1 : at[i] = next[i]
            BY <2>6, <5>2, <5>3
          <5>5. at[k] < next[k]
            <6> SUFFICES ASSUME ~(at[k] < next[k]) PROVE FALSE
              OBVIOUS
            <6>1. k = l
              BY <2>6, <5>2
            <6>2. at[l] = next[l]
              BY <2>6, <3>2, <4>2, <5>2, <5>3, <6>1
            <6>3. \A i \in 1..l : i = l \/ i \in 1..k - 1
              BY <6>1
            <6> QED
              BY <4>4, <5>4, <6>2, <6>3
          <5> QED
            BY <3>2, <4>2, <5>2, <5>3, <5>4, <5>5 DEF Before
        <4> QED
          BY <4>3, <4>4
      <3>4. ASSUME NEW a \in ToSet(aliases), l # 0
            PROVE  \E at \in Places(a) : Before(at, more)
        <4>1. PICK at \in Places(a) : Before(at, next)
          BY <1>3, <3>1 DEF InText, AliasesPassed, Passed
        <4>2. PICK n, way : Leads(way, at, n, a)
          BY <1>2, <3>4, PlacesAre
        <4>3. n \in Nat \ {0} /\ DOMAIN at = 1..n /\ \A i \in 1..n : at[i] \in Nat
          BY <4>2 DEF Leads, Path
        <4>4. PICK k \in 1..m : k \in 1..n /\ at[k] < next[k] /\ \A i \in 1..k - 1 : at[i] = next[i]
          BY <3>2, <4>1, <4>3 DEF Before
        <4>5. CASE k = m
          <5>1. l \in 1..l /\ l \in 1..k - 1 /\ l \in 1..n /\ \A i \in 1..l - 1 : i \in 1..k - 1
            <6>1. l \in Nat \ {0} /\ k = l + 1
              BY <2>4, <3>4, <4>5
            <6>2. k \in 1..n
              BY <4>4
            <6> QED
              BY <4>3, <6>1, <6>2
          <5>2. at[l] < more[l] /\ \A i \in 1..l - 1 : at[i] = more[i]
            BY <2>6, <3>2, <4>4, <5>1
          <5> QED
            BY <3>2, <4>3, <5>1, <5>2 DEF Before
        <4>6. CASE k # m
          <5>1. k \in 1..l /\ \A i \in 1..k - 1 : i \in 1..l - 1
            BY <2>4, <4>4, <4>6
          <5>2. at[k] < more[k] /\ \A i \in 1..k - 1 : at[i] = more[i]
            BY <2>6, <3>2, <4>3, <4>4, <5>1
          <5> QED
            BY <3>2, <4>3, <4>4, <5>1, <5>2 DEF Before
        <4> QED
          BY <4>5, <4>6
      <3>5. \A a : Places(a)' = Places(a)
        BY <1>1, SamePlaces
      <3>6. ASSUME NEW a \in Aliases, NEW at \in Places(a), Before(at, more) \/ l = 0
            PROVE  a \in ToSet(aliases)
        BY <1>3, <3>3, <3>6 DEF InText, AliasesPassed, Passed
      <3>7. ASSUME NEW a \in ToSet(aliases)
            PROVE  \E at \in Places(a) : Before(at, more) \/ l = 0
        <4>1. \E at : at \in Places(a)
          BY <1>3 DEF InText, AliasesPassed
        <4> QED
          BY <3>4, <4>1
      <3>8. \A at : Passed(at, more)' <=> Before(at, more) \/ l = 0
        BY <1>1, <3>1 DEF Passed
      <3> QED
        BY <1>1, <3>5, <3>6, <3>7, <3>8 DEF AliasesPassed
    <2>12. \E f, n, k : InText(f, n, k)'
      BY <2>9, <2>10, <2>11 DEF InText
    <2> QED
      BY <1>5, <2>12 DEF OInv
  <1> QED
    BY <1>6, <1>7

LEMMA InitInOrder == Init => OInv
  <1> SUFFICES ASSUME Init PROVE OInv
    OBVIOUS
  <1> USE DEF Init, DiscoveryInit
  <1>1. PICK m : m = 0
    OBVIOUS
  <1>2. Len(stack) = 1 /\ aliases = <<>> /\ seen = {} /\ ToSet(aliases) = {} /\ DOMAIN aliases = {}
    BY DEF ToSet
  <1>3. Path(<<>>, <<>>, m)
    BY <1>1 DEF Path
  <1>4. Position(<<>>, <<>>, m) /\ LinesDealt(<<>>, <<>>, m)
    BY <1>1, <1>2, <1>3 DEF Position, LinesDealt
  <1>5. AliasesPassed(<<>>)
    BY <1>2 DEF AliasesPassed, Passed, Before
  <1>6. InOrder
    BY <1>2 DEF InOrder
  <1> QED
    BY <1>4, <1>5, <1>6 DEF OInv, InText

\* Every step keeps what has been found in the order of the text.
LEMMA StepInOrder ==
    ASSUME IInv, OInv, [Next]_vars
    PROVE  OInv'
  <1> USE DEF IInv, Handed
  <1>1. CASE Read
    <2>1. outcome = "reading" /\ Reader
      BY <1>1 DEF Read, DiscoveryNext, ReadInclude, ReadHost, ReadRefused, ReadComment, Return, NextIs
    <2>2. CASE ReadComment \/ Return
      BY <2>1, <2>2, CommentInOrder, ReturnInOrder
    <2>3. CASE ReadHost
      <3>1. outcome' = "reading" \/ outcome' = "aliases"
        BY <2>1, <2>3 DEF ReadHost, AddAlias, Raise
      <3> QED
        BY <2>1, <2>3, <3>1, HostInOrder DEF OInv
    <2>4. CASE ReadRefused
      BY <2>4 DEF ReadRefused, Raise, OInv
    <2>5. CASE ReadInclude
      <3>1. /\ stack # <<>> /\ Top # <<>> /\ Head(Top).do = "include"
            /\ UNCHANGED tree /\ Open(Head(Top).what)
        BY <2>5 DEF ReadInclude, NextIs
      <3>2. PICK f : f = Head(Top).what
        OBVIOUS
      <3>3. f \in Files /\ Head(Top) = Include(f) /\ Open(f)
        BY <2>1, <3>1, <3>2, NextItem, Items
      <3>4. CASE outcome' \in {"depth", "files", "unsafe"}
        BY <3>4 DEF OInv
      <3>5. CASE f \in seen /\ stack' = Rest /\ UNCHANGED <<seen, aliases, outcome>>
        BY <2>1, <3>1, <3>3, <3>5, SkipInOrder
      <3>6. CASE /\ f \notin seen /\ seen' = seen \cup {f} /\ stack' = Append(Rest, tree.text[f])
                 /\ UNCHANGED <<aliases, outcome>>
        BY <2>1, <3>1, <3>3, <3>6, OpenInOrder
      <3> QED
        BY <3>3, <3>4, <3>5, <3>6 DEF Open, Raise
    <2> QED
      BY <1>1, <2>2, <2>3, <2>4, <2>5 DEF Read, DiscoveryNext
  <1>2. CASE outcome' = "used"
    BY <1>2 DEF OInv
  <1>3. CASE UNCHANGED discoveryVars
    <2>1. \A a : Places(a)' = Places(a)
      BY <1>3, SamePlaces DEF discoveryVars
    <2>2. \A files, next, m : InText(files, next, m)' = InText(files, next, m)
      <3> SUFFICES ASSUME NEW files, NEW next, NEW m
                   PROVE  InText(files, next, m)' = InText(files, next, m)
        OBVIOUS
      <3>1. Position(files, next, m)' = Position(files, next, m)
        BY <1>3 DEF discoveryVars, Position, Path
      <3>2. LinesDealt(files, next, m)' = LinesDealt(files, next, m)
        BY <1>3 DEF discoveryVars, LinesDealt, Dealt
      <3>3. AliasesPassed(next)' = AliasesPassed(next)
        BY <1>3, <2>1 DEF discoveryVars, AliasesPassed, Passed
      <3> QED
        BY <3>1, <3>2, <3>3 DEF InText
    <2>3. InOrder' = InOrder
      BY <1>3, SamePlaces DEF discoveryVars, InOrder
    <2> QED
      BY <1>3, <2>2, <2>3 DEF OInv, discoveryVars
  <1>4. CASE HandOver
    BY <1>2, <1>4 DEF HandOver
  <1>5. CASE NotRead \/ ChooseFound \/ \E a \in Aliases : ChooseNamed(a)
    BY <1>3, <1>5 DEF NotRead, ChooseFound, ChooseNamed
  <1>6. CASE \E text \in EnvTexts : Configure(text)
    BY <1>3, <1>6 DEF Configure
  <1>7. CASE RemoveLeftovers
    <2>1. outcome = "used" /\ outcome' = outcome
      BY <1>7 DEF RemoveLeftovers
    <2> QED
      BY <1>2, <2>1
  <1>8. CASE UNCHANGED vars
    BY <1>3, <1>8 DEF vars
  <1> QED
    BY <1>1, <1>4, <1>5, <1>6, <1>7, <1>8 DEF Next, Done

\* However the files include each other, the aliases of a reading that ends well are
\* in the order of their first places in the whole configuration.
THEOREM AliasesInFileOrder == Spec => []InFileOrder
  <1>1. OInv => InFileOrder
    BY DEF OInv, InOrder, InFileOrder, Precedes
  <1> HIDE DEF vars
  <1>2. IInv /\ OInv /\ [Next]_vars => OInv'
    BY StepInOrder
  <1> QED
    BY <1>1, <1>2, InitInOrder, ReaderInvariance, PTL DEF Spec
=============================================================================
