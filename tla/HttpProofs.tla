----------------------------- MODULE HttpProofs -----------------------------
(***************************************************************************)
(* For every stream of bytes, however it is cut, and all limits: what is   *)
(* read is what was sent, and nothing is waited for in vain.               *)
(*                                                                         *)
(* The invariant says what the reader knows of the lines it has taken, and *)
(* the reference looks at all of them at once.  They meet in NextLine: the *)
(* line the buffer shows is the next one of the stream.                    *)
(***************************************************************************)
EXTENDS HttpReading, FiniteSetTheorems, WellFoundedInduction, TLAPS

Boundary(q) == q = 0 \/ sent[q] \in NewLines

\* What the lines up to n have been: not blank and with a colon, after the first.
LinesRead(n) ==
    /\ \A q, r \in 1..n : IsLine(q, r) => ~IsBlank(q, r) /\ sent[r].field # "colonless"
    /\ \A q \in 0..n, r \in 1..n : IsLine(q, r) => r - q <= MaxLine

\* The last Content-Length among them.
LengthsRead(n) == {r \in 1..n : sent[r] \in NewLines /\ sent[r].field = "length"
                                /\ \E q \in 1..r - 1 : sent[q] \in NewLines}
LastLength(n, d) ==
    IF LengthsRead(n) = {} THEN d = Absent
    ELSE \E r \in LengthsRead(n) : d = sent[r].value /\ \A s \in LengthsRead(n) : s <= r

Types ==
    /\ Len(sent) \in Nat
    /\ side \in {"server", "client"}
    /\ arrived \in 0..Len(sent) /\ taken \in 0..arrived
    /\ pc \in Reading \cup Outcomes
    /\ total \in Nat
    /\ \/ arrived - taken < MaxLine + Chunk
       \/ arrived - taken <= MaxRequest + Chunk

Server ==
    /\ pc \notin {"reply", "whole"}
    /\ pc = "start" => taken = 0 /\ declared = Absent
    /\ pc = "header" =>
          /\ taken \in 1..Len(sent) /\ sent[taken] \in NewLines
          /\ LinesRead(taken) /\ LastLength(taken, declared)
          /\ total = Cardinality(Characters(taken))
          /\ method \in Methods(taken) \ {NotText}
    /\ pc = "body" => taken \in 1..Len(sent) /\ IsRequest(taken, method, declared)
    /\ pc = "request" => IsRequest(taken - BodyLength, method, declared)
    /\ pc \in {"refused", "raised"} => ~Accepts(Len(sent))

Client ==
    /\ pc \in {"reply", "whole", "refused", "failed"} /\ taken = 0
    /\ pc = "reply" => arrived <= MaxRequest
    /\ pc = "whole" => arrived = Len(sent) /\ arrived <= MaxRequest
    /\ pc = "refused" => arrived > MaxRequest

HInv == Types /\ (side = "server" => Server) /\ (side = "client" => Client)

-----------------------------------------------------------------------------
(* Lines.                                                                  *)

LEMMA LeastNumber ==
    ASSUME NEW T \in SUBSET Nat, T # {}
    PROVE  \E n \in T : \A m \in T : n <= m
  <1>1. PICK n \in T : \A m \in T : ~(<<m, n>> \in OpToRel(<, Nat))
    BY NatLessThanWellFounded, WFMin
  <1>2. ASSUME NEW m \in T PROVE n <= m
    <2>1. <<m, n>> \notin OpToRel(<, Nat)
      BY <1>1
    <2>2. ~(m < n)
      BY <2>1 DEF OpToRel
    <2>3. m \in Nat /\ n \in Nat
      OBVIOUS
    <2> QED
      BY <2>2, <2>3
  <1> QED
    BY <1>2

\* After a newline there is one line at most, and no other reaches into it.
LEMMA NextLine ==
    ASSUME NEW t \in Nat, Boundary(t), NEW r \in Nat, IsLine(t, r),
           NEW q \in Nat, NEW s \in Nat, IsLine(q, s), t < s
    PROVE  r <= s /\ (s = r => q = t) /\ (r < s => r <= q)
  <1>1. t <= q
    BY DEF Boundary, IsLine
  <1>2. CASE q = t
    BY <1>2 DEF IsLine
  <1>3. CASE t < q
    <2>1. r <= q
      BY <1>3 DEF IsLine
    <2> QED
      BY <1>3, <2>1 DEF IsLine
  <1> QED
    BY <1>1, <1>2, <1>3

\* A newline further on ends the line that begins here, or a later one.
LEMMA SomeLine ==
    ASSUME NEW t \in Nat, Boundary(t), NEW p \in Nat, t < p, sent[p] \in NewLines
    PROVE  \E r \in t + 1..p : IsLine(t, r)
  <1> DEFINE T == {i \in t + 1..p : sent[i] \in NewLines}
  <1>1. T \in SUBSET Nat /\ T # {}
    BY DEF T
  <1>2. PICK r \in T : \A i \in T : r <= i
    BY <1>1, LeastNumber
  <1>3. IsLine(t, r)
    BY <1>2 DEF IsLine, Boundary
  <1> QED
    BY <1>3

\* The line that the buffer shows.
LEMMA BufferLine ==
    ASSUME Types, NEW r, EndsAt(r), Boundary(taken)
    PROVE  /\ r \in 1..Len(sent) /\ r \in taken + 1..arrived /\ r - taken <= MaxLine
           /\ IsLine(taken, r)
  BY HttpAssumption DEF Types, EndsAt, IsLine, Boundary

-----------------------------------------------------------------------------
(* Characters.                                                             *)

LEMMA CharactersGrow ==
    ASSUME NEW p \in Nat, NEW n \in 0..p
    PROVE  /\ IsFiniteSet(Characters(p)) /\ Cardinality(Characters(p)) \in Nat
           /\ Characters(n) \subseteq Characters(p)
           /\ Cardinality(Characters(n)) <= Cardinality(Characters(p))
  <1>1. IsFiniteSet(1..p)
    BY FS_Interval
  <1>2. Characters(p) \in SUBSET (1..p)
    BY DEF Characters
  <1>3. IsFiniteSet(Characters(p)) /\ Cardinality(Characters(p)) \in Nat
    BY <1>1, <1>2, FS_Subset, FS_CardinalityType
  <1>4. Characters(n) \subseteq Characters(p)
    BY DEF Characters
  <1>5. Cardinality(Characters(n)) <= Cardinality(Characters(p))
    BY <1>3, <1>4, FS_Subset
  <1> QED
    BY <1>3, <1>4, <1>5

\* The first line adds its characters ...
LEMMA FirstCharacters ==
    ASSUME NEW r \in Nat, IsLine(0, r)
    PROVE  Characters(r) = {i \in Stripped(0, r) : sent[i] # Cont}
  <1>1. ASSUME NEW i \in 1..r - 1
        PROVE  i \in Characters(r) <=> i \in Stripped(0, r) /\ sent[i] # Cont
    BY DEF Characters, Stripped, IsLine
  <1>2. r \notin Characters(r)
    BY DEF Characters, IsLine
  <1>3. Characters(r) \subseteq 1..r /\ Stripped(0, r) \subseteq 1..r - 1
    BY DEF Characters, Stripped
  <1>4. \A i : i \in 1..r <=> i = r \/ i \in 1..r - 1
    BY DEF IsLine
  <1>5. ASSUME NEW i PROVE i \in Characters(r) <=> i \in Stripped(0, r) /\ sent[i] # Cont
    BY <1>1, <1>2, <1>3, <1>4
  <1> QED
    BY <1>5

\* ... and every other line its bytes.
LEMMA MoreCharacters ==
    ASSUME NEW t \in Nat, t > 0, sent[t] \in NewLines, NEW r \in Nat, IsLine(t, r)
    PROVE  /\ Characters(r) = Characters(t) \cup Stripped(t, r)
           /\ Cardinality(Characters(r)) = Cardinality(Characters(t)) + Cardinality(Stripped(t, r))
           /\ Cardinality(Stripped(t, r)) \in Nat
  <1>0. t < r
    BY DEF IsLine
  <1>1. ASSUME NEW i \in 1..t PROVE i \in Characters(r) <=> i \in Characters(t)
    <2>1. ASSUME NEW j \in i..r, \A k \in i..j : sent[k] \notin NewLines PROVE j \in i..t
      BY <2>1
    <2> QED
      BY <1>0, <2>1 DEF Characters
  <1>2. ASSUME NEW i \in t + 1..r - 1 PROVE i \in Characters(r) <=> i \in Stripped(t, r)
    <2>1. i \in 1..r /\ t \in 1..i /\ \A j \in i..r - 1 : \A k \in i..j : sent[k] \notin NewLines
      BY DEF IsLine
    <2>2. ASSUME NEW j \in i..r, \A k \in i..j : sent[k] \notin NewLines PROVE j \in i..r - 1
      BY <2>2 DEF IsLine
    <2>3. i \in Characters(r) <=>
             \E j \in i..r : sent[j] # CR /\ \A k \in i..j : sent[k] \notin NewLines
      BY <2>1 DEF Characters
    <2>4. i \in Stripped(t, r) <=> \E j \in i..r - 1 : sent[j] # CR
      BY DEF Stripped
    <2> QED
      BY <2>1, <2>2, <2>3, <2>4
  <1>3. r \notin Characters(r)
    BY DEF Characters, IsLine
  <1>4. /\ Characters(r) \subseteq 1..r /\ Characters(t) \subseteq 1..t
        /\ Stripped(t, r) \subseteq t + 1..r - 1
    BY DEF Characters, Stripped
  <1>5. \A i \in 1..r : i = r \/ i \in 1..t \/ i \in t + 1..r - 1
    OBVIOUS
  <1>6. ASSUME NEW i PROVE i \in Characters(r) <=> i \in Characters(t) \/ i \in Stripped(t, r)
    <2>1. i \in 1..t => i \notin t + 1..r - 1 /\ i \in 1..r
      BY <1>0
    <2>2. i \in t + 1..r - 1 => i \in 1..r
      BY <1>0
    <2> QED
      BY <1>1, <1>2, <1>3, <1>4, <1>5, <2>1, <2>2
  <1>7. Characters(r) = Characters(t) \cup Stripped(t, r)
    BY <1>6
  <1>8. IsFiniteSet(Characters(t)) /\ Cardinality(Characters(t)) \in Nat
    BY CharactersGrow
  <1>9. IsFiniteSet(Stripped(t, r)) /\ Cardinality(Stripped(t, r)) \in Nat
    <2>1. IsFiniteSet(t + 1..r - 1)
      BY FS_Interval
    <2> QED
      BY <1>4, <2>1, FS_Subset, FS_CardinalityType
  <1>10. Characters(t) \cap Stripped(t, r) = {}
    BY <1>4
  <1>11. Cardinality(Characters(t) \cup Stripped(t, r)) =
            Cardinality(Characters(t)) + Cardinality(Stripped(t, r)) - Cardinality({})
    BY <1>8, <1>9, <1>10, FS_Union
  <1>12. Cardinality({}) = 0
    BY FS_EmptySet
  <1> QED
    BY <1>7, <1>8, <1>9, <1>11, <1>12

-----------------------------------------------------------------------------
(* Heads.                                                                  *)

\* Where the reader has found no head, every head ends with the next line or later.
LEMMA HeadIsAhead ==
    ASSUME NEW t \in Nat, LinesRead(t), NEW p \in Nat, IsHead(p), p >= 1
    PROVE  t < p /\ sent[p] \in NewLines
  <1>1. PICK q \in 1..p : IsBlank(q, p)
    BY DEF IsHead
  <1>2. IsLine(q, p) /\ q < p /\ sent[p] \in NewLines
    BY <1>1 DEF IsBlank, IsLine
  <1>3. CASE p <= t
    <2>1. q \in 1..t /\ p \in 1..t
      BY <1>2, <1>3
    <2> QED
      BY <1>1, <1>2, <2>1 DEF LinesRead
  <1> QED
    BY <1>2, <1>3

\* Before its first line the reader has read nothing.
LEMMA NothingRead == LinesRead(0) /\ LengthsRead(0) = {} /\ LastLength(0, Absent)
  BY DEF LinesRead, LengthsRead, LastLength

\* One line more.
LEMMA OneMoreLine ==
    ASSUME NEW t \in Nat, Boundary(t), NEW r \in Nat, IsLine(t, r), r - t <= MaxLine,
           LinesRead(t), t > 0 => ~IsBlank(t, r) /\ sent[r].field # "colonless"
    PROVE  LinesRead(r)
  <1>1. ASSUME NEW q \in 0..r, NEW s \in 1..r, IsLine(q, s)
        PROVE  (s <= t /\ q <= t) \/ (s = r /\ q = t)
    <2>1. q < s
      BY <1>1 DEF IsLine
    <2>2. CASE t < s
      BY <1>1, <2>2, NextLine
    <2> QED
      BY <2>1, <2>2
  <1>2. ASSUME NEW q \in 1..r, NEW s \in 1..r, IsLine(q, s)
        PROVE  ~IsBlank(q, s) /\ sent[s].field # "colonless"
    <2>1. (s \in 1..t /\ q \in 1..t) \/ (s = r /\ q = t)
      BY <1>1, <1>2
    <2> QED
      BY <1>2, <2>1 DEF LinesRead
  <1>3. ASSUME NEW q \in 0..r, NEW s \in 1..r, IsLine(q, s)
        PROVE  s - q <= MaxLine
    <2>1. (s \in 1..t /\ q \in 0..t) \/ (s = r /\ q = t)
      BY <1>1, <1>3
    <2> QED
      BY <1>3, <2>1 DEF LinesRead
  <1> QED
    BY <1>2, <1>3 DEF LinesRead

\* One Content-Length more, if the line is one.
LEMMA OneMoreLength ==
    ASSUME NEW t \in Nat, t > 0, sent[t] \in NewLines, NEW r \in Nat, IsLine(t, r),
           NEW d, LastLength(t, d)
    PROVE  LastLength(r, IF sent[r].field = "length" THEN sent[r].value ELSE d)
  <1>1. ASSUME NEW s \in Nat
        PROVE  s \in LengthsRead(r) <=> s \in LengthsRead(t) \/ (s = r /\ sent[r].field = "length")
    BY DEF IsLine, LengthsRead
  <1>2. LengthsRead(r) \subseteq Nat /\ LengthsRead(t) \subseteq 1..t /\ t < r
    BY DEF IsLine, LengthsRead
  <1>3. CASE sent[r].field = "length"
    BY <1>1, <1>2, <1>3 DEF LastLength
  <1>4. CASE sent[r].field # "length"
    <2>1. LengthsRead(r) = LengthsRead(t)
      BY <1>1, <1>2, <1>4
    <2> QED
      BY <1>4, <2>1 DEF LastLength
  <1> QED
    BY <1>3, <1>4

\* What the lines before the blank one say.
LEMMA LengthsOfHead ==
    ASSUME NEW t \in Nat, NEW r \in Nat, IsLine(t, r), NEW d, LastLength(t, d)
    PROVE  \A e : e \in Lengths(r) <=> e = d
  <1>1. LengthLines(r) = LengthsRead(t)
    BY DEF LengthLines, LengthsRead, IsLine
  <1>2. LengthsRead(t) \subseteq Nat
    BY DEF LengthsRead
  <1>3. CASE LengthsRead(t) = {}
    BY <1>1, <1>3 DEF Lengths, LastLength
  <1>4. CASE LengthsRead(t) # {}
    <2>1. PICK s \in LengthsRead(t) : d = sent[s].value /\ \A i \in LengthsRead(t) : i <= s
      BY <1>4 DEF LastLength
    <2>2. \A i \in LengthsRead(t) : (\A j \in LengthsRead(t) : j <= i) <=> i = s
      BY <1>2, <2>1
    <2> QED
      BY <1>1, <1>4, <2>1, <2>2 DEF Lengths
  <1> QED
    BY <1>3, <1>4

\* The first line is the first one of everything that begins with it.
LEMMA MethodStays ==
    ASSUME NEW t \in Nat, NEW p \in Nat, t <= p, NEW m \in Methods(t)
    PROVE  \A l : l \in Methods(p) <=> l = m
  <1>1. PICK r \in 1..t : IsLine(0, r) /\ m = sent[r].method
    BY DEF Methods
  <1>2. ASSUME NEW s \in 1..p, IsLine(0, s) PROVE s = r
    BY <1>1, <1>2 DEF IsLine
  <1>3. r \in 1..p
    OBVIOUS
  <1> QED
    BY <1>1, <1>2, <1>3 DEF Methods

\* There is one head at most.
LEMMA OneHead ==
    ASSUME NEW p \in Nat, NEW r \in Nat, p >= 1, r >= 1, IsHead(p), IsHead(r)
    PROVE  p = r
  <1>1. PICK q \in 1..p : IsBlank(q, p)
    BY DEF IsHead
  <1>2. PICK s \in 1..r : IsBlank(s, r)
    BY DEF IsHead
  <1>3. IsLine(q, p) /\ IsLine(s, r) /\ q < p /\ s < r
    BY <1>1, <1>2 DEF IsBlank, IsLine
  <1>4. CASE p < r
    <2>1. q \in 1..r /\ p \in 1..r
      BY <1>3, <1>4
    <2> QED
      BY <1>1, <1>3, <1>4, <2>1 DEF IsHead
  <1>5. CASE r < p
    <2>1. s \in 1..p /\ r \in 1..p
      BY <1>3, <1>5
    <2> QED
      BY <1>2, <1>3, <1>5, <2>1 DEF IsHead
  <1> QED
    BY <1>4, <1>5

\* A method and a length that are accepted are the ones of the head.
LEMMA OneRequest ==
    ASSUME NEW p \in Nat, p >= 1, NEW m, NEW d, IsRequest(p, m, d), NEW n \in Nat, Accepts(n)
    PROVE  p + LengthOf(d) <= n
  <1>1. PICK r \in 1..n : \E l, e : IsRequest(r, l, e) /\ r + LengthOf(e) <= n
    BY DEF Accepts
  <1>2. PICK l, e : IsRequest(r, l, e) /\ r + LengthOf(e) <= n
    BY <1>1
  <1>3. r = p
    BY <1>2, OneHead DEF IsRequest
  <1>4. e = d
    <2>1. LengthLines(p) \subseteq Nat
      BY DEF LengthLines
    <2>2. d \in Lengths(p) /\ e \in Lengths(p)
      BY <1>2, <1>3 DEF IsRequest
    <2> QED
      BY <2>1, <2>2 DEF Lengths
  <1> QED
    BY <1>2, <1>3, <1>4

\* A length that is accepted is a number.
LEMMA ValidLength ==
    ASSUME NEW m, NEW d, Valid(m, d)
    PROVE  LengthOf(d) \in 0..MaxRequest
  BY HttpAssumption DEF Valid, LengthOf

-----------------------------------------------------------------------------
(* What cannot become a request any more.                                  *)

\* No line in the buffer, which is full or is all there is.
LEMMA NoLineNoRequest ==
    ASSUME Types, Boundary(taken), LinesRead(taken), ~HasLine, NEW n \in 0..Len(sent),
           arrived - taken >= MaxLine \/ n <= arrived
    PROVE  ~Accepts(n)
  <1> SUFFICES ASSUME Accepts(n) PROVE FALSE
    OBVIOUS
  <1>0. Len(sent) \in Nat /\ taken \in Nat /\ arrived \in Nat /\ n \in Nat /\ MaxLine \in Nat
        /\ n <= Len(sent) /\ taken <= arrived
    BY HttpAssumption DEF Types
  <1>1. PICK p \in 1..n : IsHead(p)
    BY DEF Accepts, IsRequest
  <1>2. taken < p /\ sent[p] \in NewLines
    BY <1>0, <1>1, HeadIsAhead
  <1>3. PICK r \in taken + 1..p : IsLine(taken, r)
    BY <1>0, <1>2, SomeLine
  <1>4. r - taken <= MaxLine
    <2>1. taken \in 0..p /\ r \in 1..p
      BY <1>0, <1>2
    <2> QED
      BY <1>1, <1>3, <2>1 DEF IsHead
  <1>5. r <= arrived /\ r \in 1..Len(sent) /\ r <= taken + MaxLine
    BY <1>0, <1>2, <1>4
  <1>6. EndsAt(r)
    BY <1>0, <1>3, <1>5 DEF EndsAt, IsLine
  <1> QED
    BY <1>5, <1>6 DEF HasLine

\* A request that is there has no part that was refused: its lines from the next on.
LEMMA NextLineOfRequest ==
    ASSUME NEW t \in Nat, Boundary(t), LinesRead(t), NEW r \in Nat, IsLine(t, r),
           NEW n \in Nat, Accepts(n)
    PROVE  \E p \in 1..n : \E m, d : IsRequest(p, m, d) /\ r <= p
                                 /\ (t > 0 => (IsBlank(t, r) <=> p = r))
                                 /\ (t > 0 /\ r < p => sent[r].field # "colonless")
  <1>1. PICK p \in 1..n : \E m, d : IsRequest(p, m, d)
    BY DEF Accepts
  <1>2. IsHead(p) /\ p \in Nat /\ p >= 1
    BY <1>1 DEF IsRequest
  <1>3. PICK q \in 1..p : IsBlank(q, p)
    BY <1>2 DEF IsHead
  <1>4. t < p /\ IsLine(q, p) /\ q \in Nat
    BY <1>2, <1>3, HeadIsAhead DEF IsBlank
  <1>5. r <= p /\ (p = r => q = t)
    BY <1>2, <1>4, NextLine
  <1>6. ASSUME t > 0, r < p PROVE ~IsBlank(t, r) /\ sent[r].field # "colonless"
    <2>1. t \in 1..p /\ r \in 1..p
      BY <1>4, <1>6 DEF IsLine
    <2> QED
      BY <1>2, <1>6, <2>1 DEF IsHead
  <1> QED
    BY <1>1, <1>3, <1>5, <1>6

-----------------------------------------------------------------------------
(* The steps.                                                              *)

LEMMA InitialReader == Init => HInv
  <1> SUFFICES ASSUME Init PROVE HInv
    OBVIOUS
  <1>1. Len(sent) \in Nat
    BY HttpAssumption DEF Init
  <1>2. Types
    BY <1>1, HttpAssumption DEF Init, Types, Reading
  <1>3. side = "server" => Server
    BY DEF Init, Server
  <1>4. side = "client" => Client
    BY HttpAssumption DEF Init, Client
  <1> QED
    BY <1>2, <1>3, <1>4 DEF HInv

\* A request is waited for only as long as it is not there.
LEMMA Waiting ==
    ASSUME HInv, side = "server", NeedsMore
    PROVE  ~Accepts(arrived)
  <1>1. Types /\ Server /\ arrived \in Nat /\ taken \in Nat
    BY DEF HInv, Types
  <1>2. CASE InHead
    <2>1. ~HasLine
      BY <1>2 DEF NeedsMore, InHead
    <2>2. Boundary(taken) /\ LinesRead(taken)
      BY <1>1, <1>2, NothingRead DEF InHead, Server, Boundary
    <2>3. arrived \in 0..Len(sent)
      BY <1>1 DEF Types
    <2> QED
      BY <1>1, <2>1, <2>2, <2>3, NoLineNoRequest
  <1>3. CASE pc = "body"
    <2>1. IsRequest(taken, method, declared) /\ taken >= 1
      BY <1>1, <1>3 DEF Server
    <2>2. arrived - taken < BodyLength
      BY <1>3 DEF NeedsMore, InHead
    <2>3. BodyLength \in Nat
      BY <2>1, ValidLength, HttpAssumption DEF IsRequest, BodyLength
    <2>4. Accepts(arrived) => taken + LengthOf(declared) <= arrived
      BY <1>1, <2>1, OneRequest
    <2> QED
      BY <1>1, <2>2, <2>3, <2>4 DEF BodyLength
  <1> QED
    BY <1>1, <1>2, <1>3 DEF NeedsMore, Server

\* What the server knows is about what it has taken.
LEMMA SameServer ==
    ASSUME Server, UNCHANGED <<sent, taken, pc, total, method, declared>>
    PROVE  Server'
  <1>1. LinesRead(taken)' <=> LinesRead(taken)
    BY DEF LinesRead, IsLine, IsBlank
  <1>2. LastLength(taken, declared)' <=> LastLength(taken, declared)
    BY DEF LastLength, LengthsRead
  <1>3. Characters(taken)' = Characters(taken) /\ Methods(taken)' = Methods(taken)
    BY DEF Characters, Methods, IsLine
  <1>4. IsRequest(taken, method, declared)' <=> IsRequest(taken, method, declared)
    BY DEF IsRequest, IsHead, IsLine, IsBlank, Characters, Methods, Lengths, LengthLines, Valid
  <1>5. IsRequest(taken - BodyLength, method, declared)' <=>
           IsRequest(taken - BodyLength, method, declared)
    BY DEF IsRequest, IsHead, IsLine, IsBlank, Characters, Methods, Lengths, LengthLines,
           Valid, BodyLength
  <1>6. Accepts(Len(sent))' <=> Accepts(Len(sent))
    BY DEF Accepts, IsRequest, IsHead, IsLine, IsBlank, Characters, Methods, Lengths, LengthLines
  <1> QED
    BY <1>1, <1>2, <1>3, <1>4, <1>5, <1>6 DEF Server

\* The parts of the invariant that the steps of the connection may disturb.
LEMMA ConnectionSteps ==
    ASSUME HInv, Fill \/ EndOfStream \/ GiveUp \/ LineTooLong
    PROVE  HInv'
  <1>0. Types /\ (side = "server" => Server) /\ (side = "client" => Client)
    BY DEF HInv
  <1>1. UNCHANGED <<side, sent, taken, total, method, declared>>
    BY DEF Fill, EndOfStream, GiveUp, LineTooLong
  <1>2. /\ MaxLine \in Nat /\ MaxRequest \in Nat /\ Chunk \in Nat /\ Chunk >= 1
        /\ Len(sent) \in Nat /\ arrived \in Nat /\ taken \in Nat /\ taken <= arrived
    BY <1>0, HttpAssumption DEF Types
  <1>3. ASSUME Fill PROVE HInv'
    <2>1. PICK n \in 1..Chunk : arrived + n <= Len(sent) /\ arrived' = arrived + n
      BY <1>3 DEF Fill
    <2>2. pc' = IF pc = "reply" /\ arrived' > MaxRequest THEN "refused" ELSE pc
      BY <1>3 DEF Fill
    <2>3. arrived' \in 0..Len(sent) /\ taken \in 0..arrived'
      BY <1>2, <2>1
    <2>4. CASE side = "server"
      <3>1. pc # "reply" /\ pc' = pc
        BY <1>0, <2>2, <2>4 DEF Server
      <3>2. arrived - taken < MaxLine \/ arrived - taken < MaxRequest
        <4>1. CASE InHead
          BY <1>3, <4>1 DEF Fill, NeedsMore, InHead
        <4>2. CASE pc = "body"
          <5>1. BodyLength \in 0..MaxRequest /\ arrived - taken < BodyLength
            BY <1>0, <1>3, <2>4, <4>2, ValidLength
               DEF Server, IsRequest, BodyLength, Fill, NeedsMore, InHead
          <5> QED
            BY <1>2, <5>1
        <4> QED
          BY <1>3, <3>1, <4>1, <4>2 DEF Fill, NeedsMore
      <3>3. arrived' - taken < MaxLine + Chunk \/ arrived' - taken <= MaxRequest + Chunk
        BY <1>2, <2>1, <3>2
      <3>4. Types'
        BY <1>0, <1>1, <2>3, <3>1, <3>3 DEF Types
      <3>5. Server'
        BY <1>0, <1>1, <2>4, <3>1, SameServer
      <3> QED
        BY <1>1, <2>4, <3>4, <3>5 DEF HInv
    <2>5. CASE side = "client"
      <3>1. taken = 0 /\ pc = "reply" /\ arrived <= MaxRequest
        BY <1>0, <1>3, <2>5 DEF Client, Fill, NeedsMore, InHead
      <3>2. arrived' - taken <= MaxRequest + Chunk
        BY <1>2, <2>1, <3>1
      <3>3. Types'
        BY <1>0, <1>1, <2>2, <2>3, <3>1, <3>2 DEF Types, Reading, Outcomes
      <3>4. Client'
        BY <1>1, <1>2, <2>1, <2>2, <3>1 DEF Client
      <3> QED
        BY <1>1, <2>5, <3>3, <3>4 DEF HInv
    <2> QED
      BY <1>0, <2>4, <2>5 DEF Types
  <1>4. ASSUME EndOfStream \/ GiveUp \/ LineTooLong PROVE HInv'
    <2>1. arrived' = arrived /\ pc' \in {"whole", "refused", "failed"}
      BY <1>4 DEF EndOfStream, GiveUp, LineTooLong
    <2>2. Types'
      BY <1>0, <1>1, <2>1 DEF Types, Outcomes
    <2>3. ASSUME side = "server" PROVE Server'
      <3>1. pc # "reply" /\ pc' # "whole"
        BY <1>0, <1>4, <2>3 DEF Server, EndOfStream, GiveUp, LineTooLong
      <3>2. pc' = "refused" => ~Accepts(Len(sent))
        <4>1. CASE EndOfStream
          BY <2>3, <4>1, Waiting DEF EndOfStream
        <4>2. CASE GiveUp
          BY <4>2 DEF GiveUp
        <4>3. CASE LineTooLong
          <5>1. Boundary(taken) /\ LinesRead(taken)
            BY <1>0, <2>3, <4>3, NothingRead DEF LineTooLong, InHead, Server, Boundary
          <5>2. ~HasLine /\ arrived - taken >= MaxLine /\ Len(sent) \in 0..Len(sent)
            BY <1>2, <4>3 DEF LineTooLong
          <5> QED
            BY <1>0, <5>1, <5>2, NoLineNoRequest
        <4> QED
          BY <1>4, <4>1, <4>2, <4>3
      <3>3. Accepts(Len(sent))' <=> Accepts(Len(sent))
        BY <1>1 DEF Accepts, IsRequest, IsHead, IsLine, IsBlank, Characters, Methods,
           Lengths, LengthLines
      <3> QED
        BY <2>1, <3>1, <3>2, <3>3 DEF Server
    <2>4. ASSUME side = "client" PROVE Client'
      <3>1. pc = "reply" /\ taken = 0 /\ arrived <= MaxRequest
        BY <1>0, <1>4, <2>4 DEF Client, EndOfStream, GiveUp, LineTooLong, NeedsMore, InHead
      <3>2. pc' = "failed" \/ (pc' = "whole" /\ arrived = Len(sent))
        BY <1>4, <3>1 DEF EndOfStream, GiveUp, LineTooLong, InHead
      <3> QED
        BY <1>1, <2>1, <3>1, <3>2 DEF Client
    <2> QED
      BY <1>1, <2>2, <2>3, <2>4 DEF HInv
  <1> QED
    BY <1>3, <1>4

\* The same for what it will have taken.
LEMMA NextServer ==
    ASSUME sent' = sent, NEW r, taken' = r
    PROVE  /\ LinesRead(taken)' <=> LinesRead(r)
           /\ LastLength(taken, declared)' <=> LastLength(r, declared')
           /\ Characters(taken)' = Characters(r) /\ Methods(taken)' = Methods(r)
           /\ IsRequest(taken, method, declared)' <=> IsRequest(r, method', declared')
           /\ Accepts(Len(sent))' <=> Accepts(Len(sent))
  <1>1. LinesRead(taken)' <=> LinesRead(r)
    BY DEF LinesRead, IsLine, IsBlank
  <1>2. LastLength(taken, declared)' <=> LastLength(r, declared')
    BY DEF LastLength, LengthsRead
  <1>3. Characters(taken)' = Characters(r) /\ Methods(taken)' = Methods(r)
    BY DEF Characters, Methods, IsLine
  <1>4. IsRequest(taken, method, declared)' <=> IsRequest(r, method', declared')
    BY DEF IsRequest, IsHead, IsLine, IsBlank, Characters, Methods, Lengths, LengthLines, Valid
  <1>5. Accepts(Len(sent))' <=> Accepts(Len(sent))
    BY DEF Accepts, IsRequest, IsHead, IsLine, IsBlank, Characters, Methods, Lengths, LengthLines
  <1> QED
    BY <1>1, <1>2, <1>3, <1>4, <1>5

\* Taking a line shortens the buffer.
LEMMA TakingTypes ==
    ASSUME Types, NEW r \in taken + 1..arrived, taken' = r, UNCHANGED <<side, sent, arrived>>,
           total' \in Nat, pc' \in Reading \cup Outcomes
    PROVE  Types'
  <1>1. /\ MaxLine \in Nat /\ MaxRequest \in Nat /\ Chunk \in Nat
        /\ arrived \in Nat /\ taken \in Nat /\ r \in Nat /\ r > taken /\ r <= arrived
    BY HttpAssumption DEF Types
  <1>2. arrived - r < MaxLine + Chunk \/ arrived - r <= MaxRequest + Chunk
    BY <1>1 DEF Types
  <1>3. r \in 0..arrived
    BY <1>1
  <1> QED
    BY <1>2, <1>3 DEF Types

LEMMA StartStep ==
    ASSUME HInv, NEW r, ReadStart(r)
    PROVE  HInv'
  <1>1. Types /\ side = "server" /\ Server /\ taken = 0 /\ declared = Absent
    BY DEF HInv, ReadStart, Client, Types, Server
  <1>2. /\ r \in 1..Len(sent) /\ r \in taken + 1..arrived /\ r - 0 <= MaxLine
        /\ IsLine(0, r) /\ r \in Nat /\ Len(sent) \in Nat
    BY <1>1, BufferLine DEF ReadStart, Boundary, Types
  <1>3. /\ UNCHANGED <<side, sent, arrived, declared>> /\ taken' = r
        /\ method' = sent[r].method
        /\ pc' = IF method' = NotText THEN "refused" ELSE "header"
    BY DEF ReadStart
  <1>4. total' = Cardinality(Characters(r)) /\ total' \in Nat
    <2>1. Characters(r) = {i \in Stripped(0, r) : sent[i] # Cont}
      BY <1>2, FirstCharacters
    <2>2. total' = Cardinality({i \in Stripped(0, r) : sent[i] # Cont})
      BY <1>1 DEF ReadStart
    <2>3. Cardinality(Characters(r)) \in Nat
      <3>1. 0 \in 0..r
        BY <1>2
      <3> QED
        BY <1>2, <3>1, CharactersGrow
    <2> QED
      BY <2>1, <2>2, <2>3
  <1>5. Types'
    BY <1>1, <1>2, <1>3, <1>4, TakingTypes DEF Reading, Outcomes
  <1>6. method' \in Methods(r)
    BY <1>2, <1>3 DEF Methods
  <1>7. Server'
    <2>1. CASE method' = NotText
      <3>1. ASSUME Accepts(Len(sent)) PROVE FALSE
        <4>1. PICK p \in 1..Len(sent) : \E m, d : IsRequest(p, m, d) /\ r <= p
          BY <1>2, <3>1, NothingRead, NextLineOfRequest DEF Boundary
        <4>2. PICK m : m \in Methods(p) \ {NotText}
          BY <4>1 DEF IsRequest
        <4>3. p \in Nat /\ r <= p
          BY <1>2, <4>1
        <4>4. m = method'
          BY <1>2, <1>6, <4>2, <4>3, MethodStays
        <4> QED
          BY <2>1, <4>2, <4>4
      <3>2. pc' = "refused"
        BY <1>3, <2>1
      <3> QED
        BY <1>3, <3>1, <3>2, NextServer DEF Server
    <2>2. CASE method' # NotText
      <3>1. pc' = "header"
        BY <1>3, <2>2
      <3>2. LinesRead(r)
        BY <1>2, NothingRead, OneMoreLine DEF Boundary
      <3>3. LastLength(r, declared')
        <4>1. LengthsRead(r) = {}
          BY <1>2 DEF LengthsRead, IsLine
        <4> QED
          BY <1>1, <1>3, <4>1 DEF LastLength
      <3>4. sent'[taken'] \in NewLines
        BY <1>2, <1>3 DEF IsLine
      <3> QED
        BY <1>2, <1>3, <1>4, <1>6, <2>2, <3>1, <3>2, <3>3, <3>4, NextServer DEF Server
    <2> QED
      BY <2>1, <2>2
  <1> QED
    BY <1>1, <1>3, <1>5, <1>7 DEF HInv

\* What every further line of the head has in common.
LEMMA AnotherLine ==
    ASSUME HInv, NEW r, Line(r)
    PROVE  /\ Types /\ side = "server" /\ Server /\ pc = "header"
           /\ taken \in Nat /\ taken > 0 /\ Boundary(taken) /\ sent[taken] \in NewLines
           /\ r \in 1..Len(sent) /\ r \in taken + 1..arrived /\ r - taken <= MaxLine
           /\ IsLine(taken, r) /\ r \in Nat /\ Len(sent) \in Nat /\ taken <= r
           /\ UNCHANGED <<side, sent, arrived, method>> /\ taken' = r
           /\ total' = Cardinality(Characters(r)) /\ total' \in Nat
           /\ IsBlank(taken, r) <=> Stripped(taken, r) = {}
           /\ method \in Methods(r) \ {NotText}
           /\ LinesRead(taken) /\ LastLength(taken, declared)
  <1>1. Types /\ side = "server" /\ Server /\ pc = "header"
    BY DEF HInv, Line, Client, Types, Server
  <1>2. taken \in Nat /\ taken > 0 /\ sent[taken] \in NewLines /\ Boundary(taken)
        /\ Len(sent) \in Nat
    BY <1>1 DEF Server, Types, Boundary
  <1>3. /\ r \in 1..Len(sent) /\ r \in taken + 1..arrived /\ r - taken <= MaxLine
        /\ IsLine(taken, r)
    BY <1>1, <1>2, BufferLine DEF Line
  <1>4. r \in Nat /\ taken <= r
    BY <1>2, <1>3
  <1>5. total' = Cardinality(Characters(r)) /\ total' \in Nat
    <2>1. total' = total + Cardinality(Stripped(taken, r)) /\ total = Cardinality(Characters(taken))
      BY <1>1 DEF Line, Server
    <2>2. Cardinality(Characters(r)) = Cardinality(Characters(taken)) + Cardinality(Stripped(taken, r))
      BY <1>2, <1>3, <1>4, MoreCharacters
    <2> QED
      BY <1>4, <2>1, <2>2, CharactersGrow
  <1>6. IsBlank(taken, r) <=> Stripped(taken, r) = {}
    <2>1. ASSUME IsBlank(taken, r) PROVE Stripped(taken, r) = {}
      <3>1. \A j \in taken + 1..r - 1 : sent[j] = CR
        BY <2>1 DEF IsBlank
      <3>2. ASSUME NEW i \in taken + 1..r - 1, NEW j \in i..r - 1 PROVE sent[j] = CR
        BY <1>2, <1>4, <3>1
      <3> QED
        BY <3>2 DEF Stripped
    <2>2. ASSUME Stripped(taken, r) = {} PROVE IsBlank(taken, r)
      <3>1. ASSUME NEW i \in taken + 1..r - 1 PROVE sent[i] = CR
        <4>1. i \in i..r - 1
          BY <1>2, <1>4
        <4> QED
          BY <2>2, <4>1 DEF Stripped
      <3> QED
        BY <1>3, <3>1 DEF IsBlank
    <2> QED
      BY <2>1, <2>2
  <1>7. method \in Methods(r) \ {NotText}
    BY <1>1, <1>2, <1>4, MethodStays DEF Server
  <1> QED
    BY <1>1, <1>2, <1>3, <1>4, <1>5, <1>6, <1>7 DEF Line, Server

LEMMA RefuseStep ==
    ASSUME HInv, NEW r, RefuseHeader(r)
    PROVE  HInv'
  <1>1. Line(r) /\ pc' = "refused" /\ declared' = declared
    BY DEF RefuseHeader
  <1>2. Types'
    BY <1>1, AnotherLine, TakingTypes DEF Outcomes
  <1>3. ASSUME Accepts(Len(sent)) PROVE FALSE
    <2>1. PICK p \in 1..Len(sent) :
             \E m, d : IsRequest(p, m, d) /\ r <= p
                       /\ (IsBlank(taken, r) <=> p = r)
                       /\ (r < p => sent[r].field # "colonless")
      BY <1>1, <1>3, AnotherLine, NextLineOfRequest
    <2>2. IsHead(p) /\ r <= p /\ p \in Nat /\ r \in Nat
      BY <1>1, <2>1, AnotherLine DEF IsRequest
    <2>3. CASE total' > MaxHeader
      <3>1. Cardinality(Characters(r)) <= Cardinality(Characters(p))
            /\ Cardinality(Characters(r)) \in Nat /\ Cardinality(Characters(p)) \in Nat
        <4>1. r \in 0..p
          BY <2>2
        <4> QED
          BY <2>2, <4>1, CharactersGrow
      <3>2. Cardinality(Characters(p)) <= MaxHeader
        BY <2>2 DEF IsHead
      <3>3. total' = Cardinality(Characters(r)) /\ MaxHeader \in Nat
        BY <1>1, AnotherLine, HttpAssumption
      <3> QED
        BY <2>3, <3>1, <3>2, <3>3
    <2>4. CASE Stripped(taken, r) # {} /\ sent[r].field = "colonless"
      <3>1. ~IsBlank(taken, r)
        BY <1>1, <2>4, AnotherLine
      <3>2. p # r
        BY <2>1, <3>1
      <3>3. r < p
        BY <2>2, <3>2
      <3> QED
        BY <2>1, <2>4, <3>3
    <2> QED
      BY <2>3, <2>4 DEF RefuseHeader
  <1>4. Server'
    BY <1>1, <1>3, AnotherLine, NextServer DEF Server
  <1> QED
    BY <1>1, <1>2, <1>4, AnotherLine DEF HInv

LEMMA HeaderStep ==
    ASSUME HInv, NEW r, ReadHeader(r)
    PROVE  HInv'
  <1>1. Line(r) /\ pc' = "header"
        /\ declared' = IF sent[r].field = "length" THEN sent[r].value ELSE declared
    BY AnotherLine DEF ReadHeader
  <1>2. Types'
    BY <1>1, AnotherLine, TakingTypes DEF Reading
  <1>3. LinesRead(r)
    <2>1. ~IsBlank(taken, r) /\ sent[r].field # "colonless"
      BY <1>1, AnotherLine DEF ReadHeader
    <2> QED
      BY <1>1, <2>1, AnotherLine, OneMoreLine
  <1>4. LastLength(r, declared')
    BY <1>1, AnotherLine, OneMoreLength
  <1>5. sent'[taken'] \in NewLines
    BY <1>1, AnotherLine DEF IsLine
  <1>6. Server'
    BY <1>1, <1>3, <1>4, <1>5, AnotherLine, NextServer DEF Server
  <1> QED
    BY <1>1, <1>2, <1>6, AnotherLine DEF HInv

LEMMA HeadStep ==
    ASSUME HInv, NEW r, EndHead(r)
    PROVE  HInv'
  <1>1. Line(r) /\ declared' = declared /\ Stripped(taken, r) = {}
        /\ pc' = IF Valid(method, declared) THEN "body"
                 ELSE IF method # NotWords /\ declared = NotANumber THEN "raised"
                 ELSE "refused"
    BY DEF EndHead
  <1>2. Types'
    BY <1>1, AnotherLine, TakingTypes DEF Reading, Outcomes
  <1>3. IsBlank(taken, r)
    BY <1>1, AnotherLine
  <1>4. \A e : e \in Lengths(r) <=> e = declared
    BY <1>1, AnotherLine, LengthsOfHead
  <1>5. CASE Valid(method, declared)
    <2>1. IsHead(r)
      <3>1. taken \in 1..r
        BY <1>1, AnotherLine
      <3>2. ASSUME NEW q \in Nat, NEW s \in 1..r, IsLine(q, s)
            PROVE  (s \in 1..taken /\ q < s) \/ (s = r /\ q = taken)
        <4>1. q < s
          BY <3>2 DEF IsLine
        <4>2. CASE taken < s
          BY <1>1, <3>2, <4>2, AnotherLine, NextLine
        <4> QED
          BY <1>1, <4>1, <4>2, AnotherLine
      <3>3. ASSUME NEW q \in 1..r, NEW s \in 1..r, IsLine(q, s), s < r
            PROVE  ~IsBlank(q, s) /\ sent[s].field # "colonless"
        <4>1. s \in 1..taken /\ q \in 1..taken
          BY <1>1, <3>2, <3>3, AnotherLine
        <4> QED
          BY <1>1, <3>3, <4>1, AnotherLine DEF LinesRead
      <3>4. ASSUME NEW q \in 0..r, NEW s \in 1..r, IsLine(q, s)
            PROVE  s - q <= MaxLine
        <4>1. (s \in 1..taken /\ q \in 0..taken) \/ (s = r /\ q = taken)
          BY <1>1, <3>2, <3>4, AnotherLine
        <4> QED
          BY <1>1, <3>4, <4>1, AnotherLine DEF LinesRead
      <3>5. Cardinality(Characters(r)) <= MaxHeader
        BY <1>1, AnotherLine DEF EndHead
      <3> QED
        BY <1>3, <3>1, <3>3, <3>4, <3>5 DEF IsHead
    <2>2. IsRequest(r, method', declared')
      BY <1>1, <1>4, <1>5, <2>1, AnotherLine DEF IsRequest
    <2>3. pc' = "body"
      BY <1>1, <1>5
    <2>4. Server'
      BY <1>1, <2>2, <2>3, AnotherLine, NextServer DEF Server
    <2> QED
      BY <1>1, <1>2, <2>4, AnotherLine DEF HInv
  <1>6. CASE ~Valid(method, declared)
    <2>1. ASSUME Accepts(Len(sent)) PROVE FALSE
      <3>1. PICK p \in 1..Len(sent) :
               \E m, d : IsRequest(p, m, d) /\ (IsBlank(taken, r) <=> p = r)
        BY <1>1, <2>1, AnotherLine, NextLineOfRequest
      <3>2. PICK m, d : IsRequest(r, m, d)
        BY <1>3, <3>1
      <3>3. d = declared /\ m = method
        BY <1>1, <1>4, <3>2, AnotherLine, MethodStays DEF IsRequest
      <3> QED
        BY <1>6, <3>2, <3>3 DEF IsRequest
    <2>2. pc' \in {"raised", "refused"}
      BY <1>1, <1>6
    <2>3. Server'
      BY <1>1, <2>1, <2>2, AnotherLine, NextServer DEF Server
    <2> QED
      BY <1>1, <1>2, <2>3, AnotherLine DEF HInv
  <1> QED
    BY <1>5, <1>6

LEMMA BodyStep ==
    ASSUME HInv, ReadBody
    PROVE  HInv'
  <1>1. /\ pc = "body" /\ arrived - taken >= BodyLength /\ taken' = taken + BodyLength
        /\ pc' = "request" /\ UNCHANGED <<side, sent, arrived, total, method, declared>>
    BY DEF ReadBody
  <1>2. Types /\ side = "server" /\ Server /\ IsRequest(taken, method, declared)
    BY <1>1 DEF HInv, Client, Server, Types
  <1>3. BodyLength \in 0..MaxRequest /\ MaxRequest \in Nat /\ MaxLine \in Nat /\ Chunk \in Nat
    BY <1>2, ValidLength, HttpAssumption DEF IsRequest, BodyLength
  <1>4. taken \in Nat /\ arrived \in Nat /\ taken <= arrived
    BY <1>2 DEF Types
  <1>5. taken' \in 0..arrived /\ taken' - BodyLength = taken
    BY <1>1, <1>3, <1>4
  <1>6. arrived - taken' < MaxLine + Chunk \/ arrived - taken' <= MaxRequest + Chunk
    <2>1. arrived - taken < MaxLine + Chunk \/ arrived - taken <= MaxRequest + Chunk
      BY <1>2 DEF Types
    <2> QED
      BY <1>1, <1>3, <1>4, <2>1
  <1>7. Types'
    BY <1>1, <1>2, <1>5, <1>6 DEF Types, Outcomes
  <1>8. IsRequest(taken - BodyLength, method, declared)'
    <2>1. (taken - BodyLength)' = taken
      BY <1>1, <1>5 DEF BodyLength
    <2>2. PICK t : t = taken
      OBVIOUS
    <2>3. IsRequest(t, method, declared)' <=> IsRequest(t, method, declared)
      BY <1>1 DEF IsRequest, IsHead, IsLine, IsBlank, Characters, Methods, Lengths,
         LengthLines, Valid
    <2>4. IsRequest(t, method, declared)'
      BY <1>2, <2>2, <2>3
    <2>5. IsRequest(taken - BodyLength, method, declared)' <=> IsRequest(t, method, declared)'
      BY <2>1, <2>2 DEF IsRequest, IsHead, IsLine, IsBlank, Characters, Methods, Lengths,
         LengthLines
    <2> QED
      BY <2>4, <2>5
  <1>9. Server'
    BY <1>1, <1>8 DEF Server
  <1> QED
    BY <1>1, <1>2, <1>7, <1>9 DEF HInv

LEMMA ReaderInductive == HInv /\ [Next]_vars => HInv'
  <1> SUFFICES ASSUME HInv, [Next]_vars PROVE HInv'
    OBVIOUS
  <1>1. CASE UNCHANGED vars
    <2>1. UNCHANGED <<side, sent, arrived, taken, pc, total, method, declared>>
      BY <1>1 DEF vars
    <2> QED
      BY <2>1, SameServer DEF HInv, Types, Client
  <1>2. CASE Next
    BY <1>2, ConnectionSteps, StartStep, RefuseStep, HeaderStep, HeadStep, BodyStep DEF Next
  <1> QED
    BY <1>1, <1>2

LEMMA ReaderInvariance == Spec => []HInv
  BY InitialReader, ReaderInductive, PTL DEF Spec

-----------------------------------------------------------------------------
(* The theorems.                                                           *)

\* No peer makes the buffer of a reader grow beyond a limit and one chunk, whatever it
\* sends and in whatever pieces (httpio.py:57-74).
THEOREM BufferBounded == Spec => []TypeOK
  <1>1. HInv => TypeOK
    BY DEF HInv, Types, TypeOK
  <1> QED
    BY <1>1, ReaderInvariance, PTL

\* However a stream is cut into chunks and whatever the limits are: a request that is
\* handed on is the one that was sent, a request that is refused was to be refused, and a
\* reply is whole and within its limit.
THEOREM ChunksDoNotMatter == Spec => []ReadsRight
  <1>1. HInv => ReadsRight
    <2> SUFFICES ASSUME HInv PROVE ReadsRight
      OBVIOUS
    <2>1. Types /\ taken \in Nat /\ arrived \in Nat /\ taken <= arrived
      BY DEF HInv, Types
    <2>2. CASE side = "server"
      BY <2>1, <2>2 DEF HInv, Server, ReadsRight
    <2>3. CASE side = "client"
      <3>1. Client
        BY <2>3 DEF HInv
      <3>2. MaxRequest \in Nat /\ Len(sent) \in Nat /\ arrived \in 0..Len(sent)
        BY HttpAssumption DEF HInv, Types
      <3>3. PICK n \in Nat : n = Len(sent)
        BY <3>2
      <3>4. pc = "whole" => arrived = Len(sent) /\ n <= MaxRequest
        BY <3>1, <3>2, <3>3 DEF Client
      <3>5. pc = "refused" => n > MaxRequest
        BY <3>1, <3>2, <3>3 DEF Client
      <3> QED
        BY <2>3, <3>1, <3>3, <3>4, <3>5 DEF Client, ReadsRight
    <2> QED
      BY <2>1, <2>2, <2>3 DEF Types
  <1> QED
    BY <1>1, ReaderInvariance, PTL

\* A server that waits has no request: a client that sent one may wait for the reply.
THEOREM NoDeadWait == Spec => []NeverWaitsInVain
  <1>1. HInv => NeverWaitsInVain
    BY Waiting DEF NeverWaitsInVain
  <1> QED
    BY <1>1, ReaderInvariance, PTL
=============================================================================
