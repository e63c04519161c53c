---------------------------- MODULE HttpReading ----------------------------
(***************************************************************************)
(* Reading a request, or a reply, from a socket that delivers it in chunks *)
(* of any size (remote_code_bridge/httpio.py, read_request() of server.py, *)
(* call() of client.py).                                                   *)
(*                                                                         *)
(* What a line says is data: a newline carries what the decoding of its    *)
(* line would find, as a start line (method) and as a header (field,       *)
(* value).  Bytes differ only where lengths do: \r, a byte of a UTF-8      *)
(* character after its first, and any other.  The buffer is what has       *)
(* arrived and was not taken: sent[taken + 1] to sent[arrived].            *)
(***************************************************************************)
EXTENDS Integers, Sequences, FiniteSets

CONSTANTS
    Streams,        \* what a peer may send before it ends its side
    Other, CR, Cont, NewLines,                  \* bytes
    NotText, NotWords,      \* start lines: not UTF-8, not three words
    Absent, NotDigits, NotANumber,  \* a Content-Length that is no number;
                            \* the last is one of isdigit() that int() rejects
    MaxLine, MaxHeader, MaxRequest, Chunk

ASSUME HttpAssumption ==
    /\ {Other, CR, Cont} \cap NewLines = {} /\ Other # CR /\ Cont # CR
    /\ \A s \in Streams : s \in Seq({Other, CR, Cont} \cup NewLines)
    /\ {Absent, NotDigits, NotANumber} \cap Nat = {}
    /\ {MaxLine, MaxHeader, MaxRequest, Chunk} \subseteq Nat \ {0}

VARIABLES
    side,               \* "server" reads a request, "client" a reply
    sent, arrived, taken,
    pc, total,          \* the reader's step or outcome, read_head()'s `total`
    method, declared    \* of the start line; headers.get("content-length")

vars == <<side, sent, arrived, taken, pc, total, method, declared>>

Reading == {"start", "header", "body", "reply"}
Outcomes == {"request", "whole", "refused", "raised", "failed"}

\* No peer makes the buffer grow beyond a limit and one chunk (httpio.py:57-74).
TypeOK ==
    /\ side \in {"server", "client"}
    /\ arrived \in 0..Len(sent) /\ taken \in 0..arrived
    /\ pc \in Reading \cup Outcomes
    /\ total \in Nat
    /\ \/ arrived - taken < MaxLine + Chunk
       \/ arrived - taken <= MaxRequest + Chunk

Init ==
    /\ side \in {"server", "client"} /\ sent \in Streams
    /\ arrived = 0 /\ taken = 0
    /\ pc = IF side = "server" THEN "start" ELSE "reply"
    /\ total = 0 /\ method = NotWords /\ declared = Absent

-----------------------------------------------------------------------------
(* DeadlineReader.                                                         *)

\* Mutant: the newline is looked for in the whole buffer.
EndAnywhere(r) ==
    /\ r \in taken + 1..arrived /\ sent[r] \in NewLines
    /\ \A i \in taken + 1..r - 1 : sent[i] \notin NewLines
\* The buffer's next line ends at r.
EndsAt(r) ==
    /\ r \in taken + 1..arrived /\ r <= taken + MaxLine /\ sent[r] \in NewLines
    /\ \A i \in taken + 1..r - 1 : sent[i] \notin NewLines

HasLine == \E r \in 1..Len(sent) : EndsAt(r)
InHead == pc \in {"start", "header"}
LengthOf(d) == IF d = Absent THEN 0 ELSE d
BodyLength == LengthOf(declared)

\* Mutant: one byte too many is waited for.
NeedsOneMore ==
    \/ InHead /\ ~HasLine /\ arrived - taken < MaxLine
    \/ pc = "body" /\ arrived - taken <= BodyLength
    \/ pc = "reply"
NeedsMore ==
    \/ InHead /\ ~HasLine /\ arrived - taken < MaxLine
    \/ pc = "body" /\ arrived - taken < BodyLength
    \/ pc = "reply"

\* Mutant: the limit on a reply is left to its end.
FillUnlimited ==
    /\ NeedsMore
    /\ \E n \in 1..Chunk : arrived + n <= Len(sent) /\ arrived' = arrived + n
    /\ UNCHANGED <<side, sent, taken, pc, total, method, declared>>
\* recv() returns some of what was sent.
Fill ==
    /\ NeedsMore
    /\ \E n \in 1..Chunk : arrived + n <= Len(sent) /\ arrived' = arrived + n
    /\ pc' = IF pc = "reply" /\ arrived' > MaxRequest THEN "refused" ELSE pc
    /\ UNCHANGED <<side, sent, taken, total, method, declared>>

\* recv() returns nothing: the end of a reply, an error in a request.
EndOfStream ==
    /\ NeedsMore /\ arrived = Len(sent)
    /\ pc' = IF pc = "reply" THEN "whole" ELSE "refused"
    /\ UNCHANGED <<side, sent, arrived, taken, total, method, declared>>

\* The deadline passes, or the connection is lost.
GiveUp ==
    /\ NeedsMore /\ pc' = "failed"
    /\ UNCHANGED <<side, sent, arrived, taken, total, method, declared>>

LineTooLong ==
    /\ InHead /\ ~HasLine /\ arrived - taken >= MaxLine
    /\ pc' = "refused"
    /\ UNCHANGED <<side, sent, arrived, taken, total, method, declared>>

-----------------------------------------------------------------------------
(* read_head(), read_request() and read_body().                            *)

\* What rstrip(b"\r") leaves of the line between the newlines at q and r.
Stripped(q, r) == {i \in q + 1..r - 1 : \E j \in i..r - 1 : sent[j] # CR}

ReadStart(r) ==
    /\ pc = "start" /\ EndsAt(r) /\ taken' = r
    /\ method' = sent[r].method
    /\ total' = Cardinality({i \in Stripped(taken, r) : sent[i] # Cont})
    /\ pc' = IF method' = NotText THEN "refused" ELSE "header"
    /\ UNCHANGED <<side, sent, arrived, declared>>

Line(r) ==
    /\ pc = "header" /\ EndsAt(r) /\ taken' = r
    /\ total' = total + Cardinality(Stripped(taken, r))
    /\ UNCHANGED <<side, sent, arrived, method>>

RefuseHeader(r) ==
    /\ Line(r)
    /\ \/ total' > MaxHeader
       \/ Stripped(taken, r) # {} /\ sent[r].field = "colonless"
    /\ pc' = "refused" /\ UNCHANGED declared

\* A header that is there again replaces the one before.
ReadHeader(r) ==
    /\ Line(r)
    /\ total' <= MaxHeader /\ Stripped(taken, r) # {} /\ sent[r].field # "colonless"
    /\ declared' = IF sent[r].field = "length" THEN sent[r].value ELSE declared
    /\ UNCHANGED pc

Valid(m, d) ==
    /\ m # NotWords
    /\ \/ d = Absent /\ m = "GET"
       \/ d \in 0..MaxRequest /\ ~(m = "POST" /\ d = 0)

EndHead(r) ==
    /\ Line(r)
    /\ total' <= MaxHeader /\ Stripped(taken, r) = {}
    /\ pc' = IF Valid(method, declared) THEN "body"
             ELSE IF method # NotWords /\ declared = NotANumber THEN "raised"
             ELSE "refused"
    /\ UNCHANGED declared

ReadBody ==
    /\ pc = "body" /\ arrived - taken >= BodyLength
    /\ taken' = taken + BodyLength /\ pc' = "request"
    /\ UNCHANGED <<side, sent, arrived, total, method, declared>>

Next ==
    \/ Fill \/ EndOfStream \/ GiveUp \/ LineTooLong \/ ReadBody
    \/ \E r \in 1..Len(sent) :
          ReadStart(r) \/ RefuseHeader(r) \/ ReadHeader(r) \/ EndHead(r)

Spec == Init /\ [][Next]_vars

-----------------------------------------------------------------------------
(* A reference: which requests are there, without a reader.                *)

IsLine(q, r) ==
    /\ q < r /\ (q = 0 \/ sent[q] \in NewLines) /\ sent[r] \in NewLines
    /\ \A i \in q + 1..r - 1 : sent[i] \notin NewLines
IsBlank(q, r) == IsLine(q, r) /\ \A i \in q + 1..r - 1 : sent[i] = CR

\* The characters of the first p bytes without those that end a line.
Characters(p) ==
    {i \in 1..p : /\ \E j \in i..p : sent[j] # CR /\ \A k \in i..j : sent[k] \notin NewLines
                  /\ sent[i] = Cont => \E q \in 1..i : sent[q] \in NewLines}

LengthLines(p) ==
    {r \in 1..p - 1 : sent[r] \in NewLines /\ sent[r].field = "length"
                      /\ \E q \in 1..r - 1 : sent[q] \in NewLines}

\* The first p bytes are a head: up to the first blank line after the start line.
IsHead(p) ==
    /\ \E q \in 1..p : IsBlank(q, p)
    /\ \A q, r \in 1..p : IsLine(q, r) /\ r < p =>
           ~IsBlank(q, r) /\ sent[r].field # "colonless"
    /\ \A q \in 0..p, r \in 1..p : IsLine(q, r) => r - q <= MaxLine
    /\ Cardinality(Characters(p)) <= MaxHeader

\* What its first line says, and its last Content-Length.
Methods(p) == {sent[r].method : r \in {r \in 1..p : IsLine(0, r)}}
Lengths(p) ==
    IF LengthLines(p) = {} THEN {Absent}
    ELSE {sent[r].value : r \in {r \in LengthLines(p) : \A s \in LengthLines(p) : s <= r}}

IsRequest(p, m, d) ==
    IsHead(p) /\ m \in Methods(p) \ {NotText} /\ d \in Lengths(p) /\ Valid(m, d)

\* The first n bytes begin with a request that is to be carried out.
Accepts(n) ==
    \E p \in 1..n : \E m \in Methods(p), d \in Lengths(p) :
        IsRequest(p, m, d) /\ p + LengthOf(d) <= n

\* What is made of a request depends on its bytes and not on how they arrive: one
\* that is handed on is what was sent, one that is refused is not to be carried out
\* (httpio.py:57-109), and the same for a reply and its limit.
ReadsRight ==
    /\ pc = "request" => IsRequest(taken - BodyLength, method, declared) /\ taken <= arrived
    /\ side = "server" /\ pc \in {"refused", "raised"} => ~Accepts(Len(sent))
    /\ pc = "whole" => arrived = Len(sent) /\ Len(sent) <= MaxRequest
    /\ side = "client" /\ pc = "refused" => Len(sent) > MaxRequest

\* A client that has sent a request waits for the reply with its connection open
\* (client.py:83): the server never waits for more than the request.
NeverWaitsInVain == side = "server" /\ NeedsMore => ~Accepts(arrived)
=============================================================================
