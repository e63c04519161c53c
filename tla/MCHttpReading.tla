---------------------------- MODULE MCHttpReading ----------------------------
(* Requests with each kind of line, and every way to cut them short.        *)
EXTENDS HttpReading

CONSTANTS o, c, k, Text, Words, None, Letters, Superscript

End(m, f, v) == [method |-> m, field |-> f, value |-> v]
Get == End("GET", "other", None)
Two == End(Words, "length", 2)
Post == End("POST", "other", None)
Ends == {Get, Two, Post, End(Text, "other", None),
         End(Words, "colonless", None), End(Words, "length", 0), End(Words, "length", 3),
         End(Words, "length", Letters), End(Words, "length", Superscript)}

Starts == {<<o, Get>>, <<o, k, c, Post>>, <<o, o, o, o, Get>>, <<Two>>,
           <<o, End(Text, "other", None)>>}
Headers == {<<o, l>> : l \in Ends} \cup {<<o, o, c, Two>>, <<c, c, c, c, Two>>}
Pairs == {g \o h : g, h \in {<<o, Get>>, <<o, o, Two>>, <<c, o, Two>>,
                             <<o, End(Words, "length", 0)>>, <<o, End(Words, "length", 3)>>,
                             <<o, End(Words, "length", Letters)>>}}
Heads == {s \o t \o b : s \in Starts, t \in {<<>>} \cup Headers \cup Pairs,
                        b \in {<<Get>>, <<c, Two>>}}
Bodies == {<<o>>, <<Two, o>>, <<o, o, o, o, o>>}
Requests == {h \o b : h \in Heads, b \in Bodies}
Prefixes == UNION {{SubSeq(s, 1, n) : n \in 0..Len(s)} : s \in Requests}
=============================================================================
