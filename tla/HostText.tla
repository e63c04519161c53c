------------------------------ MODULE HostText -------------------------------
(***************************************************************************)
(* The texts the installer edits on the host, and what the bridge reads    *)
(* from them: host.env (config.py) and a marked block in a file of the     *)
(* user's (files.py).                                                      *)
(*                                                                         *)
(* A line of host.env is its key and its value, a value is the words       *)
(* between its commas (<<>> is an empty one), and a dictionary of Python   *)
(* is a function whose domain is its keys.  Blanks around a key or a value *)
(* and the difference between 1, true and yes are left out.                *)
(***************************************************************************)
EXTENDS Naturals, FiniteSets, Sequences, SequencesExt

CONSTANTS
    Ports, Digits,        \* what int() reads as a port, and what is digits alone: not "+9000"
    DefaultPort,          \* 8765
    ValidTokens,          \* what is_valid_token accepts
    Local                 \* 127.0.0.1

ASSUME HostTextAssumption == Digits \subseteq Ports /\ DefaultPort \in Digits

\* The keys the installer writes, in its order.
Managed == <<"BIND", "PORT", "TOKEN", "CODE_BIN", "DEFAULT_HOST", "ALLOWED_HOSTS",
             "DRY_RUN", "TUNNEL", "TUNNEL_ALIAS", "TUNNEL_SOCKET">>
Plain == "plain"   \* the key of a comment, a blank line or a line without `=`

\* The last line of a key counts.
ReadValues(text) ==
    [key \in {l.key : l \in ToSet(text)} \ {Plain} |->
        LET last == CHOOSE i \in DOMAIN text :
                text[i].key = key /\ \A j \in i + 1..Len(text) : text[j].key # key
        IN text[last].val]

\* The elements of s at the positions I, in their order.
Rank(i, I) == Cardinality({j \in I : j <= i})
Pick(s, I) == [k \in 1..Cardinality(I) |-> s[CHOOSE i \in I : Rank(i, I) = k]]

ValueOr(values, key, default) == IF key \in DOMAIN values THEN values[key] ELSE default

\* Mutant: the new lines are added to the old ones.
AppendEnvText(text, values) ==
    text \o [i \in DOMAIN Managed |-> [key |-> Managed[i], val |-> values[Managed[i]]]]

UpdateEnvText(text, values) ==
    Pick(text, {i \in DOMAIN text : text[i].key \notin DOMAIN values})
        \o [i \in DOMAIN Managed |-> [key |-> Managed[i], val |-> values[Managed[i]]]]

\* _Lookup: the environment, then the file; an empty value is none, <<>>.
Lookup(key, values, environment) ==
    IF ValueOr(environment, key, <<>>) # <<>> THEN environment[key]
    ELSE ValueOr(values, key, <<>>)

Flag(raw, default) == IF raw = <<>> THEN default ELSE raw = <<"1">>

ReadHostConfig(text, environment) ==
    LET get(key) == Lookup(key, ReadValues(text), environment)
        port == IF get("PORT") = <<>> THEN <<DefaultPort>> ELSE get("PORT")
        listed == ToSet(get("ALLOWED_HOSTS"))
    IN  [ok |-> /\ get("BIND") \in {<<>>, <<Local>>}
                /\ port \in {<<p>> : p \in Ports}
                /\ get("TOKEN") = <<>> \/ get("TOKEN") \in {<<t>> : t \in ValidTokens},
         port |-> port,
         token |-> get("TOKEN"),
         allowed |-> IF listed = {} THEN ToSet(get("DEFAULT_HOST")) ELSE listed,
         dryRun |-> Flag(get("DRY_RUN"), FALSE),
         tunnel |-> Flag(get("TUNNEL"), TRUE),
         alias |-> IF get("TUNNEL_ALIAS") = <<>> THEN get("DEFAULT_HOST") ELSE get("TUNNEL_ALIAS"),
         socket |-> get("TUNNEL_SOCKET")]

-----------------------------------------------------------------------------
(* replace_block(): whether a block is open after each line, and the rest. *)

\* Mutant: a block ends with the next one, not at its end marker.
InsideLoosely(text, start, end) ==
    LET inside[i \in 0..Len(text)] == i # 0 /\ (text[i] = start \/ inside[i - 1]) IN inside

Inside(text, start, end) ==
    LET inside[i \in 0..Len(text)] ==
            i # 0 /\ (text[i] = start \/ (text[i] # end /\ inside[i - 1]))
    IN inside

KeepOutside(text, start, end) ==
    Pick(text, {i \in DOMAIN text :
                    text[i] \notin {start, end} /\ ~Inside(text, start, end)[i - 1]})

ReplaceBlock(text, start, end, body, atTop) ==
    LET kept == KeepOutside(text, start, end)
        block == IF body = <<>> THEN <<>> ELSE <<start>> \o body \o <<end>>
    IN IF atTop THEN block \o kept ELSE kept \o block

\* A reference: the lines that as many starts as ends come before, of a text in
\* which starts and ends take turns.
StartsBefore(i, text, start) == {j \in 1..i - 1 : text[j] = start}
Balanced(text, start, end) ==
    \A i \in 1..Len(text) + 1 :
        LET open == Cardinality(StartsBefore(i, text, start))
            closed == Cardinality(StartsBefore(i, text, end))
        IN open = closed \/ (open = closed + 1 /\ i <= Len(text))
Outside(text, start, end) ==
    Pick(text, {i \in DOMAIN text :
                    /\ text[i] \notin {start, end}
                    /\ Cardinality(StartsBefore(i, text, start)) =
                       Cardinality(StartsBefore(i, text, end))})
=============================================================================
