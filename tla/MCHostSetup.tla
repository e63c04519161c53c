----------------------------- MODULE MCHostSetup -----------------------------
EXTENDS HostSetup

CONSTANTS a, b, c, t1, t2, main, work, lab, spare

MCFiles == {main, work, lab, spare}

UpTo2(items) == {<<>>} \cup {<<x>> : x \in items} \cup {<<x, y>> : x \in items, y \in items}

\* The main file includes others, with a block of version 1 or without; a file it
\* includes can include it, and a chain of four files is too deep.
MainItems == {Host(a), Host(b), Include(main), Include(work), Include(lab)}
Around == {Host(a), Include(work)}
Blocks == {<<Start, x, End, y>> : x \in Around, y \in Around}
          \cup {<<x, Start, Include(spare), End, y>> : x \in Around, y \in Around}
          \cup {<<Start, Host(c), End, x, Start, End, Host(b)>> : x \in Around}
          \cup {<<Host(b), Start, x>> : x \in Around}
WorkItems == {Host(a), Host(b), Include(main), Include(lab), Refuse}
LabTexts == {<<>>, <<Host(c)>>, <<Include(spare)>>, <<Include(main)>>, <<Host(a), Include(spare)>>}
SpareTexts == {<<>>, <<Include(work)>>}

MCTrees ==
    {[text |-> [f \in MCFiles |->
                   CASE f = main -> m [] f = work -> w [] f = lab -> l [] f = spare -> s],
      unsafe |-> u] :
        m \in UpTo2(MainItems) \cup Blocks, w \in UpTo2(WorkItems), l \in LabTexts,
        s \in SpareTexts, u \in {{}, {work}, {spare}}}

\* Settings that are good, bad, empty, and given twice, among comments and keys of
\* the user's own.
Line(k, v) == [key |-> k, val |-> v]
MCLines == {Line("PORT", <<"9000">>), Line("PORT", <<"+9000">>), Line("PORT", <<"junk">>), Line("PORT", <<>>),
            Line("TOKEN", <<t1>>), Line("TOKEN", <<"junk">>), Line("TOKEN", <<>>),
            Line("BIND", <<"other">>), Line("TUNNEL", <<"0">>), Line("DRY_RUN", <<"1">>),
            Line("CODE_BIN", <<"codium">>), Line("ALLOWED_HOSTS", <<b, c>>),
            Line("MINE", <<"word">>), Line(Plain, <<>>)}
MCEnvTexts == UpTo2(MCLines)
              \cup {<<x, Line("PORT", <<"9000">>), y>> : x, y \in {l \in MCLines : l.key \in {"PORT", "TOKEN", Plain}}}

MCEnvironments == {<<>>} \cup {[k \in {"PORT"} |-> <<p>>] : p \in {"9001", "+9000"}}
=============================================================================
