------------------------------ MODULE HostSetup ------------------------------
(***************************************************************************)
(* install(): from the SSH configuration to the settings of the host.      *)
(*                                                                         *)
(* The aliases are read (Discovery), the remotes are asked what they are   *)
(* and one is chosen, host.env is brought up to date (HostText), and what  *)
(* version 1 left in the SSH configuration is removed.  The order in which *)
(* the two machines and the service are changed is Lifecycle's.            *)
(***************************************************************************)
EXTENDS Discovery, HostText

CONSTANTS
    Machines,      \* what hostname, user and port can name
    None,          \* nothing: `ssh -G` cannot resolve the alias, no alias is chosen
    EnvTexts,      \* what host.env can hold before
    Environments,  \* the environments a bridge can be started in
    NewToken       \* what generate_token returns

\* Tokens are not words of another kind, and a new one is new.  An environment sets
\* nothing that the remote was given, and its port is a port.
ASSUME HostSetupAssumption ==
    /\ None \notin Machines \cup Aliases /\ Aliases \cap Machines = {}
    /\ NewToken \in ValidTokens
    /\ \A text \in EnvTexts : /\ text \in Seq(ToSet(text))
                             /\ \A l \in ToSet(text) : NewToken \notin ToSet(l.val)
    /\ \A environment \in Environments :
          /\ DOMAIN environment \subseteq {"PORT", "CODE_BIN", "DRY_RUN", "TUNNEL"}
          /\ "PORT" \in DOMAIN environment => environment["PORT"] \in {<<p>> : p \in Ports}

VARIABLES
    pc,                \* the next step
    answers,           \* what each alias answers, once asked
    how,               \* how the remote was chosen: named, found or asked
    target, allowed,   \* the remote, and every alias of it
    before, env,       \* host.env before and after
    given              \* the alias and the token the remote was given

choiceVars == <<answers, how, target, allowed>>
textVars == <<before, env, given>>
vars == <<discoveryVars, pc, choiceVars, textVars>>

Answer == [probe : {"down", "other", "old", "linux"}, machine : Machines \cup {None}]

TypeOK ==
    /\ DiscoveryTypeOK
    /\ pc \in {"read", "choose", "chosen", "leftovers", "done", "failed"}
    /\ how \in {"no", "named", "found", "asked"}
    /\ target \in Aliases \cup {None} /\ allowed \in Seq(Aliases)
    /\ given \in {None} \cup [alias : Aliases, token : ValidTokens]

Init ==
    /\ DiscoveryInit
    /\ pc = "read" /\ answers = <<>> /\ how = "no" /\ target = None /\ allowed = <<>>
    /\ before = <<>> /\ env = <<>> /\ given = None

-----------------------------------------------------------------------------

Read == pc = "read" /\ DiscoveryNext /\ UNCHANGED <<pc, choiceVars, textVars>>

\* discover_aliases() returns; of the SSH configuration only a main file with a
\* block of version 1 is read again.
HandOver ==
    /\ pc = "read" /\ outcome = "ok" /\ pc' = "choose" /\ outcome' = "used"
    /\ tree' = [text |-> [f \in Files |-> IF f = Main /\ Start \in ToSet(tree.text[f])
                                          THEN tree.text[f] ELSE <<>>],
                unsafe |-> {}]
    /\ seen' = {} /\ UNCHANGED <<stack, aliases, choiceVars, textVars>>

\* discover_aliases() raised.
NotRead ==
    /\ pc = "read" /\ outcome \notin {"reading", "ok"} /\ pc' = "failed"
    /\ UNCHANGED <<discoveryVars, choiceVars, textVars>>

\* Mutant: two aliases that `ssh -G` cannot resolve are one machine.
MachineOrNone(a, said) == said[a].machine
\* identity(alias) or alias
MachineOf(a, said) == IF said[a].machine = None THEN a ELSE said[a].machine

Linux(a, said) == said[a].probe \in {"linux", "old"}

\* The first alias of each machine that runs Linux, in the order of the aliases.
OnePerMachine(said) ==
    {a \in ToSet(aliases) :
        Linux(a, said) /\ \A b \in ToSet(aliases) :
            Linux(b, said) /\ MachineOf(b, said) = MachineOf(a, said)
                => FirstAt(a, aliases) <= FirstAt(b, aliases)}

\* identity(a) = identity(b), where both have one
SameMachine(a, b, said) == said[a].machine # None /\ said[b].machine = said[a].machine

EquivalentAliases(a, said) ==
    <<a>> \o Pick(aliases, {i \in DOMAIN aliases :
                               aliases[i] # a /\ SameMachine(a, aliases[i], said)})

Stop == pc' = "failed" /\ UNCHANGED choiceVars
Take(a, said, way) ==
    IF said[a].probe = "linux"
    THEN /\ pc' = "chosen" /\ answers' = said /\ how' = way
         /\ target' = a /\ allowed' = EquivalentAliases(a, said)
    ELSE Stop

\* check_explicit_alias: it may ask for a password, and then it must not need one.
ChooseNamed(a) ==
    /\ pc = "choose" /\ UNCHANGED <<discoveryVars, textVars>>
    /\ \E said \in [{a} \cup ToSet(aliases) -> Answer] :
          \/ Take(a, said, "named")
          \/ said[a].probe = "linux" /\ Stop

\* discover_target: several machines are a question, or a failure where none can
\* be asked or the answer is no number of one.
ChooseFound ==
    /\ pc = "choose" /\ UNCHANGED <<discoveryVars, textVars>>
    /\ \E said \in [ToSet(aliases) -> Answer] :
          LET choices == OnePerMachine(said) IN
          \/ \E a \in choices : Take(a, said, IF choices = {a} THEN "found" ELSE "asked")
          \/ (\A a \in choices : choices # {a}) /\ Stop

-----------------------------------------------------------------------------

\* Mutant: any token that is there is kept.
TokenUnchecked(existing) ==
    LET token == ValueOr(existing, "TOKEN", <<>>) IN
    IF token # <<>> THEN token ELSE <<NewToken>>

TokenOf(existing) ==
    LET token == ValueOr(existing, "TOKEN", <<>>) IN
    IF token \in {<<t>> : t \in ValidTokens} THEN token ELSE <<NewToken>>

\* Mutant: the port of a file that has one is not looked at.
PortReset(existing) == <<DefaultPort>>

\* isdigit(): a port that the bridge would read, but with a sign, is none here.
PortOf(existing) ==
    LET port == ValueOr(existing, "PORT", <<>>) IN
    IF port \in {<<p>> : p \in Digits} THEN port ELSE <<DefaultPort>>

\* Mutant: a list that is there is kept.
HostsKept(existing) == ValueOr(existing, "ALLOWED_HOSTS", allowed)

\* The list of the file is replaced, also one that the user has changed.
AllowedHosts(existing) == allowed

NewValues(existing, code) ==
    [key \in ToSet(Managed) |->
        CASE key = "BIND" -> <<Local>>
          [] key = "PORT" -> PortOf(existing)
          [] key = "TOKEN" -> TokenOf(existing)
          [] key = "CODE_BIN" -> code
          [] key \in {"DEFAULT_HOST", "TUNNEL_ALIAS"} -> <<target>>
          [] key = "ALLOWED_HOSTS" -> AllowedHosts(existing)
          [] key = "DRY_RUN" -> ValueOr(existing, key, <<"0">>)
          [] key = "TUNNEL" -> ValueOr(existing, key, <<"1">>)
          [] key = "TUNNEL_SOCKET" -> <<"socket">>]

\* find_code: the configured program if it is there, or the one in PATH, or none.
FindCode(existing) == {<<"code">>} \cup ({ValueOr(existing, "CODE_BIN", <<>>)} \ {<<>>})

\* A BIND that is not local or a program that is not found ends it, before the
\* remote is touched; and so does the remote (install_remote), after that.
Configure(text) ==
    LET existing == ReadValues(text) IN
    /\ pc = "chosen" /\ answers' = <<>> /\ how' = "no"
    /\ UNCHANGED <<target, allowed, discoveryVars>>
    /\ \/ /\ ValueOr(existing, "BIND", <<Local>>) = <<Local>>
          /\ \E code \in FindCode(existing) :
                env' = UpdateEnvText(text, NewValues(existing, code))
          /\ given' = [alias |-> target, token |-> TokenOf(existing)[1]]
          /\ before' = text /\ pc' = "leftovers"
       \/ pc' = "failed" /\ UNCHANGED textVars

\* remove_v1_leftovers
RemoveLeftovers ==
    /\ pc = "leftovers" /\ pc' = "done"
    /\ tree' = IF Start \notin ToSet(tree.text[Main]) THEN tree
               ELSE [tree EXCEPT !.text[Main] = ReplaceBlock(@, Start, End, <<>>, FALSE)]
    /\ UNCHANGED <<stack, seen, aliases, outcome, choiceVars, textVars>>

Done == pc \in {"done", "failed"} /\ UNCHANGED vars

Next ==
    \/ Read \/ HandOver \/ NotRead \/ ChooseFound \/ RemoveLeftovers \/ Done
    \/ \E a \in Aliases : ChooseNamed(a)
    \/ \E text \in EnvTexts : Configure(text)

Spec == Init /\ [][Next]_vars

-----------------------------------------------------------------------------

\* A remote that nobody named or picked is the only machine there was to choose,
\* and the aliases that are let in are exactly the known ones of the machine that
\* was chosen: the installer never guesses between machines (install.py:236).
NeverGuesses ==
    pc = "chosen" =>
        /\ how = "found" =>
              \A a \in ToSet(aliases) \ {target} :
                  answers[a].probe \in {"linux", "old"} =>
                      answers[a].machine # None /\ answers[a].machine = answers[target].machine
        /\ \A a \in (DOMAIN answers) \ {target} :
              a \in ToSet(allowed) <=>
                  answers[a].machine # None /\ answers[a].machine = answers[target].machine

\* "keeps your token, settings" (README.md:78): where a bridge would have started
\* from the old file, what it reads of these settings is what it read before,
\* whatever the order of the lines and however often a key is given.  Only a port
\* of the file that is not digits alone, which the bridge read (config.py:110), is
\* the default after that (install.py:116).
KeepsSettings ==
    pc = "leftovers" =>
        \A environment \in Environments :
            LET old == ReadHostConfig(before, environment)
                new == ReadHostConfig(env, environment)
                kept == "PORT" \in DOMAIN environment \/ old.port \in {<<p>> : p \in Digits}
            IN old.ok => /\ new.port = IF kept THEN old.port ELSE <<DefaultPort>>
                         /\ old.token # <<>> => new.token = old.token
                         /\ new.dryRun = old.dryRun /\ new.tunnel = old.tunnel

\* A bridge can start from what the installer writes, whatever was in the file,
\* and the remote is let in: its alias is one of those allowed, its token is the
\* bridge's, and the tunnel goes to it.
LetsIn ==
    pc = "leftovers" =>
        \A environment \in Environments :
            LET config == ReadHostConfig(env, environment) IN
            /\ config.ok /\ config.token = <<given.token>>
            /\ given.alias \in config.allowed /\ config.allowed = ToSet(allowed)
            /\ config.alias = <<given.alias>>

\* The lines of the user's own.
Own(text) == Pick(text, {i \in DOMAIN text : text[i].key \notin ToSet(Managed)})

\* The user's own lines and comments stay, in their order, and each key of the
\* installer's is there once (config.py:87), so that another run changes nothing.
KeepsLines ==
    pc = "leftovers" =>
        /\ Own(env) = Own(before)
        /\ \A key \in ToSet(Managed) : Cardinality({i \in DOMAIN env : env[i].key = key}) = 1
        /\ \A code \in FindCode(ReadValues(env)) \ {<<"code">>} :
              UpdateEnvText(env, NewValues(ReadValues(env), code)) = env

\* Removing the block of version 1 leaves every other line of the SSH configuration
\* as it was (install.py:282), where each block has its end.
KeepsConfig ==
    [][pc = "leftovers" /\ Balanced(tree.text[Main], Start, End) =>
           tree'.text[Main] = Outside(tree.text[Main], Start, End)]_vars
=============================================================================
