SPECIFICATION Spec
CONSTANTS
    a = a  b = b  c = c
    t1 = t1  t2 = t2
    main = main  work = work  lab = lab  spare = spare
    Files <- MCFiles
    Main = main
    Aliases = {a, b, c}
    Trees <- MCTrees
    MaxDepth = 2  MaxFiles = 3  MaxAliases = 2
    Ports = {"8765", "9000", "9001", "+9000"}
    Digits = {"8765", "9000", "9001"}
    DefaultPort = "8765"
    ValidTokens = {t1, t2}
    NewToken = t2
    Local = "local"
    Machines = {m, n}
    None = None
    EnvTexts <- MCEnvTexts
    Environments <- MCEnvironments
INVARIANTS TypeOK FoundAll InFileOrder Justified NeverGuesses KeepsSettings LetsIn KeepsLines
PROPERTIES KeepsConfig
