CONSTANTS
    o = o
    c = c
    k = k
    Text = Text
    Words = Words
    None = None
    Letters = Letters
    Superscript = Superscript
    Streams <- Prefixes
    NewLines <- Ends
    Other <- o
    CR <- c
    Cont <- k
    NotText <- Text
    NotWords <- Words
    Absent <- None
    NotDigits <- Letters
    NotANumber <- Superscript
    MaxLine = 4
    MaxHeader = 4
    MaxRequest = 2
    Chunk = 3
SPECIFICATION Spec
INVARIANTS TypeOK ReadsRight NeverWaitsInVain
CHECK_DEADLOCK FALSE
