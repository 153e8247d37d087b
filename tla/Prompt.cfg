SPECIFICATION FairSpec
CONSTANTS
    WordBits = 2
    List <- MCList
    MinBits = 5
    MaxBits = 10
    Sha256 <- MCSha256
    WantWords = 3
    Chunks <- MCChunks
    Letters <- MCLetters
    Lower <- MCLower
    MaxTyped = 3
    Attempts = 2
    Lines <- MCLines
    MaxLines = 4
    PasswordLine <- MCPassword
    Right <- MCRight
    None = None
\* The program ends.
CHECK_DEADLOCK FALSE
INVARIANTS
    TypeOK
    LinesReachTheirPrompt
    PhraseIsCanonical
    EditorInStep
PROPERTIES
    AcceptsWhatIsShown
    CursorKeysDoNothing
    EndOfInputEnds
