SPECIFICATION Spec
CONSTANTS
    WordBits = 2
    Letters <- MCLetters
    List <- MCList
    MinBits = 5
    MaxBits = 10
    Sha256 <- MCSha256
    Byte <- MCByte
    PutUint64 <- MCPut
    Uint64 <- MCGet
    TrailerLen = 2
    PutUint32 <- MCPut
    Uint32 <- MCGet
    LenLen = 2
    SaltLen = 1
    MaxLen = 8
    Segments <- MCSegments
    Dotted = {"index.html", "app.js"}
    Key = "key"
    NotFound = NotFound
    OsArch <- MCOsArch
    Hash <- MCHash
    Entropies <- MCEntropies
    Stubs <- MCStubs
    Payloads <- MCPayloads
    Binaries <- MCBinaries
    Vaults <- MCVaults
    Wardens <- MCWardens
    Trees <- MCTrees
    Served <- MCServed
    Paths <- MCPaths
    Releases <- MCReleases
    Marks <- MCMarks
\* One input, and the end.
CHECK_DEADLOCK FALSE
INVARIANTS
    SpokenPhraseIsDecoded
    SealedIsReadBack
    OnlySealedIsRead
    FieldsAreKept
    DirectoriesAreSealed
    FilesHaveAddresses
    AnswersWereAskedFor
    ReleasesAreFetched
