SPECIFICATION FairSpec
CONSTANTS
    Streams <- MCStreams
    MaxBuffers <- MCMaxBuffers
    Abandonable = {"preview"}
    Changes <- MCChanges
    MaxCaptures = 1
    NULL = NULL
INVARIANTS BooksAgree RemovedOwnsNothing
PROPERTIES QuiescingConfigures GoneIsEmptied
