CONSTANTS
    preview = preview
    zsl = zsl
    NULL = NULL
    Streams <- MCStreams
    Type <- MCType
    MaxBuffers <- MCMaxBuffers
    Shapes <- MCShapes
    Settings = {"s1"}
    PartialCount = 1
    MaxFrames = 2

SPECIFICATION FairSpec

INVARIANT CallbacksExpected
INVARIANT EveryFrameAnswered
INVARIANT BuffersConserved
INVARIANT SomethingComes
INVARIANT SettingsAgree
PROPERTY FlushQuiesces
PROPERTY FlushEnds
