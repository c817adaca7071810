SPECIFICATION FairSpec
CONSTANTS
    Leader = leader
    Descendants = {child}
    MaxBytes = 1
    ChunkBytes = 2
    PipeBytes = 1
    OutputBytes <- MCOutputBytes
    Platforms = {"posix", "nogroup", "windows"}
INVARIANTS
    TypeOK
    CaptureIsBoundedPrefix
    EofMeansComplete
    FullPipeIsDrained
PROPERTIES
    SignalsOnlyWhileUnreaped
    ImplementsContract
    LeaderIsReaped
    EscalationEndsGroup
    ReturnsOnceReleased
