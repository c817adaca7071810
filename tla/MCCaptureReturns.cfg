SPECIFICATION FairSpec
CONSTANTS
    Leader = leader
    Descendants = {child}
    MaxBytes = 1
    ChunkBytes = 2
    PipeBytes = 1
    OutputBytes <- MCQuiet
    Platforms = {"posix"}
PROPERTY
    CallReturns
