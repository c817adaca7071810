SPECIFICATION Spec
CONSTANTS
    Leader = leader
    Descendants = {child}
    MaxBytes = 4
    ChunkBytes = 2
    PipeBytes = 1
    OutputBytes <- MCOutputBytes
    Platforms = {"posix"}
INVARIANT
    ReturnedMeansComplete
