SPECIFICATION Spec
CONSTANTS
    Runs = {r1, r2}
    Collects = {k1}
    MaxBlocks = 4
    Limit = 1
    Sample = 3
    MaxOutages = 1
    Hole = Hole
    NoFile = NoFile
    NoRun = NoRun
SYMMETRY Symmetry
INVARIANTS
    TypeOK
    LoneReportIsWhole
    QuietCollectIsExact
    BinaryOnlyByOverlap
