SPECIFICATION Spec
CONSTANTS
    Paths <- MCPaths
    ExcludedNames = {2}
    Files <- MCFiles
    Trees <- MCTrees
    Denials <- MCDenials
    MaxEdits = 2
    Content <- MCContent
    Requests <- MCRequests
    None = None
    ConfiguredOutputBytes = 5
INVARIANTS
    TypeOK
    OutputIsBounded
    QuietSearchIsExact
    StableMatchesAreFound
    MatchesAreOrdered
