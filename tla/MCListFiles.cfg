SPECIFICATION Spec
CONSTANTS
    Paths <- MCPaths
    ExcludedNames = {2}
    Files = {"file"}
    Trees <- MCTrees
    Denials <- MCDenials
    MaxEdits = 2
    Requests <- MCRequests
INVARIANTS
    TypeOK
    QuietListingIsExact
    StableEntriesAreListed
    EntriesAreOrdered
