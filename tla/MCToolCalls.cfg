SPECIFICATION Spec
CONSTANTS
    NoCount = NoCount
    Marker <- MCMarker
    HostRoots <- MCHostRoots
    SummarySize = 3
    Nodes <- MCNodes
    Settled <- MCSettled
    MaxEdits = 1
    Scenarios <- MCScenarios
    Sample = 2
    ArtifactNames <- MCArtifactNames
INVARIANTS
    TypeOK
    PathVerdictsAreExact
    ConfigurationIsResolved
    CommandsAreApproved
    QuietReadIsExact
    UnflaggedOutputIsComplete
    OutputIsBoundedPrefix
    NoSecretIsShown
