SPECIFICATION Spec
CONSTANTS
    Calls = {c1, c2}
    Requests <- MCRequests
    Blocks = {"a", "b", "c", "nul"}
    Nul = "nul"
    Modes = {"private", "shared"}
    TempMode = "private"
    InitialTexts <- MCInitialTexts
    EditorTexts <- MCEditorTexts
    MaxFileBytes = 3
    MaxEdits = 2
    MaxOutages = 1
    NoFile = NoFile
    Torn = Torn
INVARIANTS
    TypeOK
    TargetIsWhole
    NoLitter
PROPERTIES
    UndisturbedPatchIsExact
    ImplementsPatchedFile
