SPECIFICATION Spec
CONSTANTS
    Calls = {c1, c2}
    Requests <- MCTwoRequests
    Blocks = {"a", "b", "c", "d", "nul"}
    Nul = "nul"
    Modes = {"private"}
    TempMode = "private"
    InitialTexts <- MCTwoBlocks
    EditorTexts <- MCNoTexts
    MaxFileBytes = 3
    MaxEdits = 0
    MaxOutages = 0
    NoFile = NoFile
    Torn = Torn
PROPERTY
    PatchesTheCurrentText
