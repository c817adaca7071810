SPECIFICATION Spec
CONSTANTS
    a = a
    b = b
    old = old
    new = new
    main = main
    Files <- MCFiles
    Contents <- MCContents
    Absent = Absent
    Branches <- MCBranches
    Detached = Detached
    Repositories <- MCRepositories
    AnswerSize = 1
    BranchSize = 2
    LineSize = 1
    SummarySize = 2
    MaxBytes = 2
    MaxEdits = 1
    Executables <- MCExecutables
    Machines <- MCMachines
INVARIANTS
    RepositoryIsRecognised
