SPECIFICATION Spec
CONSTANTS
    MaxJobs = 2
    Folders = {f1, f2}
    FullWalk = FullWalk
    HeldLimit = 1
    Faults = {}
SYMMETRY FolderSymmetry
INVARIANTS
    TypeOK
    AtMostOneUnfinishedJob
    NamedFolderIsKept
