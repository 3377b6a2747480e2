CONSTANTS
    Archive = {backup1}
    MaxCommits = 2
    MaxRestores = 3
SPECIFICATION FilesSpec
INVARIANT NeverStartsHalfRestored
CHECK_DEADLOCK FALSE
