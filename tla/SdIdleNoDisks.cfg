\* bits 26 to 31 are managed disks, too
SPECIFICATION Spec
CONSTANTS
    NumDisks = 2
    WordBits = 3
    Argvs <- ArgvsExclude
    Unparsable <- None
    IDLETIME_MIN = 2
    IDLETIME_DEFAULT = 3
    CHECKTIME_MIN = 1
    CHECKTIME_DEFAULT = 2
    IntMax = 4
    MaxLine = 2
INVARIANT ManagesSomeDisk
