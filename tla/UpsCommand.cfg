\* a command that is not carried out
SPECIFICATION Spec
CONSTANTS
    Tools = {t1}
    Invocations <- Commands
    Kernel = kernel
    Nobody = nobody
    Dummies = 1
    Reports = 1
    HasAttach = TRUE
    MaxUnplugs = 0
INVARIANT OKMeansDone
