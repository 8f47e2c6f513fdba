\* two tools, run in any way, on a UPS that may be unplugged
SPECIFICATION FairSpec
CONSTANTS
    Tools = {t1, t2}
    Invocations <- AnyRun
    Kernel = kernel
    Nobody = nobody
    Dummies = 2
    Reports = 2
    HasAttach = TRUE
    MaxUnplugs = 1
INVARIANTS UpsInv ExitZeroAlone DriverComesBack
PROPERTIES ToolsEnd
