\* one shell that runs single scripts or rc.unslung; launches and shutdowns
\* end within the wait
SPECIFICATION UFairSpec
CONSTANTS
    Services <- TwoScripts
    Procs <- TwoProcs
    Enabled <- TwoScripts
    Critical <- OneScript
    Callers = {boot}
    Boot = boot
    Requests <- Everything
    Runs <- UserStartStop
    Digits <- TwoDigits
    Rest <- TwoRests
    Sourced <- OneScript
    Executable <- TwoScripts
    Missing <- NoScripts
    Pids = {p1, p2, p3}
    LIMIT = 1
    Timely = TRUE
    MaxCrashes = 1
INVARIANTS OrderInv AtMostOneInstance KeepsOrder
PROPERTIES StopLeavesNone RestartReplaces RefusedRestartStops ScriptsEnd StartedInOrder
