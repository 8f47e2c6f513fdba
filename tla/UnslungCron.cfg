\* rc.unslung and single starts for cron at the same time: scripts that fail, are disabled, have
\* no binary or are sourced; launches and shutdowns as slow as they like
SPECIFICATION UFairSpec
CONSTANTS
    Services <- Scripts
    Procs <- SingleProcs
    Enabled <- TwoScripts
    Critical <- OneScript
    Callers = {boot, c2}
    Boot = boot
    Requests <- CronStarts
    Runs <- StartOrError
    Digits <- DigitsOf
    Rest <- RestOf
    Sourced <- OneScript
    Executable <- Scripts
    Missing <- MidScript
    Pids = {p1, p2}
    LIMIT = 0
    Timely = FALSE
    MaxCrashes = 1
PROPERTIES BootStartsServices RunVisitsAll RunEnds ScriptsEnd
