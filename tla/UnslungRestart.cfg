\* restart of the whole system
SPECIFICATION USpec
CONSTANTS
    Services <- ThreeScripts
    Procs <- ProcsOf
    Enabled <- ThreeScripts
    Critical <- OneScript
    Callers = {boot}
    Boot = boot
    Requests <- NoRequests
    Runs <- UserRestart
    Digits <- ThreeDigits
    Rest <- ThreeRests
    Sourced <- OneScript
    Executable <- ThreeScripts
    Missing <- NoScripts
    Pids = {p1, p2, p3, p4}
    LIMIT = 1
    Timely = TRUE
    MaxCrashes = 0

PROPERTIES StartedInOrder
