\* three segments, requests and bodies longer than a buffer, an old library
SPECIFICATION FairSpec
CONSTANTS
    SIZE = 3
    ATTEMPTS = 3
    FlushChecks = FALSE
    NumSegments = 3
    RequestLen = 5
    BodyLen = 7
INVARIANTS RelayInv NothingLost AnswersRequest
PROPERTIES Delivers RelayEnds
