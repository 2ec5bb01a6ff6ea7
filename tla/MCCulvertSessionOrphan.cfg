\* The script against a collar that may refuse commands and a link that may
\* fail: what is left recording when the script ends.
CONSTANTS
    u1 = u1
    u2 = u2
    ub = ub
    NoUid = NoUid
    Uids <- MCUids
    IterUid <- MCIterUid
    Iterations = 2
    MaxRecords = 2
    AllowNack = TRUE
    InitRecording = {NoUid}
    InitStored = {}
    BypassModes = {FALSE}
    BypassUid = u1
    Timely = TRUE
    AllowLinkLoss = TRUE
    MaxInbox = 1
SPECIFICATION Spec
\* The script ends (done or crashed) and nothing runs after it.
CHECK_DEADLOCK FALSE
INVARIANT NoOrphanRecording
