\* The prelude of recording_session against a collar that accepts it.
CONSTANTS
    u1 = u1
    u2 = u2
    ub = ub
    NoUid = NoUid
    Uids <- MCUids
    IterUid <- MCIterUid
    Iterations = 2
    MaxRecords = 2
    AllowNack = FALSE
    InitRecording = {NoUid}
    InitStored = {}
    BypassModes = {FALSE}
    BypassUid = u1
    Timely = TRUE
    AllowLinkLoss = FALSE
    MaxInbox = 1
SPECIFICATION Spec
\* The script ends (done or crashed) and nothing runs after it.
CHECK_DEADLOCK FALSE
INVARIANT PositionKept
