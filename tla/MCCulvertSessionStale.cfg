\* The device may answer after the 100 ms sleep of send_command.
CONSTANTS
    u1 = u1
    u2 = u2
    ub = ub
    NoUid = NoUid
    Uids <- MCUids
    IterUid <- MCIterUid
    Iterations = 2
    MaxRecords = 2
    AllowNack = TRUE
    InitRecording = {NoUid}
    InitStored = {}
    BypassModes = {FALSE}
    BypassUid = u1
    Timely = FALSE
    AllowLinkLoss = TRUE
    MaxInbox = 2
SPECIFICATION Spec
\* The script ends (done or crashed) and nothing runs after it.
CHECK_DEADLOCK FALSE
INVARIANT DrainMatchesDevice
