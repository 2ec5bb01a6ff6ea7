\* The script against a collar that accepts every command, over a link that
\* does not fail: the fairness of the script and the device is in force.
CONSTANTS
    u1 = u1
    u2 = u2
    ub = ub
    NoUid = NoUid
    Uids <- MCUids
    IterUid <- MCIterUid
    Iterations = 2
    MaxRecords = 2
    AllowNack = FALSE
    InitRecording = {NoUid}
    InitStored = {}
    BypassModes = {FALSE}
    BypassUid = u1
    Timely = TRUE
    AllowLinkLoss = FALSE
    MaxInbox = 1
SPECIFICATION Spec
\* The script ends (done or crashed) and nothing runs after it.
CHECK_DEADLOCK FALSE
PROPERTY StartedIsStopped
