\* The script, run with and without --bypass, against a collar that may be
\* recording session ub at power-on, may refuse commands, over a link that
\* may fail; every reply is in place before it is read.
CONSTANTS
    u1 = u1
    u2 = u2
    ub = ub
    NoUid = NoUid
    Uids <- MCAllUids
    IterUid <- MCIterUid
    Iterations = 2
    MaxRecords = 2
    AllowNack = TRUE
    InitRecording = {NoUid, ub}
    InitStored = {}
    BypassModes = {FALSE, TRUE}
    BypassUid = ub
    Timely = TRUE
    AllowLinkLoss = TRUE
    MaxInbox = 1
SPECIFICATION Spec
INVARIANT DrainMatchesDevice
\* The script ends (done or crashed) and nothing runs after it.
CHECK_DEADLOCK FALSE
