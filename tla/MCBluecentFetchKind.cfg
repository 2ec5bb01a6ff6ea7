\* M1_Demo_record_Fetch.py: a stored session, fetched with timely replies.
CONSTANTS
    s1 = s1
    s2 = s2
    NoUid = NoUid
    Uids <- MCUids
    Scripts = {"m1_fetch"}
    SesUidOf <- MCSesUidOf
    MaxRecords = 2
    AllowNack = FALSE
    InitRecording = {NoUid}
    InitStored = {s1}
    Timely = TRUE
    MaxInbox = 1
SPECIFICATION Spec
\* The script ends (done or crashed) and nothing runs after it.
CHECK_DEADLOCK FALSE
INVARIANT FetchComplete
