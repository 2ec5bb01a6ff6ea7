\* csv_file.py: a session recorded for 5 s, fetched with timely replies.
CONSTANTS
    s1 = s1
    s2 = s2
    NoUid = NoUid
    Uids <- MCUids
    Scripts = {"csv_file"}
    SesUidOf <- MCSesUidOf
    MaxRecords = 2
    AllowNack = FALSE
    InitRecording = {NoUid}
    InitStored = {}
    Timely = TRUE
    MaxInbox = 1
SPECIFICATION Spec
\* The script ends (done or crashed) and nothing runs after it.
CHECK_DEADLOCK FALSE
INVARIANT FetchComplete
