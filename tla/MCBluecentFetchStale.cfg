\* M1_Demo_record_Fetch.py: a stored session; the collar answers
\* after the 100 ms sleep.
CONSTANTS
    s1 = s1
    s2 = s2
    NoUid = NoUid
    Uids <- MCUids
    Scripts = {"m1_fetch"}
    SesUidOf <- MCSesUidOf
    MaxRecords = 2
    AllowNack = FALSE
    InitRecording = {NoUid}
    InitStored = {s1}
    Timely = FALSE
    MaxInbox = 2
SPECIFICATION Spec
\* The script ends (done or crashed) and nothing runs after it.
CHECK_DEADLOCK FALSE
INVARIANT FetchedInOrder
