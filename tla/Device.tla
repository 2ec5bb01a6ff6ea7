------------------------------- MODULE Device -------------------------------
(***************************************************************************)
(* The collar as the host scripts see it through the ChekrAppLink GATT     *)
(* service.  The firmware is not in this repository: this module is the    *)
(* environment, written from the protocol description (command table,     *)
(* session lifecycle, ack byte) and kept to what the host code relies on. *)
(*                                                                         *)
(* A command written to the write-without-response characteristic is     *)
(* queued (inbox) and handled later; handling it puts the reply into the  *)
(* read characteristic (rxChar), which keeps its value until the next     *)
(* reply overwrites it.  A read of rxChar returns whatever it holds.       *)
(*                                                                         *)
(* Commands and replies are abstracted to records of the fields the host  *)
(* and device act on: the numeric command code, the start/stop flag, the  *)
(* session uid, a record index and a one-byte value.                      *)
(***************************************************************************)
EXTENDS Integers, Sequences

CONSTANTS
    Uids,           \* session ids (8-byte epoch milliseconds) that occur
    NoUid,          \* model value: no session
    MaxRecords,     \* bound on the records of one kind a session holds
    AllowNack,      \* whether the device may refuse a command (ack # 0x11)
    InitRecording,  \* the sessions the device may be recording at power-on (NoUid: none)
    InitStored      \* finished sessions the device stores at power-on

ASSUME InitRecording \subseteq Uids \cup {NoUid}
ASSUME InitStored \subseteq Uids \ InitRecording

Kinds == {"imu", "act"}

\* Command codes of the ChekrAppLink command table (record.py, misc_cmds.py,
\* epochtime.py).
SET_DOG_COLLAR_POSITION == 4
GET_EPOCH_RTC == 5
SET_EPOCH_RTC == 6
START_STOP_PERIODIC_DASHBOARD == 9
START_STOP_RECORDING_SESSION == 16
READ_DASHBOARD_INFO == 22
SET_DOG_SIZE == 26
DetailsCode == [k \in Kinds |-> IF k = "imu" THEN 17 ELSE 19]
DataCode == [k \in Kinds |-> IF k = "imu" THEN 18 ELSE 20]

Codes == {SET_DOG_COLLAR_POSITION, GET_EPOCH_RTC, SET_EPOCH_RTC,
          START_STOP_PERIODIC_DASHBOARD, START_STOP_RECORDING_SESSION, READ_DASHBOARD_INFO, SET_DOG_SIZE,
          17, 18, 19, 20}

KindOf(code) == IF code \in {17, 18} THEN "imu" ELSE "act"

Command == [code : Codes, flag : 0..1, uid : Uids \cup {NoUid},
            idx : 0..MaxRecords, val : 0..255]

\* A reply: the echoed code, whether the ack byte is 0x11, and the fields
\* the host parses (the session, record index and record count).
Reply == [code : Codes \cup {0}, ok : BOOLEAN, uid : Uids \cup {NoUid},
          idx : 0..MaxRecords, count : 0..MaxRecords]

Cmd(code, flag, u, i, v) == [code |-> code, flag |-> flag, uid |-> u, idx |-> i, val |-> v]
Rsp(code, ok, u, i, n) == [code |-> code, ok |-> ok, uid |-> u, idx |-> i, count |-> n]

\* What rxChar holds before the first reply.
BootValue == Rsp(0, TRUE, NoUid, 0, 0)

VARIABLES
    inbox,      \* commands written and not yet handled, oldest first
    rxChar,     \* the value of the read characteristic
    recording,  \* the session being recorded, or NoUid
    known,      \* sessions the device stores
    count,      \* count[u][k]: records of kind k session u holds
    position    \* the collar position last set

deviceVars == <<inbox, rxChar, recording, known, count, position>>

DeviceTypeOK ==
    /\ inbox \in Seq(Command)
    /\ rxChar \in Reply
    /\ recording \in Uids \cup {NoUid}
    /\ known \subseteq Uids
    /\ count \in [Uids -> [Kinds -> 0..MaxRecords]]
    /\ position \in 0..255

DeviceInit ==
    /\ inbox = <<>>
    /\ rxChar = BootValue
    /\ recording \in InitRecording
    /\ known = InitStored \cup ({recording} \ {NoUid})
    /\ count \in [Uids -> [Kinds -> 0..MaxRecords]]
    /\ \A u \in Uids \ InitStored : count[u] = [k \in Kinds |-> 0]
    /\ position = 0

\* The device handles the oldest queued command and replies to it.
\* Start needs no session in progress; stop names the session in progress;
\* details and data name a stored session, data an index below its count.
DeviceHandle ==
    /\ inbox # <<>>
    /\ LET c == Head(inbox)
           k == KindOf(c.code)
           ack(ok, n) == rxChar' = Rsp(c.code, ok, c.uid, c.idx, n)
       IN  \/ /\ c.code \in {GET_EPOCH_RTC, SET_EPOCH_RTC, START_STOP_PERIODIC_DASHBOARD,
                             READ_DASHBOARD_INFO}
              /\ ack(TRUE, 0)
              /\ UNCHANGED <<recording, known, count, position>>
           \/ /\ c.code = SET_DOG_COLLAR_POSITION
              /\ ack(TRUE, 0)
              /\ position' = c.val
              /\ UNCHANGED <<recording, known, count>>
           \/ /\ c.code = START_STOP_RECORDING_SESSION /\ c.flag = 1
              /\ IF recording = NoUid /\ c.uid \notin known
                    THEN /\ ack(TRUE, 0)
                         /\ recording' = c.uid
                         /\ known' = known \cup {c.uid}
                    ELSE /\ ack(FALSE, 0)
                         /\ UNCHANGED <<recording, known>>
              /\ UNCHANGED <<count, position>>
           \/ /\ c.code = START_STOP_RECORDING_SESSION /\ c.flag = 0
              /\ IF recording = c.uid /\ c.uid # NoUid
                    THEN ack(TRUE, 0) /\ recording' = NoUid
                    ELSE ack(FALSE, 0) /\ UNCHANGED recording
              /\ UNCHANGED <<known, count, position>>
           \/ /\ c.code \in {17, 19}
              /\ IF c.uid \in known THEN ack(TRUE, count[c.uid][k]) ELSE ack(FALSE, 0)
              /\ UNCHANGED <<recording, known, count, position>>
           \/ /\ c.code \in {18, 20}
              /\ IF c.uid \in known /\ c.idx < count[c.uid][k]
                    THEN ack(TRUE, 0) ELSE ack(FALSE, 0)
              /\ UNCHANGED <<recording, known, count, position>>
    /\ inbox' = Tail(inbox)

\* The device refuses the oldest queued command: the ack byte is not 0x11
\* and the frame carries no data.
DeviceRefuse ==
    /\ AllowNack
    /\ inbox # <<>>
    /\ rxChar' = Rsp(Head(inbox).code, FALSE, NoUid, 0, 0)
    /\ inbox' = Tail(inbox)
    /\ UNCHANGED <<recording, known, count, position>>

\* The session in progress stores one more record of kind k.
DeviceSample(k) ==
    /\ recording # NoUid
    /\ count[recording][k] < MaxRecords
    /\ count' = [count EXCEPT ![recording][k] = @ + 1]
    /\ UNCHANGED <<inbox, rxChar, recording, known, position>>

DeviceNext ==
    \/ DeviceHandle
    \/ DeviceRefuse
    \/ \E k \in Kinds : DeviceSample(k)
=============================================================================
