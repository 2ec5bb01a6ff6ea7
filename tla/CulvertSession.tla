--------------------------- MODULE CulvertSession ---------------------------
(***************************************************************************)
(* The Session Retrieval Protocol as the culvert record_session.py script  *)
(* runs it against the collar (module Device): for each of Iterations     *)
(* iterations it connects, sends the prelude commands, starts a recording *)
(* session with a fresh uid, sleeps, stops it, reads the IMU record count *)
(* and fetches every IMU record, then does the same for the activity      *)
(* records.  With --bypass it skips start and stop and fetches the        *)
(* session named on the command line, which may still be recording.      *)
(*                                                                         *)
(* Every exchange goes through command.send_command: write the frame to   *)
(* the write-without-response characteristic, time.sleep(0.1), read the  *)
(* read characteristic and return its value.  Nothing checks that the     *)
(* value is the reply to the frame just written, nor its ack or CRC; the  *)
(* callers parse it at fixed offsets, and a parse that does not fit the   *)
(* bytes raises and ends the script.  Timely states the assumption that   *)
(* the 100 ms sleep outlasts the device's handling of the command.        *)
(***************************************************************************)
EXTENDS Device

CONSTANTS
    Iterations,     \* --iterations
    IterUid,        \* IterUid[i]: the uid (epoch ms) iteration i takes
    BypassModes,    \* the --bypass settings the script may be run with
    BypassUid,      \* the session --bypass names
    Timely,         \* whether every reply is in rxChar before the read
    AllowLinkLoss,  \* whether the BLE link may fail (BleakError)
    MaxInbox        \* bound on commands the device has not yet handled

ASSUME /\ Iterations \in Nat \ {0}
       /\ IterUid \in [0..(Iterations - 1) -> Uids]
       /\ BypassModes \subseteq BOOLEAN
       /\ BypassUid \in Uids

VARIABLES
    bypass,     \* whether --bypass names a session to fetch
    hpc,        \* where the script is (see Phases)
    iter,       \* "for i in range(iterations)"
    step,       \* index of the next prelude command
    uid,        \* timestamp: the session uid of this iteration
    kind,       \* the record kind being read: "imu", then "act"
    num,        \* num_records parsed from the details reply
    rec,        \* "for record in range(num_records)"
    awaiting,   \* a command was written and its reply not yet read
    consumed,   \* records parsed in the current fetch loop, in order
    drained,    \* history: every completed fetch loop
    started     \* history: the sessions the script started

hostVars == <<bypass, hpc, iter, step, uid, kind, num, rec, awaiting, consumed, drained, started>>
vars == <<deviceVars, hostVars>>

Phases == {"scan", "connect", "prelude", "start", "sleep", "stop",
           "details", "data", "done", "crashed"}

Rec(u, k, i) == [uid |-> u, kind |-> k, idx |-> i]

-----------------------------------------------------------------------------
(* The frames the script builds (epochtime.py, misc_cmds.py, record.py).  *)

SendEpochTime == Cmd(SET_EPOCH_RTC, 0, NoUid, 0, 0)
GetEpochTime == Cmd(GET_EPOCH_RTC, 0, NoUid, 0, 0)
SetDogCollarPosition == Cmd(SET_DOG_COLLAR_POSITION, 0, NoUid, 0, 12)
\* set_dog_size packs the size 3 under the code SET_DOG_COLLAR_POSITION.
SetDogSize == Cmd(SET_DOG_COLLAR_POSITION, 0, NoUid, 0, 3)
ReadDashboardInfo == Cmd(READ_DASHBOARD_INFO, 0, NoUid, 0, 0)

\* The commands recording_session sends before the session starts.
Prelude == <<SendEpochTime, GetEpochTime, SetDogCollarPosition, SetDogSize,
             ReadDashboardInfo>>

\* Mutant: the stop frame carries the start flag (copied from start).
StopFlagOne(u) == Cmd(START_STOP_RECORDING_SESSION, 1, u, 0, 0)

StartRecordingSession(u) == Cmd(START_STOP_RECORDING_SESSION, 1, u, 0, 0)
StopRecordingSession(u) == Cmd(START_STOP_RECORDING_SESSION, 0, u, 0, 0)
ReadDetails(k, u) == Cmd(DetailsCode[k], 0, u, 0, 0)
ReadData(k, u, i) == Cmd(DataCode[k], 0, u, i, 0)

\* The frame send_command writes in the current phase.
CommandOf ==
    CASE hpc = "prelude" -> Prelude[step]
      [] hpc = "start"   -> StartRecordingSession(uid)
      [] hpc = "stop"    -> StopRecordingSession(uid)
      [] hpc = "details" -> ReadDetails(kind, uid)
      [] hpc = "data"    -> ReadData(kind, uid, rec)

-----------------------------------------------------------------------------
(* Parsing the value read back.                                            *)

\* pretty_print_dashboard_info(response[5:-2]) raises unless the data is 19
\* bytes: only an accepted dashboard reply has that length.
DashboardFits(r) == r.code = READ_DASHBOARD_INFO /\ r.ok

\* struct.unpack_from('>H', response, 13): an accepted details reply of the
\* kind gives its count; a refusal is too short and raises; any other reply
\* either is too short (raises) or yields two unrelated bytes.
DetailsFits(r, k) == r.code = DetailsCode[k] /\ r.ok

CountsOf(r, k) ==
    IF DetailsFits(r, k) THEN {r.count}
    ELSE IF ~r.ok THEN {}
    ELSE 0..MaxRecords

\* parse_raw_imu_data_record / parse_activity_data_record raise unless the
\* reply has the length of a record of that kind.
RecordFits(r, k) == r.code = DataCode[k] /\ r.ok

-----------------------------------------------------------------------------
TypeOK ==
    /\ DeviceTypeOK
    /\ bypass \in BOOLEAN
    /\ hpc \in Phases
    /\ iter \in 0..(Iterations - 1)
    /\ step \in 1..Len(Prelude)
    /\ uid \in Uids \cup {NoUid}
    /\ kind \in Kinds
    /\ num \in 0..MaxRecords
    /\ rec \in 0..MaxRecords
    /\ awaiting \in BOOLEAN
    /\ consumed \in Seq([uid : Uids \cup {NoUid}, kind : Kinds, idx : 0..MaxRecords])
    /\ started \subseteq Uids

Init ==
    /\ DeviceInit
    /\ bypass \in BypassModes
    /\ hpc = "scan"
    /\ iter = 0
    /\ step = 1
    /\ uid = NoUid
    /\ kind = "imu"
    /\ num = 0
    /\ rec = 0
    /\ awaiting = FALSE
    /\ consumed = <<>>
    /\ drained = {}
    /\ started = {}

\* main: scan() finds the collar, or the script logs "Device not found!".
Scan ==
    /\ hpc = "scan"
    /\ \/ hpc' = "connect"
       \/ hpc' = "done"
    /\ UNCHANGED <<deviceVars, iter, step, uid, kind, num, rec, awaiting,
                   consumed, drained, started>>

\* The end of recording_session: the next iteration, or the end of main.
EndIteration ==
    /\ hpc' = IF iter + 1 < Iterations THEN "connect" ELSE "done"
    /\ iter' = IF iter + 1 < Iterations THEN iter + 1 ELSE iter

\* "async with BleakClient(address)" and the service check.
Connect ==
    /\ hpc = "connect"
    /\ \/ /\ hpc' = "prelude"
          /\ step' = 1
          /\ UNCHANGED iter
       \/ /\ EndIteration          \* service not found: return
          /\ UNCHANGED step
       \/ /\ AllowLinkLoss         \* connect raises BleakError
          /\ hpc' = "crashed"
          /\ UNCHANGED <<iter, step>>
    /\ UNCHANGED <<deviceVars, uid, kind, num, rec, awaiting, consumed, drained, started>>

\* send_command, first half: write_gatt_char of the phase's frame.
Write ==
    /\ hpc \in {"prelude", "start", "stop", "details", "data"}
    /\ ~awaiting
    /\ hpc = "data" => rec < num
    /\ Len(inbox) < MaxInbox
    /\ inbox' = Append(inbox, CommandOf)
    /\ awaiting' = TRUE
    /\ UNCHANGED <<rxChar, recording, known, count, position, hpc, iter, step,
                   uid, kind, num, rec, consumed, drained, started>>

\* send_command, second half: after time.sleep(0.1), read_gatt_char.
ReadReady == awaiting /\ (Timely => inbox = <<>>)

\* The prelude replies are logged; the dashboard one is parsed.  After the
\* last one the script takes its uid and starts the session, or with
\* --bypass goes straight to the details of the named session.
ReadPrelude ==
    /\ hpc = "prelude"
    /\ ReadReady
    /\ awaiting' = FALSE
    /\ IF Prelude[step] = ReadDashboardInfo /\ ~DashboardFits(rxChar)
          THEN hpc' = "crashed" /\ UNCHANGED <<step, uid>>
       ELSE IF step < Len(Prelude)
          THEN step' = step + 1 /\ UNCHANGED <<hpc, uid>>
       ELSE IF bypass
          THEN hpc' = "details" /\ uid' = BypassUid /\ UNCHANGED step
          ELSE hpc' = "start" /\ uid' = IterUid[iter] /\ UNCHANGED step
    /\ kind' = "imu"
    /\ UNCHANGED <<deviceVars, iter, num, rec, consumed, drained, started>>

\* start_recording_session: the reply is logged, then asyncio.sleep(delay).
ReadStart ==
    /\ hpc = "start"
    /\ ReadReady
    /\ awaiting' = FALSE
    /\ hpc' = "sleep"
    /\ started' = started \cup {uid}
    /\ UNCHANGED <<deviceVars, iter, step, uid, kind, num, rec, consumed, drained>>

\* The sleep ends: stop_recording_session.
Wake ==
    /\ hpc = "sleep"
    /\ hpc' = "stop"
    /\ UNCHANGED <<deviceVars, iter, step, uid, kind, num, rec, awaiting,
                   consumed, drained, started>>

\* stop_recording_session: the reply is logged, then the IMU details.
ReadStop ==
    /\ hpc = "stop"
    /\ ReadReady
    /\ awaiting' = FALSE
    /\ hpc' = "details"
    /\ kind' = "imu"
    /\ UNCHANGED <<deviceVars, iter, step, uid, num, rec, consumed, drained, started>>

\* read_recording_session_{imu,activity}_details: num_records from offset
\* 13 of the value read, or the unpack raises.
ReadDetailsReply ==
    /\ hpc = "details"
    /\ ReadReady
    /\ awaiting' = FALSE
    /\ \/ \E n \in CountsOf(rxChar, kind) :
             /\ num' = n
             /\ hpc' = "data"
       \/ /\ ~DetailsFits(rxChar, kind)
          /\ hpc' = "crashed"
          /\ UNCHANGED num
    /\ rec' = 0
    /\ consumed' = <<>>
    /\ UNCHANGED <<deviceVars, iter, step, uid, kind, drained, started>>

\* read_recording_session_{imu,activity}_data: parse the value read as a
\* record of the kind (whatever record it is), or the parse raises.
ReadDataReply ==
    /\ hpc = "data"
    /\ ReadReady
    /\ awaiting' = FALSE
    /\ IF RecordFits(rxChar, kind)
          THEN /\ consumed' = Append(consumed, Rec(rxChar.uid, kind, rxChar.idx))
               /\ rec' = rec + 1
               /\ UNCHANGED hpc
          ELSE /\ hpc' = "crashed"
               /\ UNCHANGED <<consumed, rec>>
    /\ UNCHANGED <<deviceVars, iter, step, uid, kind, num, drained, started>>

\* Mutant: the fetch loop stops one record early, range(num_records - 1).
LoopExitEarly ==
    /\ hpc = "data"
    /\ ~awaiting
    /\ rec >= num - 1

\* The exit test of "for record in range(num_records)".
LoopExit ==
    /\ hpc = "data"
    /\ ~awaiting
    /\ rec >= num

\* The fetch loop is over: the activity details next, or the iteration ends
\* and the BleakClient disconnects.
EndFetch ==
    /\ LoopExit
    /\ drained' = drained \cup
          {[uid |-> uid, kind |-> kind, num |-> num, got |-> consumed,
            live |-> recording = uid,
            devcount |-> IF uid \in known THEN count[uid][kind] ELSE 0]}
    /\ IF kind = "imu"
          THEN hpc' = "details" /\ kind' = "act" /\ UNCHANGED iter
          ELSE EndIteration /\ UNCHANGED kind
    /\ UNCHANGED <<deviceVars, step, uid, num, rec, awaiting, consumed, started>>

\* The link fails under any exchange: BleakError propagates out of
\* asyncio.run and the script ends.
LinkLost ==
    /\ AllowLinkLoss
    /\ hpc \in {"prelude", "start", "sleep", "stop", "details", "data"}
    /\ hpc' = "crashed"
    /\ awaiting' = FALSE
    /\ UNCHANGED <<deviceVars, iter, step, uid, kind, num, rec, consumed, drained, started>>

\* The command line is parsed once: no step changes bypass.
HostNext ==
    /\ \/ Scan \/ Connect \/ Write \/ ReadPrelude \/ ReadStart \/ Wake
       \/ ReadStop \/ ReadDetailsReply \/ ReadDataReply \/ EndFetch \/ LinkLost
    /\ UNCHANGED bypass

DeviceStep == DeviceNext /\ UNCHANGED hostVars

Next == HostNext \/ DeviceStep

\* The script runs on one thread to its end and the device handles every
\* command it is written: both are weakly fair; recording is not forced.
Fairness ==
    /\ WF_vars(HostNext /\ ~LinkLost)
    /\ WF_vars((DeviceHandle \/ DeviceRefuse) /\ UNCHANGED hostVars)

Spec == Init /\ [][Next]_vars /\ Fairness

-----------------------------------------------------------------------------
(* Properties.                                                             *)

\* Every completed fetch loop parsed exactly the records 0 .. num-1 of the
\* session and kind it asked for, in order; and unless that session was
\* still recording, num is the number of records the device holds for it.
\* This is what the unchecked write/sleep/read of send_command and the
\* fixed-offset parsing in record.py must deliver.
DrainMatchesDevice ==
    \A d \in drained :
        /\ d.got = [j \in 1..d.num |-> Rec(d.uid, d.kind, j - 1)]
        /\ ~d.live => d.num = d.devcount

\* When the script has ended, by completing or by an exception, no session
\* it started is still recording on the collar.
NoOrphanRecording ==
    hpc \in {"done", "crashed"} => recording \notin started

\* Every session the script starts is eventually stopped on the collar.
StartedIsStopped ==
    \A u \in Uids : (u \in started) ~> (recording # u)

\* Once set_dog_size has been answered, the collar still has the position
\* set_dog_collar_position gave it (12): the size command does not
\* overwrite the position.
PositionKept ==
    (hpc = "prelude" /\ step > 4 /\ ~awaiting) => position = 12
=============================================================================
