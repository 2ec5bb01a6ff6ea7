---------------------------- MODULE BluecentFetch ----------------------------
(***************************************************************************)
(* The bluecent-main record fetch scripts against the collar (Device):    *)
(*   csv_file.py test_data1: set and get the epoch time, start a session,  *)
(*     sleep 5 s, stop it, read its IMU details (0x11), take the record    *)
(*     count from tdata.data[8], and read that many IMU records (0x12);    *)
(*   M1_Demo_record_Fetch.py test_data1: start the periodic dashboard     *)
(*     (0x09) and take the battery from rx_fr[10], read the details of a   *)
(*     stored session with ad_read_rec_details (19, activity), take the    *)
(*     count from tdata.data[8:10], and read that many IMU records (0x12). *)
(* Every exchange is ble_comm write, time.sleep(0.1), read.  Replies of   *)
(* commands whose result is used go through CommFrame.from_bytes, which   *)
(* gives None for a refusal; the records are unpacked raw by               *)
(* imu_rec_unpack, which prints and returns unless the reply is 255 bytes. *)
(* The connection (ble_comm.connect) is established in Init.              *)
(***************************************************************************)
EXTENDS Device

CONSTANTS
    Scripts,    \* the scripts run: a subset of {"csv_file", "m1_fetch"}
    SesUidOf,   \* per script: csv_file's epoch_time_ms_1, M1's ses_uid
    Timely,     \* whether every reply is in rxChar before the read
    MaxInbox    \* bound on commands the device has not yet handled

ASSUME Scripts \subseteq {"csv_file", "m1_fetch"} /\ SesUidOf \in [Scripts -> Uids]

VARIABLES
    Script,     \* the script that runs
    hpc,        \* the step the script is at
    no,         \* the record count the script parsed
    rec,        \* "for i in range(no)"
    awaiting,   \* a command was written and its reply not yet read
    got         \* the records imu_rec_unpack wrote to the CSV, in order

hostVars == <<Script, hpc, no, rec, awaiting, got>>
vars == <<deviceVars, hostVars>>

\* The exchanges of each script, in order; "sleep" is csv_file's
\* time.sleep(5) while the session records.
Steps ==
    [csv_file |-> <<"sete", "gete", "start", "sleep", "stop", "details", "data">>,
     m1_fetch |-> <<"dash", "details", "data">>]

\* The session the script fetches.
SesUid == SesUidOf[Script]

StepAfter(s) ==
    LET seq == Steps[Script]
    IN  seq[(CHOOSE j \in 1..(Len(seq) - 1) : seq[j] = s) + 1]

Rec(u, i) == [uid |-> u, kind |-> "imu", idx |-> i]

\* The kind of session details each script asks for: read_rec_details
\* (0x11) in csv_file, ad_read_rec_details (19) in M1_Demo_record_Fetch.
DetailsKind == IF Script = "csv_file" THEN "imu" ELSE "act"

\* The frame written at each step (chekrapplink builders).
CommandOf ==
    CASE hpc = "sete"    -> Cmd(SET_EPOCH_RTC, 0, NoUid, 0, 0)
      [] hpc = "gete"    -> Cmd(GET_EPOCH_RTC, 0, NoUid, 0, 0)
      [] hpc = "dash"    -> Cmd(START_STOP_PERIODIC_DASHBOARD, 0, NoUid, 0, 0)
      [] hpc = "start"   -> Cmd(START_STOP_RECORDING_SESSION, 1, SesUid, 0, 0)
      [] hpc = "stop"    -> Cmd(START_STOP_RECORDING_SESSION, 0, SesUid, 0, 0)
      [] hpc = "details" -> Cmd(DetailsCode[DetailsKind], 0, SesUid, 0, 0)
      [] hpc = "data"    -> Cmd(DataCode["imu"], 0, SesUid, rec, 0)

\* tdata.data[8] of csv_file: the high byte of the big-endian count.
HighByte(n) == n \div 256

\* The counts the script can parse from reply r: none (the parse raises)
\* for a refusal, whose from_bytes is None; the count of an accepted
\* details reply of the kind asked for (all of it in M1, its high byte in
\* csv_file); for any other accepted reply, unrelated bytes, or in
\* csv_file an IndexError.
CountsOf(r) ==
    IF ~r.ok THEN {}
    ELSE IF r.code = DetailsCode[DetailsKind]
        THEN {IF Script = "csv_file" THEN HighByte(r.count) ELSE r.count}
    ELSE 0..MaxRecords

\* The parse of the details reply raises.
CountRaises(r) ==
    \/ ~r.ok
    \/ Script = "csv_file" /\ r.code # DetailsCode[DetailsKind]

\* imu_rec_unpack: only an accepted IMU record reply is 255 bytes long.
RecordFits(r) == r.ok /\ r.code = DataCode["imu"]

\* Where a step goes after parsing reply r: set epoch, start and stop
\* parse and print only; get epoch unpacks tdata.data as '>Q', which
\* raises for a refusal (from_bytes is None); the dashboard step unpacks
\* rx_fr[10:11], absent from the 7 bytes of a refusal.  An accepted reply
\* of another command has bytes the model does not track: either outcome.
Outcomes(s, r) ==
    LET own == IF s = "gete" THEN GET_EPOCH_RTC ELSE START_STOP_PERIODIC_DASHBOARD
    IN  IF s \notin {"gete", "dash"} THEN {StepAfter(s)}
        ELSE IF ~r.ok THEN {"crashed"}
        ELSE IF r.code = own THEN {StepAfter(s)}
        ELSE {StepAfter(s), "crashed"}

TypeOK ==
    /\ DeviceTypeOK
    /\ Script \in Scripts
    /\ hpc \in {"sete", "gete", "dash", "start", "sleep", "stop", "details",
                "data", "done", "crashed"}
    /\ no \in 0..MaxRecords
    /\ rec \in 0..MaxRecords
    /\ awaiting \in BOOLEAN
    /\ got \in Seq([uid : Uids \cup {NoUid}, kind : Kinds, idx : 0..MaxRecords])

Init ==
    /\ DeviceInit
    /\ Script \in Scripts
    /\ hpc = Steps[Script][1]
    /\ no = 0
    /\ rec = 0
    /\ awaiting = FALSE
    /\ got = <<>>

\* comm.write(tx_fr) of the step's frame.
Write ==
    /\ hpc \in {"sete", "gete", "dash", "start", "stop", "details", "data"}
    /\ ~awaiting
    /\ hpc = "data" => rec < no
    /\ Len(inbox) < MaxInbox
    /\ inbox' = Append(inbox, CommandOf)
    /\ awaiting' = TRUE
    /\ UNCHANGED <<rxChar, recording, known, count, position, Script, hpc, no, rec, got>>

\* time.sleep(0.1) then comm.read().
ReadReady == awaiting /\ (Timely => inbox = <<>>)

\* The reply of set/get epoch, the dashboard, start or stop: parsed and
\* printed; the script goes on unless the parse raised.
ReadStep ==
    /\ hpc \in {"sete", "gete", "dash", "start", "stop"}
    /\ ReadReady
    /\ awaiting' = FALSE
    /\ hpc' \in Outcomes(hpc, rxChar)
    /\ UNCHANGED <<deviceVars, Script, no, rec, got>>

\* csv_file's time.sleep(5) ends.
Wake ==
    /\ hpc = "sleep"
    /\ hpc' = "stop"
    /\ UNCHANGED <<deviceVars, Script, no, rec, awaiting, got>>

\* The details reply: the record count, or the parse raises.
ReadDetails ==
    /\ hpc = "details"
    /\ ReadReady
    /\ awaiting' = FALSE
    /\ \/ \E n \in CountsOf(rxChar) :
             /\ no' = n
             /\ hpc' = "data"
       \/ /\ CountRaises(rxChar)
          /\ hpc' = "crashed"
          /\ UNCHANGED no
    /\ rec' = 0
    /\ UNCHANGED <<deviceVars, Script, got>>

\* One record of the loop: imu_rec_unpack writes it to the CSV if it is a
\* record, else prints "invalid length" and the loop goes on.
ReadRecord ==
    /\ hpc = "data"
    /\ ReadReady
    /\ awaiting' = FALSE
    /\ got' = IF RecordFits(rxChar) THEN Append(got, Rec(rxChar.uid, rxChar.idx)) ELSE got
    /\ rec' = rec + 1
    /\ UNCHANGED <<deviceVars, Script, hpc, no>>

\* The loop is over: comm.disconnect().
Finish ==
    /\ hpc = "data"
    /\ ~awaiting
    /\ rec >= no
    /\ hpc' = "done"
    /\ UNCHANGED <<deviceVars, Script, no, rec, awaiting, got>>

HostNext == Write \/ ReadStep \/ Wake \/ ReadDetails \/ ReadRecord \/ Finish

Next == HostNext \/ (DeviceNext /\ UNCHANGED hostVars)

Spec == Init /\ [][Next]_vars

-----------------------------------------------------------------------------
(* Properties.                                                             *)

\* The fetch contract of both scripts: once the script has ended, it ended
\* at comm.disconnect, and its CSV holds every IMU record the session holds
\* on the collar, each once, in index order.  A crash on a parse, a count
\* read from the wrong bytes or the wrong details, a record skipped or a
\* stale record written again each break it.
FetchComplete ==
    hpc \in {"done", "crashed"} =>
        /\ hpc = "done"
        /\ got = [j \in 1..count[SesUid]["imu"] |-> Rec(SesUid, j - 1)]

\* The CSV holds IMU records 0, 1, ... of the session, with no record
\* missing between two that were written.
FetchedInOrder ==
    got = [j \in 1..Len(got) |-> Rec(SesUid, j - 1)]

=============================================================================
