---------------------------- MODULE CulvertFrames ----------------------------
(***************************************************************************)
(* The request frames of the culvert test tool (chekr_app/tests/culvert):  *)
(* utils.pack_command and the builders of record.py, epochtime.py and      *)
(* misc_cmds.py.  Each builder takes its length byte from                  *)
(* struct.calcsize of a format string (HEADER_FORMAT + payload + CRC),     *)
(* not from the bytes it packs, so the length byte is right only while    *)
(* every format agrees with its payload and keeps the "<" of HEADER_FORMAT *)
(* (standard sizes, no alignment padding).                                 *)
(* A format is a sequence of struct codes, a byte string a sequence of    *)
(* integers 0..255; the 8-byte uid or epoch time is a parameter.          *)
(***************************************************************************)
EXTENDS Integers, Sequences, ModbusCrc

\* struct.calcsize: sizes of the codes the formats use, and the alignment a
\* native-mode format ("@", the default without a prefix) pads each to.
Codes == {"B", "H", "8s"}
StdSize == [c \in Codes |-> CASE c = "B" -> 1 [] c = "H" -> 2 [] c = "8s" -> 8]
NativeAlign == [c \in Codes |-> IF c = "H" THEN 2 ELSE 1]
StandardPrefixes == {"<", ">", "!", "="}

RECURSIVE SizeFrom(_, _, _, _)
SizeFrom(fmt, i, off, native) ==
    IF i > Len(fmt) THEN off
    ELSE LET a   == IF native THEN NativeAlign[fmt[i]] ELSE 1
             pad == (a - (off % a)) % a
         IN  SizeFrom(fmt, i + 1, off + pad + StdSize[fmt[i]], native)

calcsize(fmt) ==
    IF fmt # <<>> /\ fmt[1] \in StandardPrefixes
    THEN SizeFrom(fmt, 2, 0, FALSE)
    ELSE SizeFrom(fmt, 1, 0, TRUE)

\* Mutant: the header format without its byte-order prefix.
HeaderFormatNative == <<"B", "B", "B", "B">>

HEADER_FORMAT == <<"<", "B", "B", "B", "B">>
CRC_FORMAT == <<"H">>
SB_MOBILE_APP_TO_DEVICE == 1
FT_REQUEST == \hF1

\* pack_command: header, the data if any, then the Modbus CRC of both,
\* big-endian.
pack_command(start_byte, frame_len, frame_type, cmd, data) ==
    LET packed_without_crc == <<start_byte, frame_len, frame_type, cmd>> \o data
        crc == ModbusCrc(packed_without_crc)
    IN  packed_without_crc \o <<crc \div 256, crc % 256>>

\* The command codes and formats of record.py, epochtime.py, misc_cmds.py.
START_STOP_RECORDING_SESSION == 16
READ_RECORDING_SESSION_IMU_DETAILS == 17
READ_RECORDING_SESSION_IMU_DATA == 18
READ_RECORDING_SESSION_ACTIVITY_DETAILS == 19
READ_RECORDING_SESSION_ACTIVITY_DATA == 20
GET_EPOCH_RTC == 5
SET_EPOCH_RTC == 6
READ_DASHBOARD_INFO == 22
SET_DOG_COLLAR_POSITION == 4
SET_DOG_SIZE == 26

Fmt(payload) == HEADER_FORMAT \o payload \o CRC_FORMAT
START_STOP_RECORDING_SESSION_FORMAT == Fmt(<<"B", "8s">>)
READ_RECORDING_SESSION_DETAILS_FORMAT == Fmt(<<"8s", "B">>)
READ_RECORDING_SESSION_DATA_FORMAT == Fmt(<<"8s", "H", "H", "B">>)
SET_EPOCH_TIME_FORMAT == Fmt(<<"8s">>)
ONE_BYTE_FORMAT == Fmt(<<"B">>)

\* The common tail of every builder: frame_len = calcsize(FORMAT), then
\* pack_command(SB_MOBILE_APP_TO_DEVICE, frame_len, FT_REQUEST, cmd, data).
Build(fmt, cmd, data) ==
    pack_command(SB_MOBILE_APP_TO_DEVICE, calcsize(fmt), FT_REQUEST, cmd, data)

\* struct.pack('>H', record_num).
PackBE16Num(n) == <<n \div 256, n % 256>>

start_recording_session(uid) ==
    Build(START_STOP_RECORDING_SESSION_FORMAT, START_STOP_RECORDING_SESSION, <<1>> \o uid)
stop_recording_session(uid) ==
    Build(START_STOP_RECORDING_SESSION_FORMAT, START_STOP_RECORDING_SESSION, <<0>> \o uid)
read_recording_session_details(cmd, uid) ==
    Build(READ_RECORDING_SESSION_DETAILS_FORMAT, cmd, uid \o <<0>>)
read_recording_session_data(cmd, uid, record_num) ==
    Build(READ_RECORDING_SESSION_DATA_FORMAT, cmd, uid \o <<0, 0, 0>> \o PackBE16Num(record_num))
send_epoch_time(epoch_time_bytes) ==
    Build(SET_EPOCH_TIME_FORMAT, SET_EPOCH_RTC, epoch_time_bytes)
get_epoch_time == Build(ONE_BYTE_FORMAT, GET_EPOCH_RTC, <<0>>)
read_dashboard_info == Build(ONE_BYTE_FORMAT, READ_DASHBOARD_INFO, <<0>>)
set_dog_collar_position == Build(ONE_BYTE_FORMAT, SET_DOG_COLLAR_POSITION, <<12>>)
\* set_dog_size packs SET_DOG_COLLAR_POSITION, as the code does.
set_dog_size == Build(ONE_BYTE_FORMAT, SET_DOG_COLLAR_POSITION, <<3>>)

\* Every frame the tool can build, for 8-byte uids in Uid8 and record
\* numbers in RecNums (struct.pack('>H') accepts 0..65535).
Catalog(Uid8, RecNums) ==
    {start_recording_session(u) : u \in Uid8}
    \cup {stop_recording_session(u) : u \in Uid8}
    \cup {read_recording_session_details(c, u) :
            c \in {READ_RECORDING_SESSION_IMU_DETAILS, READ_RECORDING_SESSION_ACTIVITY_DETAILS},
            u \in Uid8}
    \cup {read_recording_session_data(c, u, n) :
            c \in {READ_RECORDING_SESSION_IMU_DATA, READ_RECORDING_SESSION_ACTIVITY_DATA},
            u \in Uid8, n \in RecNums}
    \cup {send_epoch_time(u) : u \in Uid8}
    \cup {get_epoch_time, read_dashboard_info, set_dog_collar_position, set_dog_size}
=============================================================================
