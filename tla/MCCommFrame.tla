---------------------------- MODULE MCCommFrame ----------------------------
(* One request/response exchange of the frame codec for TLC: two command  *)
(* codes, the payload shapes of get-epoch and start-recording, a success  *)
(* and a refusal ack, and any byte value for a damaged byte.  With it,    *)
(* the catalogue of culvert request frames (CulvertFrames) for two uids    *)
(* and the record numbers at the edges of struct.pack('>H'); and crc16    *)
(* over every single byte, the golden frame and real headers; and the     *)
(* record requests of the bluecent fetch scripts.                         *)
EXTENDS CommFrame, CulvertFrames, Crc16, BluecentRequests

MCCommands == {\h05, \h10}
MCPayloads == {<<\h00>>, <<\h11, \h00>>}
MCRespData == {<<>>, <<\h00, \h05>>}
MCAcks == {\h11, \h22}
MCGarble == 0..255
MCUid8 == {<<\h00, \h00, \h01, \h90, \h12, \h34, \h56, \h78>>, [j \in 1..8 |-> \hFF]}
MCRecNums == {0, 255, 256, 65535}

\* The culvert catalogue agrees with BuildFrame (a constant: TLC computes it
\* once).
CatalogAgrees ==
    \A f \in Catalog(MCUid8, MCRecNums) :
        f = BuildFrame(f[4], SubSeq(f, 5, Len(f) - 2))

\* Whenever a request frame goes to the collar, the culvert tool would have
\* sent the same bytes as chekrapplink.py for the same command and payload:
\* the length byte culvert takes from struct.calcsize of each builder's
\* format string is the length of the frame it packs, as CommFrame counts
\* it, and the CRC covers the same bytes.
CulvertMatchesCommFrame == req # None => CatalogAgrees
\* The inputs crc16 is checked on.
CrcInputs ==
    {<<b>> : b \in 0..255}
    \cup { <<>>,
           <<\h01, \h07, \hF1, \h01, \h00>>,
           <<\h01, \h07, \hF1, \h05, \h00>>,
           <<\h02, \h08, \hF2, \h10, \h11, \h00>> }

CrcAgrees == \A d \in CrcInputs : crc16(d) = ModbusCrc(d)

\* The frame codec computes the trailer of every frame it builds or checks
\* with crc16; whenever a request goes out, the bit loop of crc16 (init,
\* xor of each byte into the low byte, eight shift/xor rounds) returns the
\* Modbus CRC-16 the device computes with the standard table.
ReturnsModbusCrc == req # None => CrcAgrees
\* The record request frames the bluecent scripts write (read_rec_data,
\* 0x12) against culvert's read_recording_session_imu_data for the same uid
\* and record number (csv_file.py only for a one-byte index).
RequestsAgree ==
    \A u \in MCUid8, i \in MCRecNums :
        /\ BuildFrame(\h12, M1RecordRequest(u, i))
              = read_recording_session_data(READ_RECORDING_SESSION_IMU_DATA, u, i)
        /\ i < 256 =>
              BuildFrame(\h12, CsvRecordRequest(u, i))
                = read_recording_session_data(READ_RECORDING_SESSION_IMU_DATA, u, i)

\* Whenever a request goes out, a record request of either fetch script is
\* the frame the culvert tool sends for the same session and record: the
\* 8-byte uid assigned to the 7-byte slice data[0:7] grows bytearray(12)
\* to 13 bytes, which puts the index bytes at 11..12, after the 3 reserved
\* bytes, where the collar reads the big-endian record number.
RecordRequestsAgree == req # None => RequestsAgree
=============================================================================
