----------------------------- MODULE CommFrame -----------------------------
(***************************************************************************)
(* The Frame Codec of chekrapplink.py: CommFrame.to_bytes and              *)
(* calculate_crc build the outbound frame of a request, and               *)
(* CommFrame.from_bytes validates the response frame read back from the   *)
(* device, returning None on any failed check.  One exchange at a time:   *)
(* the host builds a request, the device answers it with a response frame *)
(* and the link may change bytes of that frame before from_bytes sees it. *)
(* Bytes are integers 0..255 and frames are sequences of them.            *)
(***************************************************************************)
EXTENDS Integers, Sequences, ModbusCrc

CONSTANTS
    Commands,       \* command codes the host sends
    Payloads,       \* request payloads (byte sequences)
    RespData,       \* data the device puts after the ack byte
    Acks,           \* ack byte values the device may answer with
    Garble,         \* byte values a damaged byte of the link may take
    MaxCorrupt,     \* bound on the bytes the link damages per response
    None            \* model value: what from_bytes returns on a failed check

\* chekrapplink.py module constants.
START_BYTE == \h01
FRAME_TYPE == \hF1
RX_START_BYTE == \h02
RX_FRAME_TYPE == \hF2
SUCCESS_ACK == \h11
MIN_RX_FRAME_LEN == 7

VARIABLES
    req,      \* the request [command, data] the host built (a CommFrame)
    sent,     \* the response [command, ack, data] the device sent
    wire,     \* the bytes of the response as they arrive at the host
    flips,    \* bytes of this response the link has damaged
    result,   \* what from_bytes returned: None or [command, data]
    phase     \* "idle", "requested", "onwire", "decoded"

vars == <<req, sent, wire, flips, result, phase>>

Hi(w) == w \div 256
Lo(w) == w % 256

\* Mutant: the checksum split into bytes without masking the low byte.
PackBE16NoMask(w) == <<Hi(w), w>>

\* struct.pack('>H', crc): the checksum, most significant byte first.
PackBE16(w) == <<Hi(w), Lo(w)>>

\* Mutant: the header rebuilt for the CRC omits the two CRC bytes from the
\* length, so the checksum no longer covers the bytes to_bytes emits.
CalculateCrcShortLen(command, data) ==
    ModbusCrc(<<START_BYTE, 4 + Len(data), FRAME_TYPE, command>> \o data)

\* CommFrame.calculate_crc: rebuilds the header and checksums header + data.
CalculateCrc(command, data) ==
    ModbusCrc(<<START_BYTE, 4 + Len(data) + 2, FRAME_TYPE, command>> \o data)

\* CommFrame.to_bytes(crc): start, length, type, command, data, crc (BE).
ToBytes(command, data, crc) ==
    <<START_BYTE, 4 + Len(data) + 2, FRAME_TYPE, command>> \o data \o PackBE16(crc)

\* Every builder of chekrapplink.py (get_mac_addr_frame ... read_rec_data):
\* CommFrame(cmd, data), calculate_crc(), to_bytes(crc).
BuildFrame(command, data) == ToBytes(command, data, CalculateCrc(command, data))

\* Mutant: from_bytes without the CRC check.
FromBytesNoCrc(fb) ==
    IF Len(fb) < MIN_RX_FRAME_LEN THEN None
    ELSE IF fb[2] # Len(fb) THEN None
    ELSE IF fb[1] # RX_START_BYTE THEN None
    ELSE IF fb[3] # RX_FRAME_TYPE THEN None
    ELSE IF fb[5] # SUCCESS_ACK THEN None
    ELSE [command |-> fb[4], data |-> SubSeq(fb, 6, Len(fb) - 2)]

\* CommFrame.from_bytes: the checks in the order of the code, each an early
\* "return" (None); then command = frame_bytes[3], data = frame_bytes[5:-2].
FromBytes(fb) ==
    IF Len(fb) < MIN_RX_FRAME_LEN THEN None
    ELSE IF fb[2] # Len(fb) THEN None
    ELSE IF fb[1] # RX_START_BYTE THEN None
    ELSE IF ModbusCrc(SubSeq(fb, 1, Len(fb) - 2))
              # 256 * fb[Len(fb) - 1] + fb[Len(fb)] THEN None
    ELSE IF fb[3] # RX_FRAME_TYPE THEN None
    ELSE IF fb[5] # SUCCESS_ACK THEN None
    ELSE [command |-> fb[4], data |-> SubSeq(fb, 6, Len(fb) - 2)]

\* The device's response frame (device firmware, from the wire format of the
\* protocol): start 0x02, length, type 0xF2, echoed command, ack, data, CRC.
ResponseFrame(command, ack, data) ==
    LET body == <<RX_START_BYTE, 5 + Len(data) + 2, RX_FRAME_TYPE, command, ack>> \o data
    IN  body \o PackBE16(ModbusCrc(body))

-----------------------------------------------------------------------------
TypeOK ==
    /\ req \in [command : Commands, data : Payloads] \cup {None}
    /\ sent \in [command : Commands, ack : Acks, data : RespData] \cup {None}
    /\ wire \in Seq(0..255)
    /\ flips \in 0..MaxCorrupt
    /\ result \in [command : 0..255, data : Seq(0..255)] \cup {None}
    /\ phase \in {"idle", "requested", "onwire", "decoded"}

Init ==
    /\ req = None
    /\ sent = None
    /\ wire = <<>>
    /\ flips = 0
    /\ result = None
    /\ phase = "idle"

\* The host builds a request frame and writes it (a fresh exchange).
Request(command, data) ==
    /\ phase \in {"idle", "decoded"}
    /\ req' = [command |-> command, data |-> data]
    /\ sent' = None
    /\ wire' = <<>>
    /\ flips' = 0
    /\ result' = None
    /\ phase' = "requested"

\* The device answers the request with the command echoed and an ack byte.
Respond(ack, data) ==
    /\ phase = "requested"
    /\ sent' = [command |-> req.command, ack |-> ack, data |-> data]
    /\ wire' = ResponseFrame(req.command, ack, data)
    /\ phase' = "onwire"
    /\ UNCHANGED <<req, flips, result>>

\* The link damages one byte of the response.
Corrupt(pos, v) ==
    /\ phase = "onwire"
    /\ flips < MaxCorrupt
    /\ wire[pos] # v
    /\ wire' = [wire EXCEPT ![pos] = v]
    /\ flips' = flips + 1
    /\ UNCHANGED <<req, sent, result, phase>>

\* The host reads the response and parses it with from_bytes.
Receive ==
    /\ phase = "onwire"
    /\ result' = FromBytes(wire)
    /\ phase' = "decoded"
    /\ UNCHANGED <<req, sent, wire, flips>>

Next ==
    \/ \E c \in Commands, d \in Payloads : Request(c, d)
    \/ \E a \in Acks, d \in RespData : Respond(a, d)
    \/ \E pos \in DOMAIN wire, v \in Garble : Corrupt(pos, v)
    \/ Receive

Spec == Init /\ [][Next]_vars

-----------------------------------------------------------------------------
(* Properties.                                                             *)

\* The request frame written to the device is well formed: its length byte
\* is the number of bytes to_bytes emits, and its trailer is the Modbus CRC
\* of every byte before it, although calculate_crc rebuilds the header on
\* its own rather than checksumming what to_bytes produced.
OutboundWellFormed ==
    req # None =>
        LET f == BuildFrame(req.command, req.data)
        IN  /\ f[2] = Len(f)
            /\ 256 * f[Len(f) - 1] + f[Len(f)] = ModbusCrc(SubSeq(f, 1, Len(f) - 2))

\* from_bytes accepts a response exactly when it arrived undamaged with the
\* success ack, and then returns the command and data the device sent: no
\* damaged frame and no refusal is passed to the caller as a reply.
AcceptsExactlyIntactReplies ==
    phase = "decoded" =>
        /\ (result # None) <=> (flips = 0 /\ sent.ack = SUCCESS_ACK)
        /\ result # None =>
              result.command = sent.command /\ result.data = sent.data

\* The round trip the protocol description promises: the request frame,
\* with its markers changed to the inbound ones and its CRC recomputed,
\* parses back to the request's own command and payload.
RoundTrip ==
    req # None =>
        LET body == <<RX_START_BYTE, 4 + Len(req.data) + 2, RX_FRAME_TYPE, req.command>>
                        \o req.data
            inbound == body \o PackBE16(ModbusCrc(body))
        IN  FromBytes(inbound) = [command |-> req.command, data |-> req.data]
=============================================================================
