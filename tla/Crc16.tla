------------------------------- MODULE Crc16 -------------------------------
(***************************************************************************)
(* The Checksum Engine: crc16(data) of mcrc16.py, the Modbus CRC-16 that   *)
(* every ChekrAppLink frame carries (utils.crc16_modbus of the culvert     *)
(* scripts is a line-for-line copy).  crc16 is a pure function, so its two *)
(* loops are recursive operators: Rounds is "for _ in range(8)" and        *)
(* Bytes is "for b in data".  It shares nothing with ModbusCrc, the        *)
(* table-driven reference it is checked against.                           *)
(***************************************************************************)
EXTENDS Integers, Sequences, Bitwise, ModbusCrc

\* Mutant: a round shifts without ever xoring the polynomial in.
RoundNoXor(crc) == shiftR(crc, 1)

\* One round of the inner loop: shift right, and xor 0xA001 when the bit
\* shifted out was set.
Round(crc) ==
    IF crc & 1 = 1 THEN shiftR(crc, 1) ^^ Poly ELSE shiftR(crc, 1)

\* "for _ in range(8)": the accumulator and the rounds still to run.  The
\* loop state is a record, so each step starts from an evaluated crc.
RECURSIVE Rounds(_)
Rounds(st) ==
    IF st.n = 0 THEN st.crc
    ELSE Rounds([crc |-> Round(st.crc), n |-> st.n - 1])

\* "for b in data: crc ^= b" followed by the eight rounds; st.data holds
\* the bytes not yet consumed.
RECURSIVE Bytes(_)
Bytes(st) ==
    IF st.data = <<>> THEN st.crc
    ELSE Bytes([crc  |-> Rounds([crc |-> st.crc ^^ Head(st.data), n |-> 8]),
                data |-> Tail(st.data)])

\* crc = 0xFFFF, the loop, "return crc".
crc16(data) == Bytes([crc |-> InitCrc, data |-> data])
=============================================================================
