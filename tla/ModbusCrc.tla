----------------------------- MODULE ModbusCrc -----------------------------
(***************************************************************************)
(* The Modbus CRC-16 as a pure definition: the constants of crc16 in      *)
(* mcrc16.py and an independent, table-driven reference of the checksum.   *)
(* Crc16 checks the loop of crc16 against ModbusCrc; the frame modules use *)
(* ModbusCrc wherever the code calls crc16.                                *)
(***************************************************************************)
EXTENDS Integers, Sequences, Bitwise

Poly == \hA001     \* the reflected polynomial the rounds xor in
InitCrc == \hFFFF  \* crc = 0xFFFF

(***************************************************************************)
(* Reference: the table-driven Modbus CRC-16.  Table[n] is the remainder   *)
(* of one byte n, and each input byte indexes the table with the low byte  *)
(* of the accumulator.  It shares no definition with the loop of Crc16.       *)
(***************************************************************************)
\* Eight shift-and-xor steps of one table entry; st.r steps remain.
RECURSIVE Reflect8(_)
Reflect8(st) ==
    IF st.r = 0 THEN st.v
    ELSE Reflect8([v |-> IF st.v % 2 = 1 THEN (st.v \div 2) ^^ Poly ELSE st.v \div 2,
                   r |-> st.r - 1])

Table == [n \in 0..255 |-> Reflect8([v |-> n, r |-> 8])]

\* The accumulator and the bytes not yet consumed travel as one record, so
\* each step starts from an evaluated accumulator.
RECURSIVE CrcByTable(_)
CrcByTable(st) ==
    IF st.rest = <<>> THEN st.acc
    ELSE CrcByTable([acc  |-> (st.acc \div 256) ^^ Table[(st.acc ^^ Head(st.rest)) % 256],
                     rest |-> Tail(st.rest)])

ModbusCrc(s) == CrcByTable([acc |-> InitCrc, rest |-> s])

\* The device's golden frame of bluecent.py: 01 07 F1 01 00 carries CRC D7 48.
ASSUME ModbusCrc(<<\h01, \h07, \hF1, \h01, \h00>>) = \hD748
=============================================================================
