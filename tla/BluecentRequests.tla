-------------------------- MODULE BluecentRequests --------------------------
(***************************************************************************)
(* The record request payloads of the bluecent fetch scripts, byte by      *)
(* byte.  Both start from bytearray(12) and assign the 8-byte             *)
(* struct.pack('>Q', uid) to the 7-byte slice data[0:7]; a slice          *)
(* assignment of a longer value grows the array, to 13 bytes, so the      *)
(* index bytes written next land at positions 11 and 12 and the           *)
(* assignment to data[12] does not raise IndexError.                      *)
(* Python indices are 0-based; a bytearray is a sequence of 0..255.       *)
(***************************************************************************)
EXTENDS Integers, Sequences

\* bytearray(n): n zero bytes.
ByteArray(n) == [j \in 1..n |-> 0]

\* a[lo:hi] = v: the bytes before lo, then v, then the bytes from hi on;
\* the array grows or shrinks by Len(v) - (hi - lo).
SliceAssign(a, lo, hi, v) == SubSeq(a, 1, lo) \o v \o SubSeq(a, hi + 1, Len(a))

\* a[idx] = v for an index inside the array.
ByteAssign(a, idx, v) == [a EXCEPT ![idx + 1] = v]

\* data = bytearray(12); data[0:7] = struct.pack('>Q', uid)
UidPrefix(uid) == SliceAssign(ByteArray(12), 0, 7, uid)

\* Mutant: the index bytes written where a 12-byte array would end.
M1RecordRequestShifted(uid, i) ==
    ByteAssign(ByteAssign(UidPrefix(uid), 10, i \div 256), 11, i % 256)

\* M1_Demo_record_Fetch.py: bytes_val = i.to_bytes(2, 'big');
\* data[11] = msb; data[12] = lsb.
M1RecordRequest(uid, i) ==
    ByteAssign(ByteAssign(UidPrefix(uid), 11, i \div 256), 12, i % 256)

\* csv_file.py: data[12] = i (a byte, so i < 256).
CsvRecordRequest(uid, i) == ByteAssign(UidPrefix(uid), 12, i)
=============================================================================
