------------------------------- MODULE ActData -------------------------------
(***************************************************************************)
(* imu_rec_act_unpack of bluecent-main/act_data.py: the decoder of one    *)
(* activity record reply.  After the length check it fills temp_data, one *)
(* cell per struct.unpack, in two nested loops: for each block start i in *)
(* range(9, 210, 40) a '<Q' timestamp, then for j in range(i+8, i+39, 4)  *)
(* a '<f' value; the rows of the CSV are then temp_data in runs of 9.     *)
(* A cell is abstracted to the slice imu_rec[lo:hi] it unpacks; the       *)
(* values and their formatting are left out.                               *)
(***************************************************************************)
EXTENDS Integers, Sequences

CONSTANT RecLens    \* lengths of the reply: 255 for a record, 7 for a refusal

\* Python's range(a, b, s) for a positive step.
RECURSIVE PyRange(_, _, _)
PyRange(a, b, s) == IF a >= b THEN <<>> ELSE <<a>> \o PyRange(a + s, b, s)

Slice(lo, hi) == [lo |-> lo, hi |-> hi]

BlockStarts == PyRange(9, 210, 40)

VARIABLES
    len,        \* len(imu_rec)
    pc,         \* "check", "outer", "inner", "rows" (written), "invalid"
    k,          \* position of i in BlockStarts
    js,         \* the j still to run of the inner loop
    temp_data   \* the cells filled so far (data is Len(temp_data))

vars == <<len, pc, k, js, temp_data>>

TypeOK ==
    /\ len \in RecLens
    /\ pc \in {"check", "outer", "inner", "rows", "invalid"}
    /\ k \in 1..Len(BlockStarts) + 1
    /\ js \in Seq(0..255)
    /\ temp_data \in Seq([lo : 0..255, hi : 0..263])

Init ==
    /\ len \in RecLens
    /\ pc = "check"
    /\ k = 1
    /\ js = <<>>
    /\ temp_data = <<>>

\* if len(imu_rec) != 255: print and return.
Check ==
    /\ pc = "check"
    /\ pc' = IF len # 255 THEN "invalid" ELSE "outer"
    /\ UNCHANGED <<len, k, js, temp_data>>

\* One pass of "for i in range(9,210,40)": the timestamp cell, read from
\* imu_rec[9:17] whatever i is, and the inner range of j.
Timestamp ==
    /\ pc = "outer"
    /\ k <= Len(BlockStarts)
    /\ LET i == BlockStarts[k]
       IN  /\ temp_data' = Append(temp_data, Slice(9, 17))
           /\ js' = PyRange(i + 8, i + 39, 4)
    /\ pc' = "inner"
    /\ UNCHANGED <<len, k>>

\* One pass of "for j in range(i+8, i+39, 4)": struct.unpack('<f',
\* imu_rec[j:j+4]).
Value ==
    /\ pc = "inner"
    /\ js # <<>>
    /\ temp_data' = Append(temp_data, Slice(Head(js), Head(js) + 4))
    /\ js' = Tail(js)
    /\ UNCHANGED <<len, pc, k>>

InnerDone ==
    /\ pc = "inner"
    /\ js = <<>>
    /\ pc' = "outer"
    /\ k' = k + 1
    /\ UNCHANGED <<len, js, temp_data>>

\* The outer loop is over: the rows are built and written to the CSV.
WriteRows ==
    /\ pc = "outer"
    /\ k > Len(BlockStarts)
    /\ pc' = "rows"
    /\ UNCHANGED <<len, k, js, temp_data>>

Next == Check \/ Timestamp \/ Value \/ InnerDone \/ WriteRows

Spec == Init /\ [][Next]_vars

\* Row r of the CSV: temp_data[i .. i+8] for i in range(0, len(temp_data), 9).
Row(r) == SubSeq(temp_data, 9 * (r - 1) + 1, 9 * r)

-----------------------------------------------------------------------------
(* Properties.                                                             *)

\* Each block of the record is 40 bytes: an 8-byte timestamp, then eight
\* 4-byte activity values.  Every CSV row the decoder fills reads the
\* timestamp and values of its own block.  The code reads every row's
\* timestamp from imu_rec[9:17], the first block's.
RowReadsOwnBlock ==
    \A r \in 1..(Len(temp_data) \div 9) :
        LET b == BlockStarts[r]
        IN  Row(r) = <<Slice(b, b + 8)>> \o [m \in 1..8 |-> Slice(b + 4 + 4 * m, b + 8 + 4 * m)]
=============================================================================
