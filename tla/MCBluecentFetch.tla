-------------------------- MODULE MCBluecentFetch --------------------------
(* Instantiates BluecentFetch for TLC: M1_Demo_record_Fetch.py fetches the *)
(* stored session s1; csv_file.py records and fetches the new session s2. *)
EXTENDS BluecentFetch

CONSTANTS s1, s2   \* session uids (model values)

MCUids == {s1, s2}
MCSesUidOf == [sc \in Scripts |-> IF sc = "m1_fetch" THEN s1 ELSE s2]
=============================================================================
