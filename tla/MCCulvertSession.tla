------------------------- MODULE MCCulvertSession -------------------------
(* Instantiates CulvertSession for TLC: two iterations with two session   *)
(* uids, at most two records of each kind per session; ub is the session *)
(* --bypass names, which the collar may be recording at power-on.        *)
EXTENDS CulvertSession

CONSTANTS u1, u2, ub   \* session uids (model values)

MCUids == {u1, u2}
MCAllUids == {u1, u2, ub}
MCIterUid == [i \in 0..1 |-> IF i = 0 THEN u1 ELSE u2]
=============================================================================
