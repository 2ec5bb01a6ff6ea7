------------------------------ MODULE ScrubSpec ------------------------------
(***************************************************************************)
(* What scrub_static.py promises of newstatic.txt, in one step: the lines *)
(* of statictest.txt with every line that names a bad word dropped along  *)
(* with the 3 lines after it, and every line that names an "other" skip   *)
(* dropped along with the line after it; the lines swallowed by a skip    *)
(* are not themselves examined.  The script may also end with a          *)
(* traceback, but only after it has written that whole result.           *)
(*                                                                         *)
(* A line is abstracted to the set of listed phrases it contains; the    *)
(* output is the sequence of the positions of the input lines written.    *)
(***************************************************************************)
EXTENDS Integers, Sequences

CONSTANTS
    Inputs,     \* the files statictest.txt may hold
    BadWords,   \* phrases whose line is dropped with the 3 after it
    OtherSkips  \* phrases whose line is dropped with the one after it

VARIABLES lines, written, status

\* The lines the loop visits are the heads: the first line, and after a
\* head h the line h+1, h+2 or h+4 as h is kept, an "other" line or a bad
\* line.  Kept(ls, i) lists the heads from i on that match neither list.
RECURSIVE Kept(_, _)
Kept(ls, i) ==
    IF i > Len(ls) THEN <<>>
    ELSE IF ls[i] \cap BadWords # {} THEN Kept(ls, i + 4)
    ELSE IF ls[i] \cap OtherSkips # {} THEN Kept(ls, i + 2)
    ELSE <<i>> \o Kept(ls, i + 1)

Init ==
    /\ lines \in Inputs
    /\ written = <<>>
    /\ status = "running"

Finish ==
    /\ status = "running"
    /\ written' = Kept(lines, 1)
    /\ status' = "done"
    /\ UNCHANGED lines

\* A StopIteration can only come while a skip swallows the last lines of
\* the file, after every line the result keeps was written.
Abort ==
    /\ status = "running"
    /\ written' = Kept(lines, 1)
    /\ status' = "crashed"
    /\ UNCHANGED lines

Spec == Init /\ [][Finish \/ Abort]_<<lines, written, status>>
=============================================================================
