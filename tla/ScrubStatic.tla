----------------------------- MODULE ScrubStatic -----------------------------
(***************************************************************************)
(* commercial_collar/scrub_static.py: filters the static-analysis report  *)
(* statictest.txt into newstatic.txt.  One action per iteration of        *)
(* "for line in oldfile": a line naming a bad word is dropped and three   *)
(* next(oldfile) calls drop the lines after it; a line naming an "other"  *)
(* skip is dropped with one next(oldfile); any other line is written.     *)
(* next() at the end of the file raises StopIteration, which nothing      *)
(* catches: the script ends with a traceback, the "with" closing both     *)
(* files on what was written so far.                                      *)
(***************************************************************************)
EXTENDS Integers, Sequences

CONSTANT Inputs     \* the files statictest.txt may hold (see ScrubSpec)

VARIABLES
    lines,  \* statictest.txt: per line, the listed phrases it contains
    pos,    \* the position of the file iterator: the next line it yields
    out,    \* newstatic.txt: the positions of the lines written
    pc      \* "loop", "done" or "crashed"

vars == <<lines, pos, out, pc>>

bad_words ==
    {"/Users/stevereed/Code/Culvert/purina/modules",
     "/Users/stevereed/Code/Culvert/purina/zephyr",
     "/Users/stevereed/Code/Culvert/purina/nrf",
     "macro name is a reserved identifier",
     "is reserved because it starts with",
     "unused parameter",
     "/Users/stevereed/Code/Culvert/purina/bootloader",
     "/opt/nordic/ncs/toolchains/20d68df7e5/opt/zephyr-sdk",
     "clang-diagnostic-switch-default"}

other_skips == {"defects in", "Found no defects in", "defect(s) in"}

\* any(bad_word in line for bad_word in bad_words)
IsBad(l) == \E w \in bad_words : w \in l
\* any(bad_word in line for bad_word in other_skips)
IsOther(l) == \E w \in other_skips : w \in l

\* Mutant: the bad-word branch skips two following lines, range(2).
BadSkipTwo == 2

\* "for _ in range(3): next(oldfile)"
BadSkip == 3

\* The lines a dropped line takes with it: next(oldfile) is called this
\* many times.
SkipOf(l) ==
    IF IsBad(l) THEN BadSkip ELSE IF IsOther(l) THEN 1 ELSE 0

TypeOK ==
    /\ lines \in Inputs
    /\ pos \in 1..(Len(lines) + 1)
    /\ out \in Seq(1..Len(lines))
    /\ pc \in {"loop", "done", "crashed"}

\* Both files opened; nothing written yet.
Init ==
    /\ lines \in Inputs
    /\ pos = 1
    /\ out = <<>>
    /\ pc = "loop"

\* One iteration of the for loop on the line at pos, whole: the line is
\* written, or dropped with the SkipOf lines after it, or next() runs off
\* the end of the file and raises StopIteration.
Iterate ==
    /\ pc = "loop"
    /\ pos <= Len(lines)
    /\ LET l == lines[pos]
           n == SkipOf(l)
       IN  IF pos + n <= Len(lines)
              THEN /\ pos' = pos + 1 + n
                   /\ out' = IF n = 0 THEN Append(out, pos) ELSE out
                   /\ UNCHANGED pc
              ELSE /\ pc' = "crashed"
                   /\ UNCHANGED <<pos, out>>
    /\ UNCHANGED lines

\* The iterator is exhausted: the loop ends and the with block closes both
\* files.
EndOfFile ==
    /\ pc = "loop"
    /\ pos > Len(lines)
    /\ pc' = "done"
    /\ UNCHANGED <<lines, pos, out>>

Next == Iterate \/ EndOfFile

Spec == Init /\ [][Next]_vars

-----------------------------------------------------------------------------
(* Properties.                                                             *)

\* The refinement: the detailed loop, seen only when the script has ended,
\* implements ScrubSpec.
Abstract == INSTANCE ScrubSpec WITH
    BadWords <- bad_words,
    OtherSkips <- other_skips,
    written <- IF pc = "loop" THEN <<>> ELSE out,
    status <- IF pc = "loop" THEN "running" ELSE pc

\* The for loop with its next(oldfile) skips writes exactly the lines
\* ScrubSpec keeps, whether it reaches the end of the file or stops on a
\* StopIteration: no line naming a bad word or an "other" skip reaches
\* newstatic.txt, and no line other than the ones a skip swallows is lost.
ScrubRefinesSpec == Abstract!Spec

\* scrub_static.py runs to the end of every report: no next(oldfile) runs
\* off the end of the file.
NoStopIteration == pc # "crashed"
=============================================================================
