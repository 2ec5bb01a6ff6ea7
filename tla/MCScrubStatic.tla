---------------------------- MODULE MCScrubStatic ----------------------------
(* Every report of up to MaxLines lines, each line plain, naming a bad   *)
(* word, naming an "other" skip ("Found no defects in", which contains    *)
(* the other skip "defects in" too), or naming one of each.               *)
EXTENDS ScrubStatic, SequencesExt

MaxLines == 6
LineKinds ==
    {{}, {"unused parameter"}, {"Found no defects in", "defects in"},
     {"unused parameter", "defect(s) in"}}
MCInputs == SeqOf(LineKinds, MaxLines)
=============================================================================
