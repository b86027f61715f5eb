------------------------- MODULE MCLessonChannel -------------------------
(* Small instances of LessonChannel for TLC: every constant is a model    *)
(* value or a number of the configuration.                                *)
EXTENDS LessonChannel, TLC

CONSTANTS p1, r1, r2, blank, task

OnePage   == {p1}
TwoScenes == {blank, task}
==========================================================================
