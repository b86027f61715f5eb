----------------------------- MODULE MCLiveLesson -----------------------------
(* LiveLesson on small instances: model values for rows, pupils and request  *)
(* slots.  The slots are interchangeable; the lesson ids are not, a new row  *)
(* takes the first of them.  Only the runs of safety use the symmetry.       *)
EXTENDS LiveLesson, TLC

SlotSymmetry == Permutations(Requests)
=============================================================================
