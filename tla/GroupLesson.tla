----------------------------- MODULE GroupLesson -----------------------------
(***************************************************************************)
(* What live lessons promise a group, whatever requests, Redis and the     *)
(* database do underneath (live_lessons/service.py start_lesson,           *)
(* finalize_lesson): one lesson at a time; a lesson that is over stays     *)
(* over; a new one starts when there is none, or takes the place of an     *)
(* abandoned one in a single step.                                         *)
(***************************************************************************)
CONSTANTS Lessons, NoLesson

VARIABLES
  current,        (* the group's live lesson                                 *)
  finished        (* the lessons it has had                                  *)

GroupInit == current = NoLesson /\ finished = {}

Begin(l) ==
  /\ current = NoLesson
  /\ l \notin finished
  /\ current' = l
  /\ UNCHANGED finished

Close ==
  /\ current # NoLesson
  /\ finished' = finished \cup {current}
  /\ current' = NoLesson

Replace(l) ==
  /\ current # NoLesson
  /\ l \notin finished \cup {current}
  /\ finished' = finished \cup {current}
  /\ current' = l

GroupNext == Close \/ \E l \in Lessons : Begin(l) \/ Replace(l)

GroupSpec == GroupInit /\ [][GroupNext]_<<current, finished>>
=============================================================================
