-------------------------- MODULE MCCourseProgress --------------------------
\* A course of two lessons: two exercises in the first, a button in the second.
EXTENDS CourseProgress, TLC

CONSTANTS e1, e2, l1, l2

TwoExercises == e1 :> l1 @@ e2 :> l1
=============================================================================
