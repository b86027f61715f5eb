--------------------------- MODULE MCLessonEditor ---------------------------
(* Small instance of LessonEditor: one opening of the editor and one course   *)
(* page, two lessons, four exercises: one is placed, one only in the library. *)
EXTENDS LessonEditor

CONSTANTS l1, l2, x1, x2, x3, x4, e1, p1

\* A lesson of one page with an exercise and a block whose type is not picked yet;
\* l2 is of an old type.
MCFirstSaved ==
  [l \in Lessons |->
     IF l \in Legacy THEN [title |-> 0, old |-> TRUE, pages |-> <<>>]
     ELSE [title |-> 0, old |-> FALSE,
           pages |-> <<[id |-> <<"page", 0>>, title |-> 0,
                        blocks |-> <<Block(<<"stored", 0>>, "exercise", x1, 0),
                                    Block(<<"stored", 1>>, "exercise", Unset, 1)>>]>>]]

\* The editor shows the lesson the panel shows, or the one of the old type.
MCShown == {[p \in Pages |-> l1], [p \in Pages |-> IF p \in Editors THEN l2 ELSE l1]}
=============================================================================
