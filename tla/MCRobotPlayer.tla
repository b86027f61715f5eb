---------------------------- MODULE MCRobotPlayer ----------------------------
(***************************************************************************)
(* A board of two by two: an item, a mark and a number under the robot, a  *)
(* goal to its right, a wall below, an edge everywhere else.  The programs *)
(* win by putting an item on the goal and taking it up again, paint twice, *)
(* bump into the wall, turn, read where there is no number, call a command *)
(* the level does not offer, name no colour, and run past the allowance.   *)
(***************************************************************************)
EXTENDS RobotPlayer, TLC

Bare(name) == [name |-> name, arg |-> None]
With(name, arg) == [name |-> name, arg |-> arg]

MCLevel ==
    [width |-> 2, height |-> 2, start |-> <<0, 0>>, facing |-> "right",
     walls |-> {<<0, 1>>}, items |-> {<<0, 0>>}, goals |-> {<<1, 0>>, <<1, 1>>},
     marks |-> (<<0, 0>> :> "red"), values |-> (<<0, 0>> :> 1),
     commands |-> {"move_forward", "move_down", "move_right", "turn_left",
                   "take", "drop", "paint", "read", "write"},
     max_steps |-> 4,
     win |-> [op |-> "and", of |-> {[cond |-> "at_goal"], [cond |-> "all_items_taken"]}]]

MCTyped == {Bare("drop")}

MCPrograms ==
    {<<>>,
     <<Bare("move_up")>>,
     <<With("paint", "mauve")>>,
     <<Bare("take"), Bare("move_forward"), Bare("drop"), Bare("take")>>,
     <<With("write", 3), With("paint", "red"), With("paint", "blue"), Bare("turn_left")>>,
     <<Bare("move_down"), Bare("move_right"), Bare("read")>>}
=============================================================================
