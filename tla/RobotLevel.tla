----------------------------- MODULE RobotLevel -----------------------------
(***************************************************************************)
(* The rules of a 2D robot level and the picture the browser draws of it.  *)
(*                                                                         *)
(* The rules are World of robot_sim.py.  They run twice: in the sandbox,   *)
(* beside the pupil's program, where they record the commands attempted;   *)
(* and on the server, which replays that record and whose frames and       *)
(* verdict count.  The picture is grid-engine.ts: it knows no rule, and    *)
(* draws the board after n frames from the level and the frames alone.     *)
(*                                                                         *)
(* A program is the sequence of commands it performs; what its `if` and    *)
(* `while` asked the sensors is left out.  A board position is a pair.     *)
(***************************************************************************)
EXTENDS Integers, Sequences, FiniteSets, SequencesExt, Functions

CONSTANTS
    Level,      \* width, height, start, facing, walls, items, goals, marks, values, commands, max_steps, win
    None        \* no argument, no refusal, no paint, no value

\* What op makes of base with each element of seq in turn.
OneByOne(op(_, _), base, seq) ==
    LET upto[n \in 0 .. Len(seq)] == IF n = 0 THEN base ELSE op(upto[n - 1], seq[n])
    IN  upto[Len(seq)]

(***************************************************************************)
(* The world.                                                              *)
(***************************************************************************)
FACINGS == <<"up", "right", "down", "left">>
DELTA == [up |-> <<0, -1>>, right |-> <<1, 0>>, down |-> <<0, 1>>, left |-> <<-1, 0>>]
Moves == [move_up |-> "up", move_right |-> "right", move_down |-> "down", move_left |-> "left"]
Actions == DOMAIN Moves \cup {"move_forward", "turn_left", "turn_right", "take", "drop", "paint",
                             "read", "write"}
PAINT_COLORS == {"red", "green", "blue", "yellow"}

World ==
    [here |-> Level.start, facing |-> Level.facing, items |-> Level.items,
     values |-> Level.values, carrying |-> 0, painted |-> <<>>, values_read |-> {},
     steps |-> 0, commands |-> <<>>, frames |-> <<>>, stopped |-> "end_of_program"]

Board == (0 .. Level.width - 1) \X (0 .. Level.height - 1)

\* Of what robot_validate.check asks of a level: a cell has one type and lies on the grid.
ASSUME LevelAssumption ==
    /\ Level.width \in Nat /\ Level.height \in Nat
    /\ Level.start \in Board \ Level.walls
    /\ Level.items \cup Level.goals \subseteq Board
    /\ (Level.items \cup Level.goals) \cap Level.walls = {}
    /\ Level.commands \subseteq Actions
    /\ Level.win.op \in {"and", "or", "not"}
    /\ None \notin {"edge", "wall"}

blocked(p) ==
    IF p \notin Board THEN "edge" ELSE IF p \in Level.walls THEN "wall" ELSE None

ahead(w) == <<w.here[1] + DELTA[w.facing][1], w.here[2] + DELTA[w.facing][2]>>

\* What a command did: the world after it, what it changed on the floor, and the
\* refusal of the world, if it refused.
Did(w, cells, msg) == [world |-> w, cells |-> cells, msg |-> msg]
Refused(w, msg) == Did(w, <<>>, msg)

step_to(w) ==
    Did([w EXCEPT !.here = IF blocked(ahead(w)) = None THEN ahead(w) ELSE @], <<>>, blocked(ahead(w)))

turn(w, by) ==
    LET at == CHOOSE i \in 1 .. 4 : FACINGS[i] = w.facing
    IN  Did([w EXCEPT !.facing = FACINGS[((at - 1 + by) % 4) + 1]], <<>>, None)

Change(w, what, to) == <<[at |-> w.here, what |-> what, to |-> to]>>

take(w) ==
    IF w.here \notin w.items THEN Refused(w, "no_item")
    ELSE Did([w EXCEPT !.items = @ \ {w.here}, !.carrying = @ + 1], Change(w, "item", FALSE), None)

drop(w) ==
    IF w.carrying <= 0 THEN Refused(w, "carrying_nothing")
    ELSE IF w.here \in w.items THEN Refused(w, "floor_taken")
    ELSE Did([w EXCEPT !.items = @ \cup {w.here}, !.carrying = @ - 1], Change(w, "item", TRUE), None)

\* Paint stays: a second coat changes nothing.
paint(w, colour) ==
    IF w.here \in DOMAIN w.painted THEN Did(w, <<>>, None)
    ELSE Did([w EXCEPT !.painted = [p \in DOMAIN @ \cup {w.here} |-> IF p = w.here THEN colour ELSE @[p]]],
             Change(w, "painted", colour), None)

write(w, n) ==
    IF n = None THEN Did(w, <<>>, None)
    ELSE Did([w EXCEPT !.values[w.here] = n], Change(w, "value", n), None)

Effect(w, c) ==
    CASE c.name \in DOMAIN Moves -> step_to([w EXCEPT !.facing = Moves[c.name]])
      [] c.name = "move_forward" -> step_to(w)
      [] c.name = "turn_left"    -> turn(w, 3)
      [] c.name = "turn_right"   -> turn(w, 1)
      [] c.name = "take"         -> take(w)
      [] c.name = "drop"         -> drop(w)
      [] c.name = "paint"        -> paint(w, c.arg)
      [] c.name = "read"         -> Did([w EXCEPT !.values_read = @ \cup {w.here}], <<>>, None)
      [] c.name = "write"        -> write(w, c.arg)

Frame(w, cells, msg) ==
    [i |-> Len(w.frames), at |-> w.here, facing |-> w.facing, carrying |-> w.carrying,
     items_left |-> Cardinality(w.items), cells |-> cells, msg |-> msg]

\* A command the level offers, with an argument it takes.
Accepted(c) ==
    /\ c.name \in Level.commands
    /\ \/ c.arg = None \/ c.name = "write"
       \/ c.name = "paint" /\ c.arg \in PAINT_COLORS

\* One command.  A command that is not accepted and one past the allowance
\* stop the run before they are recorded; reading or writing a bare floor stops
\* it after the step is spent and the command recorded, without a frame.
perform(w, c) ==
    LET tried == [w EXCEPT !.steps = @ + 1, !.commands = Append(@, c)]
        done  == Effect(tried, c)
    IN  IF w.stopped # "end_of_program" THEN w
        ELSE IF ~Accepted(c) THEN [w EXCEPT !.stopped = "error"]
        ELSE IF w.steps >= Level.max_steps THEN [w EXCEPT !.stopped = "steps_exhausted"]
        ELSE IF c.name \in {"read", "write"} /\ w.here \notin DOMAIN w.values
        THEN [tried EXCEPT !.stopped = "error"]
        ELSE [done.world EXCEPT !.frames = Append(@, Frame(done.world, done.cells, done.msg))]

\* The world a program leaves.
After(program) == OneByOne(perform, World, program)

(***************************************************************************)
(* The verdict: a win expression of one level, conditions under an `and`,  *)
(* an `or` or a `not`.                                                     *)
(***************************************************************************)
Holds(w, c) ==
    CASE c.cond = "at_goal"           -> w.here \in Level.goals
      [] c.cond = "all_items_taken"   -> w.items = {}
      [] c.cond = "all_marks_painted" ->
            \A p \in DOMAIN Level.marks :
                p \in DOMAIN w.painted /\ Level.marks[p] \in {None, w.painted[p]}
      [] c.cond = "facing"            -> w.facing = c.dir
      [] c.cond = "steps_at_most"     -> w.steps <= c.n
      [] c.cond = "all_values_read"   -> DOMAIN w.values \subseteq w.values_read
      [] c.cond = "values_total"      -> SumFunction(w.values) = c.n

evaluate(w) ==
    CASE Level.win.op = "and" -> \A c \in Level.win.of : Holds(w, c)
      [] Level.win.op = "or"  -> \E c \in Level.win.of : Holds(w, c)
      [] Level.win.op = "not" -> \A c \in Level.win.of : ~Holds(w, c)

\* What the server answers for a program: the sandbox records the commands, the
\* replay of the record makes the frames and the verdict.
run(program) ==
    LET sandbox  == After(program)
        replayed == After(sandbox.commands)
    IN  [frames |-> replayed.frames, won |-> evaluate(replayed), steps |-> replayed.steps,
         stopped |-> IF replayed.stopped = "end_of_program" THEN sandbox.stopped
                     ELSE replayed.stopped]

(***************************************************************************)
(* The picture.                                                            *)
(***************************************************************************)
TypeOfCell(p) ==
    IF p \in Level.walls THEN "wall"
    ELSE IF p \in Level.items THEN "item"
    ELSE IF p \in Level.goals THEN "goal" ELSE "empty"

initialState ==
    [cells |-> [p \in Board |->
        [type |-> TypeOfCell(p), painted |-> FALSE, paintColor |-> None,
         value |-> IF p \in DOMAIN Level.values THEN Level.values[p] ELSE None]],
     robot |-> [at |-> Level.start, direction |-> Level.facing, collected |-> 0],
     goalReached |-> FALSE, stepsUsed |-> 0, collision |-> None]

\* mutant: a cell change of an item is not drawn.
paintOnly(state, c) ==
    IF c.what = "item" THEN state
    ELSE [state EXCEPT !.cells[c.at].painted = TRUE]

\* An item that comes or goes decides the whole type of its cell: a goal an item
\* was dropped on is not drawn as a goal again.
applyChange(state, c) ==
    LET cell == state.cells[c.at]
        new  == CASE c.what = "item"    -> [cell EXCEPT !.type = IF c.to THEN "item" ELSE "empty"]
                  [] c.what = "painted" -> [cell EXCEPT !.painted = TRUE, !.paintColor = c.to]
                  [] c.what = "value"   -> [cell EXCEPT !.value = c.to]
    IN  [state EXCEPT !.cells[c.at] = new]

draw(state, frame) ==
    [OneByOne(applyChange, state, frame.cells) EXCEPT
        !.robot = [at |-> frame.at, direction |-> frame.facing,
                   collected |-> Cardinality(Level.items) - frame.items_left],
        !.stepsUsed = frame.i + 1,
        !.collision = frame.msg]

stateAt(frames, count, won) ==
    [OneByOne(draw, initialState, SubSeq(frames, 1, count)) EXCEPT
        !.goalReached = won /\ frames # <<>> /\ count = Len(frames)]
=============================================================================
