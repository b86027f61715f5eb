----------------------------- MODULE RobotPlayer -----------------------------
(***************************************************************************)
(* The page on which a pupil runs a robot program: robot-2d-exercise.tsx   *)
(* and its TracePlayer (trace-player.ts).                                  *)
(*                                                                         *)
(* Run and Step send the program to the server and, when the answer comes, *)
(* load its frames into the player.  Run then starts a playback: an async  *)
(* loop that shows a frame, sleeps, and looks again whether it still       *)
(* plays.  Every press of Run starts a loop and none is cancelled: a loop  *)
(* learns when it wakes, from a generation number, that the player has     *)
(* been stopped or loaded since.  Requests are not cancelled either.       *)
(***************************************************************************)
EXTENDS RobotLevel

CONSTANTS
    Programs,   \* the programs of the pupil, sequences of commands
    Typed,      \* the commands the pupil may append while the page is open
    MaxEdits,   \* bound on edits
    MaxPresses  \* bound on presses of Run, Step, Pause and Reset

\* Every command the pupil writes.
Commands == Typed \cup UNION {Range(p) : p \in Programs}

ASSUME ProgramsAssumption ==
    /\ Programs \subseteq Seq(Commands)
    /\ MaxEdits \in Nat /\ MaxPresses \in Nat

\* Every program the pupil may come to have, and what the server answers for it.
Sources == UNION {{p \o q : p \in Programs} : q \in UNION {[1 .. n -> Typed] : n \in 0 .. MaxEdits}}
answers == [p \in Sources |-> run(p)]

VARIABLES
    text,       \* currentSource()
    trace,      \* the run whose frames are loaded: frames, won, ranSource
    player,     \* TracePlayer: index, playing, paused, generation
    loops,      \* playbacks asleep in play(), with the generation they began in
    requests,   \* runs asked of the server
    grid,       \* gridState, what is drawn
    result,     \* the run whose result is shown
    ui,         \* running and paused, as the buttons show them
    edits, presses

page == <<trace, player, loops, grid, result, ui>>
vars == <<text, page, requests, edits, presses>>

Presses == 1 .. MaxPresses
NoTrace == [id |-> 0, source |-> <<>>, frames |-> <<>>, won |-> FALSE]

Init ==
    /\ text \in Programs
    /\ trace = NoTrace
    /\ player = [index |-> -1, playing |-> FALSE, paused |-> FALSE, generation |-> 0]
    /\ loops = {} /\ requests = {}
    /\ grid = initialState
    /\ result = 0
    /\ ui = [running |-> FALSE, paused |-> FALSE]
    /\ edits = 0 /\ presses = 0

(***************************************************************************)
(* The player.  Each operator gives the player after the call.             *)
(***************************************************************************)
has_next == player.index < Len(trace.frames) - 1

\* mutant: load leaves the generation as it is.
load_quietly == [index |-> -1, playing |-> FALSE, paused |-> FALSE, generation |-> player.generation]

\* mutant: load leaves the index as it is.
load_in_place ==
    [index |-> player.index, playing |-> FALSE, paused |-> FALSE, generation |-> player.generation + 1]

load == [index |-> -1, playing |-> FALSE, paused |-> FALSE, generation |-> player.generation + 1]

reset == load

Drawn(t, index) == stateAt(t.frames, index + 1, t.won)

(***************************************************************************)
(* The pupil.                                                              *)
(***************************************************************************)
Press == presses < MaxPresses /\ presses' = presses + 1

Edit ==
    /\ edits < MaxEdits
    /\ edits' = edits + 1
    /\ \E c \in Typed : text' = Append(text, c)
    /\ UNCHANGED <<page, requests, presses>>

\* The player forgets where it was, and keeps the trace.
Clear ==
    /\ player' = reset
    /\ grid' = initialState
    /\ result' = 0
    /\ ui' = [running |-> FALSE, paused |-> FALSE]
    /\ UNCHANGED <<trace, loops>>

handleReset ==
    /\ Press
    /\ Clear
    /\ UNCHANGED <<text, requests, edits>>

\* runProgram up to its request: an empty program is refused on the page.
Ask(kind) ==
    requests' = requests \cup
        IF text = <<>> THEN {} ELSE {[id |-> presses + 1, kind |-> kind, source |-> text]}

\* The Run button is hidden while a program runs, Ctrl+Enter in the editor is not.
handlePlay ==
    /\ Press
    /\ Clear
    /\ Ask("play")
    /\ UNCHANGED <<text, edits>>

stale == trace.frames = <<>> \/ trace.source # text

ShowNext ==
    /\ player' = [player EXCEPT !.index = @ + 1]
    /\ grid' = Drawn(trace, player.index + 1)

handleStep ==
    /\ Press
    /\ ~ui.running
    /\ \/ /\ stale
          /\ Clear
          /\ Ask("step")
       \/ /\ ~stale
          /\ IF has_next THEN ShowNext ELSE UNCHANGED <<player, grid>>
          /\ UNCHANGED <<trace, loops, result, ui, requests>>
    /\ UNCHANGED <<text, edits>>

handlePause ==
    /\ Press
    /\ ui.running
    /\ ui' = [ui EXCEPT !.paused = ~@]
    /\ player' = [player EXCEPT !.paused = ~ui.paused]
    /\ UNCHANGED <<text, trace, loops, grid, result, requests, edits>>

(***************************************************************************)
(* The server's answers.  Nothing asks whether the answer is still wanted. *)
(***************************************************************************)
\* The frames of the answer are loaded; a Step shows the first of them.  A Run
\* starts a playback, whose first turn runs at once: with no frame to show it is
\* over before it sleeps.
Answer(r) ==
    LET frames == answers[r.source].frames
        loaded == [id |-> r.id, source |-> r.source, frames |-> frames,
                   won |-> answers[r.source].won]
        shown  == IF frames = <<>> THEN -1 ELSE 0
        plays  == r.kind = "play" /\ frames # <<>>
    IN  /\ r \in requests
        /\ requests' = requests \ {r}
        /\ trace' = loaded
        /\ result' = r.id
        /\ player' = [load EXCEPT !.index = IF frames = <<>> THEN @ ELSE @ + 1, !.playing = plays]
        /\ grid' = Drawn(loaded, shown)
        /\ loops' = IF plays THEN loops \cup {[id |-> r.id, generation |-> player'.generation]}
                    ELSE loops
        /\ ui' = IF r.kind = "play" THEN [running |-> plays, paused |-> ui.paused /\ plays] ELSE ui
        /\ UNCHANGED <<text, edits, presses>>

RunFails(r) ==
    /\ r \in requests
    /\ requests' = requests \ {r}
    /\ UNCHANGED <<text, page, edits, presses>>

(***************************************************************************)
(* A playback wakes.                                                       *)
(***************************************************************************)
Current(l) == player.generation = l.generation
Live(l) == player.playing /\ Current(l)

\* mutant: the pause is looked at before the generation.
RestsWhilePaused(l) == player.paused

\* A paused playback looks again every 50 ms, which changes nothing.
Rests(l) == Live(l) /\ player.paused

\* The playback is over.  It says so to the player, whoever plays by now; to the
\* page only if the player has not been loaded or stopped since.
Ends(l) ==
    /\ loops' = loops \ {l}
    /\ player' = [player EXCEPT !.playing = FALSE]
    /\ ui' = IF Current(l) THEN [running |-> FALSE, paused |-> FALSE] ELSE ui
    /\ UNCHANGED grid

Wake(l) ==
    /\ l \in loops
    /\ ~Rests(l)
    /\ \/ /\ Live(l) /\ has_next
          /\ ShowNext
          /\ UNCHANGED <<loops, ui>>
       \/ /\ ~(Live(l) /\ has_next)
          /\ Ends(l)
    /\ UNCHANGED <<text, trace, result, requests, edits, presses>>

(***************************************************************************)
(* Specification.                                                          *)
(***************************************************************************)
Next ==
    \/ Edit \/ handleReset \/ handlePlay \/ handleStep \/ handlePause
    \/ \E r \in requests : Answer(r) \/ RunFails(r)
    \/ \E l \in loops : Wake(l)

\* The browser settles a request in the end and fires the timer of a sleep.
Fairness ==
    /\ WF_vars(\E r \in requests : Answer(r) \/ RunFails(r))
    /\ WF_vars(\E l \in loops : Wake(l))

Spec == Init /\ [][Next]_vars /\ Fairness

(***************************************************************************)
(* Properties.                                                             *)
(***************************************************************************)

\* The types, and the index of the player stays within the frames it was loaded with
\* (this.frames[this.index] in trace-player.ts:102 is always a frame).
TypeOK ==
    /\ text \in Seq(Commands)
    /\ trace.id \in 0 .. presses /\ trace.won \in BOOLEAN
    /\ player.index \in -1 .. Len(trace.frames) - 1
    /\ player.playing \in BOOLEAN /\ player.paused \in BOOLEAN /\ player.generation \in Nat
    /\ loops \subseteq [id : Presses, generation : Nat]
    /\ \A r \in requests : r.id \in Presses /\ r.kind \in {"play", "step"} /\ r.source # <<>>
    /\ result \in {0, trace.id}
    /\ ui \in [running : BOOLEAN, paused : BOOLEAN]

\* The world that each beginning of a program leaves, performed on a fresh level.
Fresh == [p \in UNION {Prefixes(p) : p \in Sources} |-> After(p)]

\* The item cells of a picture.
ItemsDrawn(g) == {p \in Board : g.cells[p].type = "item"}

\* A goal some of the frames put an item on, or took one from: drawn as bare floor afterwards.
Covered(frames) ==
    {p \in Level.goals : \E i \in DOMAIN frames :
        LET cells == frames[i].cells
        IN  cells # <<>> /\ cells[1].what = "item" /\ cells[1].at = p}

\* The picture shows world, where final is the world at the end of the program.
Shows(world, final) ==
    /\ grid.robot = [at |-> world.here, direction |-> world.facing,
                     collected |-> Cardinality(Level.items) - Cardinality(world.items)]
    /\ grid.stepsUsed = world.steps
    /\ ItemsDrawn(grid) = world.items
    /\ \A p \in Board :
          /\ grid.cells[p].painted = (p \in DOMAIN world.painted)
          /\ p \in DOMAIN world.painted => grid.cells[p].paintColor = world.painted[p]
          /\ p \in DOMAIN world.values => grid.cells[p].value = world.values[p]
          /\ p \in Level.walls <=> grid.cells[p].type = "wall"
    /\ \A p \in Level.goals \ (Level.items \cup Covered(SubSeq(trace.frames, 1, player.index + 1))) :
            grid.cells[p].type = "goal"
    /\ grid.goalReached <=> /\ world.frames # <<>> /\ world.frames = final.frames
                            /\ evaluate(final)

\* What is drawn is where the robot really is: after any run, answers in any order, steps,
\* pauses and resets, the board shows the world that the first commands of the program
\* leave, as many as there are frames shown, performed anew on a fresh level without the
\* server, its replay and its frames.  The board announces the goal only at the end of a
\* program whose own run wins.
DrawnIsWorld ==
    \E world \in {Fresh[SubSeq(trace.source, 1, player.index + 1)]},
       final \in {Fresh[trace.source]} : Shows(world, final)

\* At most one playback may still show frames, and it is the one of the run that is
\* loaded: an old loop never walks the frames of a newer program
\* ("so a sleeping play loop knows it is stale", trace-player.ts:77).
LoopsAreTheirs ==
    \A l \in loops : Live(l) =>
        /\ l.id = trace.id
        /\ \A k \in loops : Live(k) => k = l

\* The page comes to rest: every run asked for is settled and every playback, stale ones
\* included, ends, whatever is pressed meanwhile; only the current one may wait, held on
\* pause.
Busy == requests # {} \/ \E l \in loops : ~(Live(l) /\ player.paused)
PageComesToRest == Busy ~> ~Busy

\* A playback that nobody stopped shows every frame of its program ("Play from wherever
\* the index is. Resolves when it stops or runs out.", trace-player.ts:119).
PlaybackIsNotCutShort ==
    [][\A l \in loops \ loops' : player.generation = l.generation => ~has_next]_vars
=============================================================================
