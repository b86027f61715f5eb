-------------------------- MODULE RobotPlayerProofs --------------------------
(* Proofs about RobotPlayer, for every level, every set of programs and every *)
(* number of presses: which playback may move the player, and that the        *)
(* picture is the world.                                                      *)
EXTENDS RobotPlayer, FiniteSetTheorems, SequenceTheorems, TLAPS

-----------------------------------------------------------------------------
(* Induction on the natural numbers, from their well-foundedness: a set of     *)
(* numbers takes the place of the predicate.                                   *)
Below == {ss \in Nat \X Nat : ss[1] < ss[2]}

LEMMA Induction ==
  ASSUME NEW S \in SUBSET Nat, 0 \in S, \A n \in S : n + 1 \in S
  PROVE  \A n \in Nat : n \in S
  <1> SUFFICES ASSUME Nat \ S # {} PROVE FALSE
    OBVIOUS
  <1>1. IsWellFoundedOn(Below, Nat)
    BY NatLessThanWellFounded DEF OpToRel, Below
  <1>2. PICK x \in Nat \ S : \A y \in Nat \ S : ~ (<<y, x>> \in Below)
    BY <1>1, WFMin
  <1>3. x # 0 /\ x - 1 \in Nat /\ <<x - 1, x>> \in Below
    BY <1>2 DEF Below
  <1>4. x - 1 \in S
    BY <1>2, <1>3
  <1> QED
    BY <1>2, <1>3, <1>4

-----------------------------------------------------------------------------
(* The folds of RobotLevel.  The provers cannot instantiate an operator that   *)
(* is a parameter, so the three are told apart by a name and share one proof.  *)
Apply(fold, a, x) ==
  IF fold = "perform" THEN perform(a, x)
  ELSE IF fold = "draw" THEN draw(a, x) ELSE applyChange(a, x)

\* f[n] is what the fold makes of base with the first n elements of seq.
Folded(fold, base, seq, m, f) ==
  f = [n \in 0 .. m |-> IF n = 0 THEN base ELSE Apply(fold, f[n - 1], seq[n])]

LEMMA FoldExists ==
  ASSUME NEW fold, NEW base, NEW seq, NEW m \in Nat
  PROVE  \E f : Folded(fold, base, seq, m, f)
  <1> DEFINE S == {k \in Nat : \E f : Folded(fold, base, seq, k, f)}
  <1>1. 0 \in S
    <2>1. Folded(fold, base, seq, 0, [n \in 0 .. 0 |-> base])
      BY DEF Folded
    <2> QED
      BY <2>1
  <1>2. ASSUME NEW k \in S PROVE k + 1 \in S
    <2>1. PICK g : Folded(fold, base, seq, k, g)
      BY <1>2
    <2> DEFINE h == [n \in 0 .. k + 1 |-> IF n <= k THEN g[n] ELSE Apply(fold, g[k], seq[k + 1])]
               i == [n \in 0 .. k + 1 |-> IF n = 0 THEN base ELSE Apply(fold, h[n - 1], seq[n])]
    <2>2. \A n \in 0 .. k : g[n] = IF n = 0 THEN base ELSE Apply(fold, g[n - 1], seq[n])
      BY <2>1 DEF Folded
    <2>3. \A n \in 0 .. k + 1 : h[n] = IF n = 0 THEN base ELSE Apply(fold, h[n - 1], seq[n])
      BY <2>2
    <2>4. h = i
      BY <2>3
    <2>5. Folded(fold, base, seq, k + 1, h)
      BY <2>4 DEF Folded
    <2> QED
      BY <2>5
  <1> HIDE DEF S
  <1>3. m \in S
    BY <1>1, <1>2, Induction DEF S
  <1> QED
    BY <1>3 DEF S

LEMMA FoldsAgree ==
  ASSUME NEW fold, NEW base, NEW p, NEW q, NEW m \in Nat, NEW k \in Nat, m <= k,
         NEW f, Folded(fold, base, p, m, f), NEW g, Folded(fold, base, q, k, g),
         \A n \in 1 .. m : p[n] = q[n]
  PROVE  \A n \in 0 .. m : f[n] = g[n]
  <1> DEFINE S == {n \in Nat : n <= m => f[n] = g[n]}
  <1>1. /\ \A n \in 0 .. m : f[n] = IF n = 0 THEN base ELSE Apply(fold, f[n - 1], p[n])
        /\ \A n \in 0 .. k : g[n] = IF n = 0 THEN base ELSE Apply(fold, g[n - 1], q[n])
    BY DEF Folded
  <1>2. 0 \in S
    BY <1>1
  <1>3. ASSUME NEW n \in S PROVE n + 1 \in S
    <2> SUFFICES ASSUME n + 1 <= m PROVE f[n + 1] = g[n + 1]
      OBVIOUS
    <2>1. f[n] = g[n] /\ p[n + 1] = q[n + 1] /\ n + 1 \in 0 .. m /\ n + 1 \in 0 .. k
          /\ (n + 1) - 1 = n
      OBVIOUS
    <2> QED
      BY <1>1, <2>1
  <1> HIDE DEF S
  <1>4. \A n \in Nat : n \in S
    BY <1>2, <1>3, Induction DEF S
  <1> QED
    BY <1>4 DEF S

\* What a fold makes of a sequence and of one element more.
LEMMA FoldAppend ==
  ASSUME NEW fold, NEW base, NEW C, NEW p \in Seq(C), NEW c \in C,
         NEW f, Folded(fold, base, p, Len(p), f),
         NEW g, Folded(fold, base, Append(p, c), Len(p) + 1, g)
  PROVE  g[Len(p) + 1] = Apply(fold, f[Len(p)], c)
  <1> DEFINE q == Append(p, c)
             k == Len(p)
  <1>1. k \in Nat /\ q[k + 1] = c /\ \A n \in 1 .. k : p[n] = q[n]
    BY AppendProperties, LenProperties
  <1>2. Folded(fold, base, p, k, f) /\ Folded(fold, base, q, k + 1, g)
    OBVIOUS
  <1> HIDE DEF q, k
  <1>3. f[k] = g[k]
    BY <1>1, <1>2, FoldsAgree
  <1>4. g[k + 1] = Apply(fold, g[k], q[k + 1])
    BY <1>1, <1>2 DEF Folded
  <1> QED
    BY <1>1, <1>3, <1>4 DEF k

LEMMA PerformFold ==
  ASSUME NEW p, Len(p) \in Nat
  PROVE  \E f : Folded("perform", World, p, Len(p), f) /\ After(p) = f[Len(p)]
  <1> DEFINE Upto(f) == f = [n \in 0 .. Len(p) |-> IF n = 0 THEN World ELSE perform(f[n - 1], p[n])]
             upto[n \in 0 .. Len(p)] == IF n = 0 THEN World ELSE perform(upto[n - 1], p[n])
  <1>1. After(p) = upto[Len(p)]
    BY DEF After, OneByOne
  <1>2. upto = CHOOSE f : Upto(f)
    OBVIOUS
  <1>3. \A f : Upto(f) <=> Folded("perform", World, p, Len(p), f)
    BY DEF Folded, Apply
  <1> HIDE DEF upto, Upto
  <1>4. Upto(upto)
    BY <1>2, <1>3, FoldExists
  <1> QED
    BY <1>1, <1>3, <1>4

LEMMA AfterEmpty == After(<<>>) = World
  <1>1. PICK f : Folded("perform", World, <<>>, 0, f) /\ After(<<>>) = f[0]
    BY PerformFold
  <1>2. f[0] = World
    BY <1>1 DEF Folded
  <1> QED
    BY <1>1, <1>2

LEMMA AfterAppend ==
  ASSUME NEW C, NEW p \in Seq(C), NEW c \in C
  PROVE  After(Append(p, c)) = perform(After(p), c)
  <1> DEFINE q == Append(p, c)
             k == Len(p)
  <1>1. k \in Nat /\ Len(q) = k + 1
    BY AppendProperties, LenProperties
  <1> HIDE DEF q, k
  <1>2. PICK f : Folded("perform", World, p, k, f) /\ After(p) = f[k]
    BY <1>1, PerformFold DEF k
  <1>3. PICK g : Folded("perform", World, q, k + 1, g) /\ After(q) = g[k + 1]
    BY <1>1, PerformFold
  <1>4. g[k + 1] = Apply("perform", f[k], c)
    BY <1>2, <1>3, FoldAppend DEF q, k
  <1>5. Apply("perform", f[k], c) = perform(f[k], c)
    BY DEF Apply
  <1> QED
    BY <1>2, <1>3, <1>4, <1>5 DEF q

\* The picture after some frames, before the goal is announced.
Picture(frames) == OneByOne(draw, initialState, frames)

LEMMA DrawFold ==
  ASSUME NEW s, Len(s) \in Nat
  PROVE  \E f : Folded("draw", initialState, s, Len(s), f) /\ Picture(s) = f[Len(s)]
  <1> DEFINE Upto(f) == f = [n \in 0 .. Len(s) |-> IF n = 0 THEN initialState ELSE draw(f[n - 1], s[n])]
             upto[n \in 0 .. Len(s)] == IF n = 0 THEN initialState ELSE draw(upto[n - 1], s[n])
  <1>1. Picture(s) = upto[Len(s)]
    BY DEF Picture, OneByOne
  <1>2. upto = CHOOSE f : Upto(f)
    OBVIOUS
  <1>3. \A f : Upto(f) <=> Folded("draw", initialState, s, Len(s), f)
    BY DEF Folded, Apply
  <1> HIDE DEF upto, Upto
  <1>4. Upto(upto)
    BY <1>2, <1>3, FoldExists
  <1> QED
    BY <1>1, <1>3, <1>4

LEMMA PictureEmpty == Picture(<<>>) = initialState
  <1>1. PICK f : Folded("draw", initialState, <<>>, 0, f) /\ Picture(<<>>) = f[0]
    BY DrawFold
  <1>2. f[0] = initialState
    BY <1>1 DEF Folded
  <1> QED
    BY <1>1, <1>2

LEMMA PictureAppend ==
  ASSUME NEW C, NEW s \in Seq(C), NEW c \in C
  PROVE  Picture(Append(s, c)) = draw(Picture(s), c)
  <1> DEFINE q == Append(s, c)
             k == Len(s)
  <1>1. k \in Nat /\ Len(q) = k + 1
    BY AppendProperties, LenProperties
  <1> HIDE DEF q, k
  <1>2. PICK f : Folded("draw", initialState, s, k, f) /\ Picture(s) = f[k]
    BY <1>1, DrawFold DEF k
  <1>3. PICK g : Folded("draw", initialState, q, k + 1, g) /\ Picture(q) = g[k + 1]
    BY <1>1, DrawFold
  <1>4. g[k + 1] = Apply("draw", f[k], c)
    BY <1>2, <1>3, FoldAppend DEF q, k
  <1>5. Apply("draw", f[k], c) = draw(f[k], c)
    BY DEF Apply
  <1> QED
    BY <1>2, <1>3, <1>4, <1>5 DEF q

\* A frame lists no change of a cell or one.
LEMMA ChangesNone ==
  ASSUME NEW state
  PROVE  OneByOne(applyChange, state, <<>>) = state
  <1> DEFINE Upto(f) == f = [n \in 0 .. 0 |-> IF n = 0 THEN state ELSE applyChange(f[n - 1], <<>>[n])]
  <1>1. \A f : Upto(f) <=> Folded("change", state, <<>>, 0, f)
    BY DEF Folded, Apply
  <1>2. PICK f : Upto(f) /\ f = CHOOSE u : Upto(u)
    <2> HIDE DEF Upto
    <2> QED
      BY <1>1, FoldExists
  <1>3. OneByOne(applyChange, state, <<>>) = f[0]
    BY <1>2 DEF OneByOne
  <1> QED
    BY <1>2, <1>3

LEMMA ChangesOne ==
  ASSUME NEW state, NEW c
  PROVE  OneByOne(applyChange, state, <<c>>) = applyChange(state, c)
  <1> DEFINE s == <<c>>
             Upto(f) == f = [n \in 0 .. 1 |-> IF n = 0 THEN state ELSE applyChange(f[n - 1], s[n])]
  <1>1. \A f : Upto(f) <=> Folded("change", state, s, 1, f)
    BY DEF Folded, Apply
  <1>2. PICK f : Upto(f) /\ f = CHOOSE u : Upto(u)
    <2> HIDE DEF Upto
    <2> QED
      BY <1>1, FoldExists
  <1>3. OneByOne(applyChange, state, s) = f[1]
    BY <1>2 DEF OneByOne
  <1>4. f[1] = applyChange(f[0], s[1]) /\ f[0] = state
    BY <1>2
  <1> QED
    BY <1>3, <1>4

-----------------------------------------------------------------------------
(* The rules of a level.                                                       *)

IsWorld(w) ==
  /\ w = [here |-> w.here, facing |-> w.facing, items |-> w.items, values |-> w.values,
          carrying |-> w.carrying, painted |-> w.painted, values_read |-> w.values_read,
          steps |-> w.steps, commands |-> w.commands, frames |-> w.frames,
          stopped |-> w.stopped]
  /\ w.here \in Board \ Level.walls
  /\ w.items \subseteq Board \ Level.walls

\* The counters and records of a run, which no rule touches.
SameRecord(w, v) ==
  /\ w.steps = v.steps /\ w.commands = v.commands
  /\ w.frames = v.frames /\ w.stopped = v.stopped

SameFloor(w, v) == w.items = v.items /\ w.painted = v.painted /\ w.values = v.values

\* What a rule did to the floor under the robot is the list of changes for the picture.
Lists(w, cells, v) ==
  \/ cells = <<>> /\ SameFloor(v, w)
  \/ /\ \/ cells = Change(w, "item", FALSE) /\ v.items = w.items \ {w.here}
        \/ cells = Change(w, "item", TRUE) /\ v.items = w.items \cup {w.here}
     /\ v.painted = w.painted /\ v.values = w.values
  \/ \E colour :
       /\ cells = Change(w, "painted", colour)
       /\ v.painted = [p \in DOMAIN w.painted \cup {w.here} |->
                         IF p = w.here THEN colour ELSE w.painted[p]]
       /\ v.items = w.items /\ v.values = w.values
  \/ \E n :
       /\ cells = Change(w, "value", n)
       /\ v.values = [w.values EXCEPT ![w.here] = n]
       /\ v.items = w.items /\ v.painted = w.painted

Ruled(w, d) == IsWorld(d.world) /\ SameRecord(d.world, w) /\ Lists(w, d.cells, d.world)

LEMMA StepRuled ==
  ASSUME NEW w, IsWorld(w), NEW dir
  PROVE  Ruled(w, step_to(w)) /\ Ruled(w, step_to([w EXCEPT !.facing = dir]))
  <1>1. ASSUME NEW p, blocked(p) = None PROVE p \in Board \ Level.walls
    BY <1>1, LevelAssumption DEF blocked
  <1>2. ASSUME NEW v, IsWorld(v), SameRecord(v, w), SameFloor(v, w)
        PROVE  Ruled(w, step_to(v))
    <2> DEFINE h == IF blocked(ahead(v)) = None THEN ahead(v) ELSE v.here
    <2>1. h \in Board \ Level.walls
      BY <1>1, <1>2 DEF IsWorld
    <2>2. step_to(v) = [world |-> [v EXCEPT !.here = h], cells |-> <<>>, msg |-> blocked(ahead(v))]
      BY DEF step_to, Did
    <2> HIDE DEF h
    <2>3. IsWorld([v EXCEPT !.here = h]) /\ SameRecord([v EXCEPT !.here = h], w)
          /\ SameFloor([v EXCEPT !.here = h], w)
      BY <1>2, <2>1 DEF IsWorld, SameRecord, SameFloor
    <2> QED
      BY <2>2, <2>3 DEF Ruled, Lists
  <1>3. IsWorld([w EXCEPT !.facing = dir])
    BY DEF IsWorld
  <1>4. SameRecord([w EXCEPT !.facing = dir], w) /\ SameFloor([w EXCEPT !.facing = dir], w)
    BY DEF IsWorld, SameRecord, SameFloor
  <1>5. SameRecord(w, w) /\ SameFloor(w, w)
    BY DEF SameRecord, SameFloor
  <1> QED
    BY <1>2, <1>3, <1>4, <1>5

LEMMA TurnRuled ==
  ASSUME NEW w, IsWorld(w), NEW by
  PROVE  Ruled(w, turn(w, by))
  BY DEF turn, Did, Ruled, IsWorld, SameRecord, SameFloor, Lists

LEMMA ItemRuled ==
  ASSUME NEW w, IsWorld(w)
  PROVE  Ruled(w, take(w)) /\ Ruled(w, drop(w))
  <1>1. Ruled(w, take(w))
    BY DEF take, Refused, Change, Did, Ruled, IsWorld, SameRecord, SameFloor, Lists
  <1>2. Ruled(w, drop(w))
    BY DEF drop, Refused, Change, Did, Ruled, IsWorld, SameRecord, SameFloor, Lists
  <1> QED
    BY <1>1, <1>2

LEMMA FloorRuled ==
  ASSUME NEW w, IsWorld(w), NEW x
  PROVE  /\ Ruled(w, paint(w, x))
         /\ Ruled(w, write(w, x))
         /\ Ruled(w, Did([w EXCEPT !.values_read = @ \cup {w.here}], <<>>, None))
  <1>1. Ruled(w, paint(w, x))
    BY DEF paint, Change, Did, Ruled, IsWorld, SameRecord, SameFloor, Lists
  <1>2. Ruled(w, write(w, x))
    BY DEF write, Change, Did, Ruled, IsWorld, SameRecord, SameFloor, Lists
  <1>3. Ruled(w, Did([w EXCEPT !.values_read = @ \cup {w.here}], <<>>, None))
    BY DEF Did, Ruled, IsWorld, SameRecord, SameFloor, Lists
  <1> QED
    BY <1>1, <1>2, <1>3

LEMMA EffectRuled ==
  ASSUME NEW w, IsWorld(w), NEW c, c.name \in Actions
  PROVE  Ruled(w, Effect(w, c))
  <1>0. DOMAIN Moves = {"move_up", "move_right", "move_down", "move_left"}
    BY DEF Moves
  <1>1. CASE c.name \in DOMAIN Moves
    <2>1. Effect(w, c) = step_to([w EXCEPT !.facing = Moves[c.name]])
      BY <1>0, <1>1 DEF Effect
    <2> QED
      BY <2>1, StepRuled
  <1>2. CASE c.name \notin DOMAIN Moves
    <2>1. Effect(w, c) \in {step_to(w), turn(w, 3), turn(w, 1), take(w), drop(w), paint(w, c.arg),
                            Did([w EXCEPT !.values_read = @ \cup {w.here}], <<>>, None),
                            write(w, c.arg)}
      BY <1>0, <1>2 DEF Effect, Actions
    <2> QED
      BY <2>1, StepRuled, TurnRuled, ItemRuled, FloorRuled
  <1> QED
    BY <1>1, <1>2

-----------------------------------------------------------------------------
(* One command on a world.                                                     *)

Tried(w, c) == [w EXCEPT !.steps = @ + 1, !.commands = Append(@, c)]

\* The world v is w after a rule of the level, with the frame that says what the rule did.
Recorded(w, c, v) ==
  \E d : /\ Ruled(Tried(w, c), d)
         /\ v = [d.world EXCEPT !.frames = Append(@, Frame(d.world, d.cells, d.msg))]

LEMMA PerformCases ==
  ASSUME NEW w, IsWorld(w), NEW c
  PROVE  \/ w.stopped # "end_of_program" /\ perform(w, c) = w
         \/ /\ w.stopped = "end_of_program"
            /\ \E why \in {"error", "steps_exhausted"} : perform(w, c) = [w EXCEPT !.stopped = why]
         \/ /\ w.stopped = "end_of_program"
            /\ perform(w, c) = [Tried(w, c) EXCEPT !.stopped = "error"]
         \/ /\ w.stopped = "end_of_program"
            /\ Recorded(w, c, perform(w, c))
  <1> DEFINE t == Tried(w, c)
             d == Effect(t, c)
             v == [d.world EXCEPT !.frames = Append(@, Frame(d.world, d.cells, d.msg))]
             refused == [w EXCEPT !.stopped = "error"]
             spent == [w EXCEPT !.stopped = "steps_exhausted"]
             failed == [t EXCEPT !.stopped = "error"]
             bare == c.name \in {"read", "write"} /\ w.here \notin DOMAIN w.values
             runs == w.stopped = "end_of_program"
             within == ~(w.steps >= Level.max_steps)
  <1>1. /\ ~runs => perform(w, c) = w
        /\ runs /\ ~Accepted(c) => perform(w, c) = refused
        /\ runs /\ Accepted(c) /\ ~within => perform(w, c) = spent
        /\ runs /\ Accepted(c) /\ within /\ bare => perform(w, c) = failed
        /\ runs /\ Accepted(c) /\ within /\ ~bare => perform(w, c) = v
    <2> DEFINE p == perform(w, c)
    <2>1. p = IF w.stopped # "end_of_program" THEN w
              ELSE IF ~Accepted(c) THEN refused
              ELSE IF w.steps >= Level.max_steps THEN spent
              ELSE IF bare THEN failed ELSE v
      BY DEF perform, Tried
    <2> HIDE DEF p, v, refused, spent, failed, bare
    <2> QED
      BY <2>1, Zenon DEF p
  <1>2. Accepted(c) => c.name \in Actions
    BY LevelAssumption DEF Accepted
  <1>3. IsWorld(t)
    <2> DEFINE n == w.steps + 1
               q == Append(w.commands, c)
    <2>1. t = [w EXCEPT !.steps = n, !.commands = q]
      BY DEF Tried
    <2> HIDE DEF n, q, t
    <2> QED
      BY <2>1 DEF IsWorld
  <1>4. Accepted(c) => Recorded(w, c, v)
    <2>1. c.name \in Actions => Ruled(t, d)
      BY <1>3, EffectRuled
    <2> HIDE DEF d
    <2> QED
      BY <1>2, <2>1 DEF Recorded
  <1> HIDE DEF t, v, refused, spent, failed, bare, runs, within
  <1>5. \/ ~runs /\ perform(w, c) = w
        \/ runs /\ perform(w, c) = refused
        \/ runs /\ perform(w, c) = spent
        \/ runs /\ perform(w, c) = failed
        \/ runs /\ Recorded(w, c, perform(w, c))
    BY <1>1, <1>4, Zenon
  <1> QED
    BY <1>5, Zenon DEF t, refused, spent, failed, runs

\* The frame of a command that led from world w to world v.
Shot(w, v, cells, msg) ==
  [i |-> Len(w.frames), at |-> v.here, facing |-> v.facing, carrying |-> v.carrying,
   items_left |-> Cardinality(v.items), cells |-> cells, msg |-> msg]

\* What is left of a world once a command is recorded.
LEMMA RecordedWorld ==
  ASSUME NEW w, IsWorld(w), NEW c, NEW v, Recorded(w, c, v)
  PROVE  /\ IsWorld(v)
         /\ v.stopped = w.stopped /\ v.steps = w.steps + 1 /\ v.commands = Append(w.commands, c)
         /\ \E cells, msg : v.frames = Append(w.frames, Shot(w, v, cells, msg)) /\ Lists(w, cells, v)
  <1>1. PICK d : /\ Ruled(Tried(w, c), d)
                 /\ v = [d.world EXCEPT !.frames = Append(@, Frame(d.world, d.cells, d.msg))]
    BY DEF Recorded
  <1> DEFINE u == d.world
  <1>2. /\ u.steps = w.steps + 1 /\ u.commands = Append(w.commands, c)
        /\ u.frames = w.frames /\ u.stopped = w.stopped
        /\ IsWorld(u)
    BY <1>1 DEF Ruled, SameRecord, Tried, IsWorld
  <1>3. IsWorld(v) /\ v.frames = Append(u.frames, Frame(u, d.cells, d.msg))
        /\ v.steps = u.steps /\ v.commands = u.commands /\ v.stopped = u.stopped
        /\ v.here = u.here /\ v.facing = u.facing /\ v.carrying = u.carrying
        /\ v.items = u.items /\ v.painted = u.painted /\ v.values = u.values
    BY <1>1, <1>2 DEF IsWorld
  <1>4. Lists(w, d.cells, u)
    <2> DEFINE t == Tried(w, c)
    <2>1. /\ t.items = w.items /\ t.painted = w.painted /\ t.values = w.values /\ t.here = w.here
      BY DEF Tried, IsWorld
    <2>2. Lists(t, d.cells, u)
      BY <1>1 DEF Ruled
    <2>3. \A what, to : Change(t, what, to) = Change(w, what, to)
      BY <2>1 DEF Change
    <2> HIDE DEF t, u
    <2>4. CASE d.cells = <<>> /\ SameFloor(u, t)
      BY <2>1, <2>4 DEF Lists, SameFloor
    <2>5. CASE \E colour :
                 /\ d.cells = Change(t, "painted", colour)
                 /\ u.painted = [p \in DOMAIN t.painted \cup {t.here} |->
                                   IF p = t.here THEN colour ELSE t.painted[p]]
                 /\ u.items = t.items /\ u.values = t.values
      <3>1. PICK colour :
                 /\ d.cells = Change(w, "painted", colour)
                 /\ u.painted = [p \in DOMAIN w.painted \cup {w.here} |->
                                   IF p = w.here THEN colour ELSE w.painted[p]]
                 /\ u.items = w.items /\ u.values = w.values
        BY <2>1, <2>3, <2>5
      <3> QED
        BY <3>1 DEF Lists
    <2>6. CASE \E n : /\ d.cells = Change(t, "value", n)
                      /\ u.values = [t.values EXCEPT ![t.here] = n]
                      /\ u.items = t.items /\ u.painted = t.painted
      <3>1. PICK n : /\ d.cells = Change(w, "value", n)
                     /\ u.values = [w.values EXCEPT ![w.here] = n]
                     /\ u.items = w.items /\ u.painted = w.painted
        BY <2>1, <2>3, <2>6
      <3> QED
        BY <3>1 DEF Lists
    <2>7. CASE /\ \/ d.cells = Change(t, "item", FALSE) /\ u.items = t.items \ {t.here}
                  \/ d.cells = Change(t, "item", TRUE) /\ u.items = t.items \cup {t.here}
               /\ u.painted = t.painted /\ u.values = t.values
      BY <2>1, <2>3, <2>7 DEF Lists
    <2> QED
      BY <2>2, <2>4, <2>5, <2>6, <2>7 DEF Lists
  <1>5. Lists(w, d.cells, v)
    <2> HIDE DEF u
    <2> QED
      BY <1>3, <1>4 DEF Lists, SameFloor
  <1> QED
    BY <1>2, <1>3, <1>5 DEF Frame, Shot

-----------------------------------------------------------------------------
(* The picture of a world.                                                     *)

\* A cell of the picture against the world; goals in gone may be drawn as bare floor.
CellDrawn(cell, p, w, gone) ==
  /\ DOMAIN cell = {"type", "painted", "paintColor", "value"}
  /\ cell.type = "item" <=> p \in w.items
  /\ cell.type = "wall" <=> p \in Level.walls
  /\ p \in Level.goals \ (Level.items \cup gone) => cell.type = "goal"
  /\ cell.painted = (p \in DOMAIN w.painted)
  /\ p \in DOMAIN w.painted => cell.paintColor = w.painted[p]
  /\ p \in DOMAIN w.values => cell.value = w.values[p]

FloorDrawn(g, w, gone) ==
  /\ g = [cells |-> g.cells, robot |-> g.robot, goalReached |-> g.goalReached,
          stepsUsed |-> g.stepsUsed, collision |-> g.collision]
  /\ g.cells = [p \in Board |-> g.cells[p]]
  /\ \A p \in Board : CellDrawn(g.cells[p], p, w, gone)

\* A cell that no change is about.
LEMMA CellStays ==
  ASSUME NEW cell, NEW p, NEW w, NEW v, NEW gone, NEW more, CellDrawn(cell, p, w, gone),
         gone \subseteq more,
         p \in v.items <=> p \in w.items,
         p \in DOMAIN v.painted <=> p \in DOMAIN w.painted,
         p \in DOMAIN w.painted => v.painted[p] = w.painted[p],
         p \in DOMAIN v.values <=> p \in DOMAIN w.values,
         p \in DOMAIN w.values => v.values[p] = w.values[p]
  PROVE  CellDrawn(cell, p, v, more)
  BY DEF CellDrawn

\* The picture with one cell changed.
LEMMA FloorChanges ==
  ASSUME NEW g, NEW w, NEW v, NEW gone, NEW more, FloorDrawn(g, w, gone),
         NEW at \in Board, NEW new, CellDrawn(new, at, v, more),
         \A p \in Board \ {at} : CellDrawn(g.cells[p], p, v, more),
         NEW h, h = [g EXCEPT !.cells[at] = new]
  PROVE  FloorDrawn(h, v, more) /\ h.goalReached = g.goalReached
  <1> DEFINE i == [g.cells EXCEPT ![at] = new]
  <1>1. h = [g EXCEPT !.cells = i]
    OBVIOUS
  <1>2. DOMAIN g.cells = Board
    BY DEF FloorDrawn
  <1>3. i = [p \in Board |-> IF p = at THEN new ELSE g.cells[p]]
    BY <1>2
  <1> HIDE DEF i
  <1>4. h = [cells |-> i, robot |-> g.robot, goalReached |-> g.goalReached,
             stepsUsed |-> g.stepsUsed, collision |-> g.collision]
    BY <1>1 DEF FloorDrawn
  <1>5. \A p \in Board : CellDrawn(i[p], p, v, more)
    <2> TAKE p \in Board
    <2>1. i[p] = IF p = at THEN new ELSE g.cells[p]
      BY <1>3
    <2> QED
      BY <2>1
  <1>6. i = [p \in Board |-> i[p]]
    BY <1>3
  <1> QED
    BY <1>4, <1>5, <1>6 DEF FloorDrawn

\* The goals that a frame takes off the picture.
Taken(cells) == IF cells # <<>> /\ cells[1].what = "item" THEN {cells[1].at} ELSE {}

\* What a rule listed is drawn.
LEMMA ChangesDrawn ==
  ASSUME NEW g, NEW w, IsWorld(w), NEW gone, FloorDrawn(g, w, gone),
         NEW cells, NEW v, Lists(w, cells, v)
  PROVE  LET h == OneByOne(applyChange, g, cells)
         IN  FloorDrawn(h, v, gone \cup Taken(cells)) /\ h.goalReached = g.goalReached
  <1> DEFINE at == w.here
             more == gone \cup Taken(cells)
  <1>0. at \in Board /\ at \notin Level.walls /\ at = w.here
    BY DEF IsWorld
  <1> HIDE DEF at
  <1>1. CellDrawn(g.cells[at], at, w, gone)
    BY <1>0 DEF FloorDrawn
  <1>2. ASSUME NEW what, NEW to, cells = Change(w, what, to)
        PROVE  /\ cells # <<>>
               /\ cells[1] = [at |-> at, what |-> what, to |-> to]
               /\ OneByOne(applyChange, g, cells) = applyChange(g, [at |-> at, what |-> what, to |-> to])
    BY <1>0, <1>2, ChangesOne DEF Change
  <1>3. CASE cells = <<>> /\ SameFloor(v, w)
    <2>1. FloorDrawn(g, v, gone)
      BY <1>3 DEF SameFloor, FloorDrawn, CellDrawn
    <2> QED
      BY <1>3, <2>1, ChangesNone DEF Taken
  <1>4. ASSUME NEW to \in BOOLEAN, cells = Change(w, "item", to),
               v.items = (IF to THEN w.items \cup {at} ELSE w.items \ {at}),
               v.painted = w.painted, v.values = w.values
        PROVE  LET h == OneByOne(applyChange, g, cells)
               IN  FloorDrawn(h, v, more) /\ h.goalReached = g.goalReached
    <2> DEFINE new == [g.cells[at] EXCEPT !.type = IF to THEN "item" ELSE "empty"]
    <2>1. more = gone \cup {at}
      <3>1. cells # <<>> /\ cells[1] = [at |-> at, what |-> "item", to |-> to]
        BY <1>2, <1>4
      <3> QED
        BY <3>1 DEF Taken
    <2> HIDE DEF more
    <2>2. CellDrawn(new, at, v, more)
      BY <1>0, <1>1, <1>4, <2>1 DEF CellDrawn
    <2>3. ASSUME NEW p \in Board \ {at} PROVE CellDrawn(g.cells[p], p, v, more)
      <3>1. CellDrawn(g.cells[p], p, w, gone)
        BY DEF FloorDrawn
      <3> QED
        BY <3>1, <2>1, <1>4, CellStays
    <2> DEFINE h == OneByOne(applyChange, g, cells)
    <2>4. h = applyChange(g, [at |-> at, what |-> "item", to |-> to])
      BY <1>2, <1>4
    <2> HIDE DEF h
    <2>5. h = [g EXCEPT !.cells[at] = new]
      BY <2>4 DEF applyChange
    <2> HIDE DEF new
    <2>6. FloorDrawn(h, v, more) /\ h.goalReached = g.goalReached
      BY <1>0, <2>2, <2>3, <2>5, FloorChanges
    <2> QED
      BY <2>6 DEF h
  <1>5. ASSUME NEW colour, cells = Change(w, "painted", colour),
               v.painted = [p \in DOMAIN w.painted \cup {at} |->
                              IF p = at THEN colour ELSE w.painted[p]],
               v.items = w.items, v.values = w.values
        PROVE  LET h == OneByOne(applyChange, g, cells)
               IN  FloorDrawn(h, v, more) /\ h.goalReached = g.goalReached
    <2> DEFINE new == [g.cells[at] EXCEPT !.painted = TRUE, !.paintColor = colour]
    <2>1. gone \subseteq more
      OBVIOUS
    <2> HIDE DEF more
    <2>2. CellDrawn(new, at, v, more)
      <3>1. (at \in DOMAIN v.painted) = TRUE /\ v.painted[at] = colour
        BY <1>5
      <3>2. /\ DOMAIN new = {"type", "painted", "paintColor", "value"}
            /\ new.type = g.cells[at].type /\ new.value = g.cells[at].value
            /\ new.painted = TRUE /\ new.paintColor = colour
        BY <1>1 DEF CellDrawn
      <3> HIDE DEF new
      <3> QED
        BY <1>0, <1>1, <1>5, <2>1, <3>1, <3>2 DEF CellDrawn
    <2>3. ASSUME NEW p \in Board \ {at} PROVE CellDrawn(g.cells[p], p, v, more)
      <3>1. CellDrawn(g.cells[p], p, w, gone)
        BY DEF FloorDrawn
      <3> QED
        BY <3>1, <2>1, <1>5, CellStays
    <2> DEFINE h == OneByOne(applyChange, g, cells)
    <2>4. h = applyChange(g, [at |-> at, what |-> "painted", to |-> colour])
      BY <1>2, <1>5
    <2> HIDE DEF h
    <2>5. h = [g EXCEPT !.cells[at] = new]
      BY <2>4 DEF applyChange
    <2> HIDE DEF new
    <2>6. FloorDrawn(h, v, more) /\ h.goalReached = g.goalReached
      BY <1>0, <2>2, <2>3, <2>5, FloorChanges
    <2> QED
      BY <2>6 DEF h
  <1>6. ASSUME NEW n, cells = Change(w, "value", n),
               v.values = [w.values EXCEPT ![at] = n],
               v.items = w.items, v.painted = w.painted
        PROVE  LET h == OneByOne(applyChange, g, cells)
               IN  FloorDrawn(h, v, more) /\ h.goalReached = g.goalReached
    <2> DEFINE new == [g.cells[at] EXCEPT !.value = n]
    <2>1. gone \subseteq more
      OBVIOUS
    <2> HIDE DEF more
    <2>2. CellDrawn(new, at, v, more)
      BY <1>0, <1>1, <1>6, <2>1 DEF CellDrawn
    <2>3. ASSUME NEW p \in Board \ {at} PROVE CellDrawn(g.cells[p], p, v, more)
      <3>1. CellDrawn(g.cells[p], p, w, gone)
        BY DEF FloorDrawn
      <3> QED
        BY <3>1, <2>1, <1>6, CellStays
    <2> DEFINE h == OneByOne(applyChange, g, cells)
    <2>4. h = applyChange(g, [at |-> at, what |-> "value", to |-> n])
      BY <1>2, <1>6
    <2> HIDE DEF h
    <2>5. h = [g EXCEPT !.cells[at] = new]
      BY <2>4 DEF applyChange
    <2> HIDE DEF new
    <2>6. FloorDrawn(h, v, more) /\ h.goalReached = g.goalReached
      BY <1>0, <2>2, <2>3, <2>5, FloorChanges
    <2> QED
      BY <2>6 DEF h
  <1> QED
    BY <1>0, <1>3, <1>4, <1>5, <1>6 DEF Lists

-----------------------------------------------------------------------------
(* What holds of a world and its record, after any program.                    *)

IsSeq(s) == \E S : s \in Seq(S)

\* The picture of the frames of a world is the picture of the world.
IsDrawn(w) ==
  LET g == Picture(w.frames)
  IN  /\ FloorDrawn(g, w, Covered(w.frames))
      /\ g.robot = [at |-> w.here, direction |-> w.facing,
                    collected |-> Cardinality(Level.items) - Cardinality(w.items)]
      /\ g.stepsUsed = w.steps
      /\ g.goalReached = FALSE

\* The beginnings of a program run on, and their frames are the beginnings of frames.
Foreseen(p, frames) ==
  \A j \in 0 .. Len(frames) :
     LET u == After(SubSeq(p, 1, j))
     IN  u.stopped = "end_of_program" /\ u.frames = SubSeq(frames, 1, j)

\* The programs whose world is as good as its record: there are no more frames than
\* commands, and as many while the program runs; each frame is the last of the world
\* that the program so far leaves; and the replay of the commands recorded leaves the
\* same world, but for the reason it stopped.
Faithful(p) ==
  LET w == After(p)
  IN  /\ IsWorld(w) /\ IsSeq(w.frames) /\ Len(w.frames) <= Len(p)
      /\ Foreseen(p, w.frames)
      /\ After(w.commands) \in {w, [w EXCEPT !.stopped = "end_of_program"]}
      /\ w.stopped = "end_of_program" =>
            /\ Len(w.frames) = Len(p) /\ w.steps = Len(p) /\ w.commands = p
            /\ IsDrawn(w)

LEMMA LevelIsFinite ==
  /\ IsFiniteSet(Level.items) /\ Cardinality(Level.items) \in Nat
  <1>1. IsFiniteSet(0 .. Level.width - 1) /\ IsFiniteSet(0 .. Level.height - 1)
    <2>1. Level.width - 1 \in Int /\ Level.height - 1 \in Int /\ 0 \in Int
      BY LevelAssumption
    <2> QED
      BY <2>1, FS_Interval
  <1>2. IsFiniteSet(Board)
    BY <1>1, FS_Product DEF Board
  <1>3. Level.items \subseteq Board
    BY LevelAssumption
  <1> QED
    BY <1>2, <1>3, FS_Subset, FS_CardinalityType

LEMMA EmptyIsDrawn == IsDrawn(World)
  <1> DEFINE g == initialState
  <1>1. Picture(World.frames) = g
    BY PictureEmpty DEF World
  <1>2. g.robot = [at |-> World.here, direction |-> World.facing,
                   collected |-> Cardinality(Level.items) - Cardinality(World.items)]
        /\ g.stepsUsed = World.steps /\ g.goalReached = FALSE
    BY LevelIsFinite DEF initialState, World
  <1>3. ASSUME NEW p \in Board PROVE CellDrawn(g.cells[p], p, World, Covered(World.frames))
    <2>1. g.cells[p] = [type |-> TypeOfCell(p), painted |-> FALSE, paintColor |-> None,
                        value |-> IF p \in DOMAIN Level.values THEN Level.values[p] ELSE None]
      BY DEF initialState
    <2>2. /\ TypeOfCell(p) = "item" <=> p \in Level.items
          /\ TypeOfCell(p) = "wall" <=> p \in Level.walls
          /\ p \in Level.goals \ Level.items => TypeOfCell(p) = "goal"
      BY LevelAssumption DEF TypeOfCell
    <2>3. World.items = Level.items /\ World.values = Level.values /\ World.painted = <<>>
      BY DEF World
    <2>4. (p \in DOMAIN World.painted) = FALSE
      BY <2>3
    <2> DEFINE cell == g.cells[p]
               w == World
    <2>5. /\ DOMAIN cell = {"type", "painted", "paintColor", "value"}
          /\ cell.type = TypeOfCell(p) /\ cell.painted = FALSE
          /\ p \in DOMAIN Level.values => cell.value = Level.values[p]
      BY <2>1
    <2>6. w.items = Level.items /\ w.values = Level.values /\ (p \in DOMAIN w.painted) = FALSE
      BY <2>3, <2>4
    <2> HIDE DEF cell, w
    <2>7. CellDrawn(cell, p, w, Covered(World.frames))
      BY <2>2, <2>5, <2>6 DEF CellDrawn
    <2> QED
      BY <2>7 DEF cell, w
  <1>4. FloorDrawn(g, World, Covered(World.frames))
    BY <1>3 DEF FloorDrawn, initialState
  <1> QED
    BY <1>1, <1>2, <1>4 DEF IsDrawn

LEMMA EmptyIsFaithful == Faithful(<<>>)
  <1> DEFINE w == World
  <1>1. After(<<>>) = w
    BY AfterEmpty
  <1>2. IsWorld(w)
    BY LevelAssumption DEF IsWorld, World
  <1>3. w.frames = <<>> /\ w.stopped = "end_of_program" /\ w.commands = <<>> /\ w.steps = 0
    BY DEF World
  <1>4. IsSeq(w.frames) /\ Len(w.frames) = 0
    BY <1>3 DEF IsSeq
  <1>5. SubSeq(<<>>, 1, 0) = <<>>
    OBVIOUS
  <1>6. IsDrawn(w)
    BY EmptyIsDrawn
  <1>7. Foreseen(<<>>, w.frames)
    <2> HIDE DEF w
    <2>1. \A j \in 0 .. Len(w.frames) : j = 0
      BY <1>4
    <2> QED
      BY <2>1, <1>1, <1>3, <1>5 DEF Foreseen
  <1>8. Len(<<>>) = 0
    OBVIOUS
  <1> HIDE DEF w
  <1> QED
    BY <1>1, <1>2, <1>3, <1>4, <1>6, <1>7, <1>8 DEF Faithful

\* The next frame draws the world after the next command.
LEMMA RecordedIsDrawn ==
  ASSUME NEW w, IsWorld(w), IsSeq(w.frames), IsDrawn(w), w.steps = Len(w.frames),
         NEW c, NEW v, Recorded(w, c, v)
  PROVE  IsDrawn(v) /\ IsSeq(v.frames)
  <1>1. PICK cells, msg : v.frames = Append(w.frames, Shot(w, v, cells, msg)) /\ Lists(w, cells, v)
    BY RecordedWorld
  <1> DEFINE f == Shot(w, v, cells, msg)
             s == w.frames
             g == Picture(s)
             h == OneByOne(applyChange, g, cells)
             d == draw(g, f)
             gone == Covered(s)
             more == Covered(Append(s, f))
  <1>2. PICK S : s \in Seq(S)
    BY DEF IsSeq
  <1>3. s \in Seq(S \cup {f})
    BY <1>2
  <1>4. Picture(Append(s, f)) = d /\ Append(s, f) \in Seq(S \cup {f})
    <2> HIDE DEF f, s
    <2> QED
      BY <1>3, PictureAppend, AppendProperties
  <1>5. f.cells = cells /\ f.at = v.here /\ f.facing = v.facing /\ f.i = w.steps
        /\ f.items_left = Cardinality(v.items)
    BY DEF Shot
  <1>6. v.frames = Append(s, f)
    BY <1>1
  <1>7. FloorDrawn(g, w, gone) /\ g.goalReached = FALSE
    BY DEF IsDrawn
  <1>8. FloorDrawn(h, v, gone \cup Taken(cells)) /\ h.goalReached = FALSE
    <2> HIDE DEF g, gone
    <2> QED
      BY <1>1, <1>7, ChangesDrawn
  <1>9. d = [h EXCEPT !.robot = [at |-> f.at, direction |-> f.facing,
                                 collected |-> Cardinality(Level.items) - f.items_left],
                      !.stepsUsed = f.i + 1, !.collision = f.msg]
    BY <1>5 DEF draw
  <1>10. Level.goals \cap (gone \cup Taken(cells)) \subseteq more
    <2> DEFINE q == Append(s, f)
    <2>1. Len(s) \in Nat /\ DOMAIN s = 1 .. Len(s) /\ DOMAIN q = 1 .. Len(s) + 1
          /\ q[Len(s) + 1] = f /\ \A i \in 1 .. Len(s) : q[i] = s[i]
      <3> HIDE DEF f, s
      <3> QED
        BY <1>3, AppendProperties, LenProperties
    <2> HIDE DEF f, s, q
    <2> QED
      BY <1>5, <2>1 DEF Covered, Taken, q
  <1> HIDE DEF f, s, g, h, gone, more
  <1>11. /\ d = [cells |-> h.cells, robot |-> d.robot, goalReached |-> h.goalReached,
                 stepsUsed |-> d.stepsUsed, collision |-> d.collision]
         /\ d.cells = h.cells /\ d.goalReached = h.goalReached
         /\ d.robot = [at |-> f.at, direction |-> f.facing,
                       collected |-> Cardinality(Level.items) - f.items_left]
         /\ d.stepsUsed = f.i + 1
    <2> HIDE DEF d
    <2> QED
      BY <1>8, <1>9 DEF FloorDrawn
  <1>12. FloorDrawn(d, v, more)
    <2> HIDE DEF d
    <2>1. ASSUME NEW p \in Board PROVE CellDrawn(d.cells[p], p, v, more)
      BY <1>8, <1>10, <1>11 DEF FloorDrawn, CellDrawn
    <2> QED
      BY <1>8, <1>11, <2>1 DEF FloorDrawn
  <1>13. v.steps = w.steps + 1
    BY RecordedWorld
  <1>14. IsSeq(v.frames)
    BY <1>4, <1>6 DEF IsSeq
  <1> HIDE DEF d
  <1> QED
    BY <1>4, <1>5, <1>6, <1>8, <1>11, <1>12, <1>13, <1>14 DEF IsDrawn, more

LEMMA SubSeqOfAppend ==
  ASSUME NEW C, NEW p \in Seq(C), NEW c \in C
  PROVE  /\ \A j \in 0 .. Len(p) : SubSeq(Append(p, c), 1, j) = SubSeq(p, 1, j)
         /\ SubSeq(Append(p, c), 1, Len(p) + 1) = Append(p, c)
         /\ SubSeq(p, 1, Len(p)) = p
  OBVIOUS

\* One command more.
LEMMA FaithfulStep ==
  ASSUME NEW p \in Seq(Commands), Faithful(p), NEW c \in Commands,
         NEW q, q = Append(p, c), NEW w, w = After(p), NEW v, v = After(q)
  PROVE  Faithful(q)
  <1> DEFINE end == "end_of_program"
  <1>1. v = perform(w, c)
    BY AfterAppend
  <1>2. /\ q \in Seq(Commands) /\ Len(q) = Len(p) + 1 /\ Len(p) \in Nat
        /\ \A j \in 0 .. Len(p) : SubSeq(q, 1, j) = SubSeq(p, 1, j)
        /\ SubSeq(q, 1, Len(q)) = q
    BY SubSeqOfAppend, AppendProperties, LenProperties
  <1>3. /\ IsWorld(w) /\ IsSeq(w.frames) /\ Len(w.frames) <= Len(p)
        /\ Foreseen(p, w.frames)
        /\ After(w.commands) \in {w, [w EXCEPT !.stopped = end]}
        /\ w.stopped = end => /\ Len(w.frames) = Len(p) /\ w.steps = Len(p) /\ w.commands = p
                              /\ IsDrawn(w)
    BY DEF Faithful
  <1>4. Len(w.frames) \in Nat
    BY <1>3, LenProperties DEF IsSeq
  <1>5. Foreseen(q, w.frames)
    <2>1. \A j \in 0 .. Len(w.frames) : SubSeq(q, 1, j) = SubSeq(p, 1, j)
      BY <1>2, <1>3, <1>4
    <2> QED
      BY <1>3, <2>1, Zenon DEF Foreseen
  <1>6. CASE w.stopped # end /\ v = w
    BY <1>2, <1>3, <1>4, <1>5, <1>6 DEF Faithful
  <1>7. ASSUME NEW why \in {"error", "steps_exhausted"}, w.stopped = end, v = [w EXCEPT !.stopped = why]
        PROVE  Faithful(q)
    <2>1. IsWorld(v) /\ v.frames = w.frames /\ v.commands = w.commands /\ v.stopped # end
      BY <1>3, <1>7 DEF IsWorld
    <2>2. w = [v EXCEPT !.stopped = end]
      BY <1>3, <1>7 DEF IsWorld
    <2>3. [w EXCEPT !.stopped = end] = w
      BY <1>3, <1>7 DEF IsWorld
    <2> QED
      BY <1>2, <1>3, <1>4, <1>5, <2>1, <2>2, <2>3 DEF Faithful
  <1>8. CASE w.stopped = end /\ v = [Tried(w, c) EXCEPT !.stopped = "error"]
    <2>1. v.commands = q /\ After(v.commands) = v
      <3>1. v.commands = Append(w.commands, c)
        BY <1>3, <1>8 DEF IsWorld, Tried
      <3> QED
        BY <1>3, <1>8, <3>1
    <2>2. IsWorld(v) /\ v.frames = w.frames /\ v.stopped # end
      BY <1>3, <1>8 DEF IsWorld, Tried
    <2> QED
      BY <1>2, <1>3, <1>4, <1>5, <2>1, <2>2 DEF Faithful
  <1>9. CASE w.stopped = end /\ Recorded(w, c, v)
    <2>1. v.commands = q /\ v.stopped = end /\ v.steps = Len(q) /\ IsWorld(v)
      <3>1. v.commands = Append(w.commands, c) /\ v.stopped = end /\ v.steps = w.steps + 1 /\ IsWorld(v)
        BY <1>3, <1>9, RecordedWorld
      <3> QED
        BY <1>2, <1>3, <1>9, <3>1
    <2>2. IsDrawn(v) /\ IsSeq(v.frames)
      BY <1>3, <1>9, RecordedIsDrawn
    <2>3. PICK f : v.frames = Append(w.frames, f)
      <3>1. IsWorld(w) /\ Recorded(w, c, v)
        BY <1>3, <1>9
      <3> QED
        <4>1. \E cells, msg : v.frames = Append(w.frames, Shot(w, v, cells, msg)) /\ Lists(w, cells, v)
          BY <3>1, RecordedWorld, ZenonT(30)
        <4> QED
          BY <4>1
    <2>4. PICK S : w.frames \in Seq(S)
      BY <1>3 DEF IsSeq
    <2>5. w.frames \in Seq(S \cup {f})
      BY <2>4
    <2> DEFINE s == w.frames
               t == v.frames
               n == Len(s)
    <2>6. /\ Len(t) = n + 1 /\ \A j \in 0 .. n : SubSeq(t, 1, j) = SubSeq(s, 1, j)
          /\ SubSeq(t, 1, n + 1) = t
      BY <2>3, <2>5, SubSeqOfAppend, AppendProperties
    <2>7. Len(q) = n + 1 /\ n \in Nat
      BY <1>2, <1>3, <1>4, <1>9
    <2> HIDE DEF s, t, n
    <2>8. ASSUME NEW j \in 0 .. n + 1
          PROVE  After(SubSeq(q, 1, j)).stopped = end /\ After(SubSeq(q, 1, j)).frames = SubSeq(t, 1, j)
      <3>1. CASE j \in 0 .. n
        <4>1. SubSeq(t, 1, j) = SubSeq(s, 1, j) /\ j \in 0 .. Len(w.frames)
          BY <2>6, <3>1 DEF s, n
        <4> QED
          BY <1>5, <4>1, Zenon DEF Foreseen, s
      <3>2. CASE j = n + 1
        BY <1>2, <2>1, <2>6, <2>7, <3>2 DEF t
      <3> QED
        BY <3>1, <3>2, <2>7
    <2>10. Foreseen(q, t)
      BY <2>6, <2>8 DEF Foreseen
    <2>9. Len(t) <= Len(q) /\ Len(t) = Len(q)
      BY <2>6, <2>7
    <2> QED
      BY <2>1, <2>2, <2>9, <2>10 DEF Faithful, t
  <1> QED
    <2>1. \/ w.stopped # end /\ v = w
          \/ w.stopped = end /\ \E why \in {"error", "steps_exhausted"} : v = [w EXCEPT !.stopped = why]
          \/ w.stopped = end /\ v = [Tried(w, c) EXCEPT !.stopped = "error"]
          \/ w.stopped = end /\ Recorded(w, c, v)
      <3>1. v = perform(w, c) /\ IsWorld(w)
        BY <1>1, <1>3
      <3> QED
        BY <3>1, PerformCases
    <2> QED
      BY <1>6, <1>7, <1>8, <1>9, <2>1

LEMMA EveryProgramIsFaithful ==
  ASSUME NEW p \in Seq(Commands)
  PROVE  Faithful(p)
  <1> DEFINE S == {n \in Nat : \A q \in Seq(Commands) : Len(q) = n => Faithful(q)}
  <1>1. 0 \in S
    <2>1. \A q \in Seq(Commands) : Len(q) = 0 => q = <<>>
      BY EmptySeq
    <2> QED
      BY <2>1, EmptyIsFaithful
  <1>2. ASSUME NEW n \in S PROVE n + 1 \in S
    <2> SUFFICES ASSUME NEW q \in Seq(Commands), Len(q) = n + 1 PROVE Faithful(q)
      OBVIOUS
    <2> DEFINE front == SubSeq(q, 1, n)
               last  == q[n + 1]
    <2>1. front \in Seq(Commands) /\ Len(front) = n /\ last \in Commands /\ q = Append(front, last)
      OBVIOUS
    <2>2. Faithful(front)
      BY <1>2, <2>1
    <2> HIDE DEF front, last
    <2> QED
      BY <2>1, <2>2, FaithfulStep
  <1> HIDE DEF S
  <1>3. Len(p) \in S
    BY <1>1, <1>2, Induction, LenProperties DEF S
  <1> QED
    BY <1>3 DEF S

\* What the server answers: the frames of the sandbox, and the verdict on its world.
LEMMA AnswerOfRun ==
  ASSUME NEW p \in Seq(Commands)
  PROVE  /\ run(p).frames = After(p).frames
         /\ run(p).won = evaluate(After(p)) /\ run(p).won \in BOOLEAN
         /\ IsSeq(run(p).frames)
  <1> DEFINE w == After(p)
             r == After(w.commands)
  <1>1. /\ IsWorld(w) /\ IsSeq(w.frames)
        /\ r \in {w, [w EXCEPT !.stopped = "end_of_program"]}
    BY EveryProgramIsFaithful DEF Faithful
  <1>2. run(p).frames = r.frames /\ run(p).won = evaluate(r)
    BY DEF run
  <1> HIDE DEF w, r
  <1>3. /\ r.frames = w.frames /\ r.here = w.here /\ r.facing = w.facing /\ r.items = w.items
        /\ r.painted = w.painted /\ r.values = w.values /\ r.values_read = w.values_read
        /\ r.steps = w.steps
    BY <1>1 DEF IsWorld
  <1>4. \A c : Holds(r, c) = Holds(w, c)
    BY <1>3 DEF Holds
  <1>5. evaluate(r) = evaluate(w)
    BY <1>4 DEF evaluate
  <1>6. evaluate(w) \in BOOLEAN
    BY LevelAssumption DEF evaluate
  <1> QED
    BY <1>1, <1>2, <1>3, <1>5, <1>6 DEF w

\* The replay of the commands that the sandbox recorded makes the frames of the sandbox's
\* own run, its steps, the reason it stopped and its verdict: nothing is lost by sending
\* the record alone (run, robot_runner.py:202).
THEOREM ReplayAgrees ==
  \A p \in Seq(Commands) :
     run(p) = [frames |-> After(p).frames, won |-> evaluate(After(p)), steps |-> After(p).steps,
               stopped |-> After(p).stopped]
  <1> TAKE p \in Seq(Commands)
  <1> DEFINE w == After(p)
             r == After(w.commands)
  <1>1. IsWorld(w) /\ r \in {w, [w EXCEPT !.stopped = "end_of_program"]}
    BY EveryProgramIsFaithful DEF Faithful
  <1>2. run(p) = [frames |-> r.frames, won |-> evaluate(r), steps |-> r.steps,
                  stopped |-> IF r.stopped = "end_of_program" THEN w.stopped ELSE r.stopped]
    BY DEF run
  <1>3. run(p).won = evaluate(w)
    BY AnswerOfRun
  <1>4. evaluate(r) = evaluate(w)
    BY <1>2, <1>3
  <1> HIDE DEF w, r
  <1>5. /\ r.frames = w.frames /\ r.steps = w.steps
        /\ (IF r.stopped = "end_of_program" THEN w.stopped ELSE r.stopped) = w.stopped
    BY <1>1 DEF IsWorld
  <1> QED
    BY <1>2, <1>4, <1>5 DEF w

-----------------------------------------------------------------------------
(* The inductive invariant of the playbacks.                                   *)

PlayerType == [index : Int, playing : BOOLEAN, paused : BOOLEAN, generation : Nat]
UiType == [running : BOOLEAN, paused : BOOLEAN]
Types ==
  /\ player \in PlayerType
  /\ ui \in UiType
  /\ loops \subseteq [id : Nat, generation : Nat]
  /\ \A r \in requests : r.id \in Nat
  /\ presses \in Nat

\* No playback is ahead of the player.
NoneIsAhead == \A l \in loops : l.generation <= player.generation

\* Each playback began in a generation of its own.
GenerationsDiffer == \A k, l \in loops : k.generation = l.generation => k = l

\* The playback of the present generation is that of the loaded run.
CurrentIsLoaded == \A l \in loops : Current(l) => l.id = trace.id

IInv == Types /\ NoneIsAhead /\ GenerationsDiffer /\ CurrentIsLoaded

\* One field of the player, or of the buttons, is set.
LEMMA SetField ==
  ASSUME NEW p \in PlayerType, NEW u \in UiType, NEW b \in BOOLEAN, NEW i \in Int
  PROVE  /\ [p EXCEPT !.paused = b] \in PlayerType /\ [p EXCEPT !.paused = b].generation = p.generation
         /\ [p EXCEPT !.playing = b] \in PlayerType /\ [p EXCEPT !.playing = b].generation = p.generation
         /\ [p EXCEPT !.index = i] \in PlayerType /\ [p EXCEPT !.index = i].generation = p.generation
         /\ [u EXCEPT !.paused = b] \in UiType
  BY DEF PlayerType, UiType

LEMMA InitIInv == Init => IInv
  BY DEF Init, IInv, Types, PlayerType, UiType, NoneIsAhead, GenerationsDiffer, CurrentIsLoaded

\* The player stopped, or loaded: no playback is current any more.
LEMMA AllAreStale ==
  ASSUME IInv, player' = load, UNCHANGED loops
  PROVE  /\ player' \in PlayerType
         /\ NoneIsAhead' /\ GenerationsDiffer' /\ CurrentIsLoaded'
         /\ \A l \in loops : l.generation < player'.generation
  <1>1. player.generation \in Nat /\ \A l \in loops : l.generation \in Nat
    BY DEF IInv, Types, PlayerType
  <1>2. player'.generation = player.generation + 1 /\ player' \in PlayerType
    BY <1>1 DEF load, PlayerType
  <1>3. \A l \in loops : l.generation < player'.generation
    BY <1>1, <1>2 DEF IInv, NoneIsAhead
  <1>4. \A l \in loops' : l.generation # player'.generation
    BY <1>1, <1>2, <1>3
  <1> QED
    BY <1>1, <1>2, <1>3, <1>4
    DEF IInv, NoneIsAhead, GenerationsDiffer, CurrentIsLoaded, Current

LEMMA AskKeepsIds ==
  ASSUME Types, NEW kind, Ask(kind)
  PROVE  \A r \in requests' : r.id \in Nat
  BY DEF Types, Ask

\* A press that stops the player.
LEMMA ClearKeeps ==
  ASSUME IInv, Clear, Press, \A r \in requests' : r.id \in Nat
  PROVE  IInv'
  <1>1. player' = load /\ UNCHANGED loops
    BY DEF Clear, reset
  <1>2. player' \in PlayerType /\ NoneIsAhead' /\ GenerationsDiffer' /\ CurrentIsLoaded'
    BY <1>1, AllAreStale
  <1>3. ui' \in UiType /\ presses' \in Nat
    BY DEF Clear, Press, IInv, Types, UiType
  <1> QED
    BY <1>1, <1>2, <1>3 DEF IInv, Types

\* The generation, the playbacks and the loaded run stay.
LEMMA SameGeneration ==
  ASSUME IInv, player' \in PlayerType, player'.generation = player.generation,
         loops' \subseteq loops, trace' = trace
  PROVE  NoneIsAhead' /\ GenerationsDiffer' /\ CurrentIsLoaded'
  BY DEF IInv, NoneIsAhead, GenerationsDiffer, CurrentIsLoaded, Current

LEMMA StepKeeps ==
  ASSUME IInv, handleStep
  PROVE  IInv'
  <1>1. CASE stale /\ Clear /\ Ask("step")
    <2>1. \A r \in requests' : r.id \in Nat
      BY <1>1, AskKeepsIds DEF IInv
    <2> QED
      BY <1>1, <2>1, ClearKeeps DEF handleStep
  <1>2. CASE /\ ~stale
             /\ IF has_next THEN ShowNext ELSE UNCHANGED <<player, grid>>
             /\ UNCHANGED <<trace, loops, result, ui, requests>>
    <2>1. player' \in PlayerType /\ player'.generation = player.generation
      BY <1>2 DEF IInv, Types, PlayerType, ShowNext
    <2>2. NoneIsAhead' /\ GenerationsDiffer' /\ CurrentIsLoaded'
      BY <1>2, <2>1, SameGeneration
    <2> QED
      BY <1>2, <2>1, <2>2 DEF IInv, Types, handleStep, Press
  <1> QED
    BY <1>1, <1>2 DEF handleStep

LEMMA PauseKeeps ==
  ASSUME IInv, handlePause
  PROVE  IInv'
  <1>1. player \in PlayerType /\ ui \in UiType /\ (~ui.paused) \in BOOLEAN
    BY DEF IInv, Types
  <1>2. /\ [player EXCEPT !.paused = ~ui.paused] \in PlayerType
        /\ [player EXCEPT !.paused = ~ui.paused].generation = player.generation
        /\ [ui EXCEPT !.paused = ~ui.paused] \in UiType
    BY <1>1, SetField, 0 \in Int, Zenon
  <1>3. player' = [player EXCEPT !.paused = ~ui.paused] /\ ui' = [ui EXCEPT !.paused = ~ui.paused]
    BY Zenon DEF handlePause
  <1>4. player' \in PlayerType /\ player'.generation = player.generation /\ ui' \in UiType
    BY <1>2, <1>3, Zenon
  <1>5. UNCHANGED <<loops, requests, trace>> /\ presses' = presses + 1
    BY DEF handlePause, Press
  <1>6. NoneIsAhead' /\ GenerationsDiffer' /\ CurrentIsLoaded'
    BY <1>4, <1>5, SameGeneration
  <1> QED
    BY <1>4, <1>5, <1>6 DEF IInv, Types

\* An answer loads its frames: the playback it starts is the only current one.
LEMMA AnswerKeeps ==
  ASSUME IInv, NEW r \in requests, Answer(r)
  PROVE  IInv'
  <1> DEFINE begun == [id |-> r.id, generation |-> player'.generation]
  <1>1. r.id \in Nat /\ player.generation \in Nat
    BY DEF IInv, Types, PlayerType
  <1>2. player' \in PlayerType /\ player'.generation = player.generation + 1
    <2> DEFINE plays == r.kind = "play" /\ answers[r.source].frames # <<>>
               at    == IF answers[r.source].frames = <<>> THEN load.index ELSE load.index + 1
    <2>1. load \in PlayerType /\ load.generation = player.generation + 1 /\ load.index = -1
      BY <1>1 DEF load, PlayerType
    <2>2. at \in Int /\ plays \in BOOLEAN
      BY <2>1
    <2>3. player' = [[load EXCEPT !.index = at] EXCEPT !.playing = plays]
      BY Zenon DEF Answer
    <2> HIDE DEF plays, at
    <2>4. [load EXCEPT !.index = at] \in PlayerType
          /\ [load EXCEPT !.index = at].generation = player.generation + 1
      BY <2>1, <2>2 DEF PlayerType
    <2>5. \A p \in PlayerType, b \in BOOLEAN :
             [p EXCEPT !.playing = b] \in PlayerType
             /\ [p EXCEPT !.playing = b].generation = p.generation
      BY DEF PlayerType
    <2> QED
      BY <2>2, <2>3, <2>4, <2>5, Zenon
  <1>3. /\ loops' \subseteq loops \cup {begun}
        /\ trace'.id = r.id
        /\ begun.id = r.id /\ begun.generation = player'.generation
        /\ begun \in [id : Nat, generation : Nat]
    <2>1. loops' \subseteq loops \cup {begun}
      BY DEF Answer
    <2>2. trace'.id = r.id
      BY DEF Answer
    <2> QED
      BY <1>1, <1>2, <2>1, <2>2
  <1> HIDE DEF begun
  <1>4. \A l \in loops : l.generation \in Nat /\ l.generation < player'.generation
    BY <1>1, <1>2 DEF IInv, Types, NoneIsAhead
  <1>5. NoneIsAhead' /\ GenerationsDiffer' /\ CurrentIsLoaded'
    <2>1. NoneIsAhead'
      BY <1>1, <1>2, <1>3, <1>4 DEF NoneIsAhead
    <2>2. GenerationsDiffer'
      BY <1>1, <1>2, <1>3, <1>4 DEF IInv, GenerationsDiffer
    <2>3. CurrentIsLoaded'
      BY <1>1, <1>2, <1>3, <1>4 DEF CurrentIsLoaded, Current
    <2> QED
      BY <2>1, <2>2, <2>3
  <1>6. ui' \in UiType
    BY DEF IInv, Types, Answer, UiType
  <1>7. requests' \subseteq requests /\ presses' = presses
    BY DEF Answer
  <1> QED
    BY <1>2, <1>3, <1>5, <1>6, <1>7 DEF IInv, Types

LEMMA WakeKeeps ==
  ASSUME IInv, NEW l \in loops, Wake(l)
  PROVE  IInv'
  <1>1. player \in PlayerType /\ ui \in UiType
    BY DEF IInv, Types
  <1>2. player' \in PlayerType /\ player'.generation = player.generation
    <2>1. CASE ShowNext
      BY <1>1, <2>1 DEF PlayerType, ShowNext
    <2>2. CASE Ends(l)
      BY <1>1, <2>2 DEF PlayerType, Ends
    <2> QED
      BY <2>1, <2>2 DEF Wake
  <1>3. loops' \subseteq loops /\ trace' = trace
    BY DEF Wake, Ends
  <1>4. NoneIsAhead' /\ GenerationsDiffer' /\ CurrentIsLoaded'
    BY <1>2, <1>3, SameGeneration
  <1>5. ui' \in UiType
    <2>1. [running |-> FALSE, paused |-> FALSE] \in UiType
      BY DEF UiType
    <2>2. ui' = ui \/ ui' = [running |-> FALSE, paused |-> FALSE]
      BY DEF Wake, Ends
    <2> QED
      BY <1>1, <2>1, <2>2
  <1> QED
    BY <1>2, <1>3, <1>4, <1>5 DEF IInv, Types, Wake

LEMMA Inductive == IInv /\ [Next]_vars => IInv'
  <1> SUFFICES ASSUME IInv, [Next]_vars PROVE IInv'
    OBVIOUS
  <1>1. CASE Edit
    BY <1>1 DEF Edit, page, IInv, Types, NoneIsAhead, GenerationsDiffer, CurrentIsLoaded, Current
  <1>2. CASE handleReset
    <2>1. \A r \in requests' : r.id \in Nat
      BY <1>2 DEF handleReset, IInv, Types
    <2> QED
      BY <1>2, <2>1, ClearKeeps DEF handleReset
  <1>3. CASE handlePlay
    <2>1. \A r \in requests' : r.id \in Nat
      BY <1>3, AskKeepsIds DEF handlePlay, IInv
    <2> QED
      BY <1>3, <2>1, ClearKeeps DEF handlePlay
  <1>4. CASE handleStep
    BY <1>4, StepKeeps
  <1>5. CASE handlePause
    BY <1>5, PauseKeeps
  <1>6. ASSUME NEW r \in requests, Answer(r) PROVE IInv'
    BY <1>6, AnswerKeeps
  <1>7. ASSUME NEW r \in requests, RunFails(r) PROVE IInv'
    BY <1>7 DEF RunFails, page, IInv, Types, NoneIsAhead, GenerationsDiffer, CurrentIsLoaded, Current
  <1>8. ASSUME NEW l \in loops, Wake(l) PROVE IInv'
    BY <1>8, WakeKeeps
  <1>9. CASE UNCHANGED vars
    BY <1>9 DEF vars, page, IInv, Types, NoneIsAhead, GenerationsDiffer, CurrentIsLoaded, Current
  <1> QED
    BY <1>1, <1>2, <1>3, <1>4, <1>5, <1>6, <1>7, <1>8, <1>9 DEF Next

LEMMA Always == Spec => []IInv
  <1> QED
    BY InitIInv, Inductive, PTL DEF Spec

-----------------------------------------------------------------------------
(* What the page holds and shows.                                              *)

\* The text is a program of the pupil and as many commands as there were edits.
TextIsTyped ==
  /\ edits \in 0 .. MaxEdits
  /\ \E p \in Programs, q \in [1 .. edits -> Typed] : text = p \o q

\* Every request is the run of a program the pupil had, under the number of its press.
RequestsAreAsked ==
  /\ presses \in 0 .. MaxPresses
  /\ \A r \in requests :
        r.id \in 1 .. presses /\ r.kind \in {"play", "step"} /\ r.source \in Sources \ {<<>>}

\* What is loaded is what the server answers for its program.
TraceIsAnswer ==
  \/ trace = NoTrace
  \/ /\ trace.id \in 1 .. presses /\ trace.source \in Sources
     /\ trace.frames = answers[trace.source].frames /\ trace.won = answers[trace.source].won

\* The picture is drawn of the loaded frames, up to the index of the player.
GridIsDrawn ==
  /\ player.index \in -1 .. Len(trace.frames) - 1
  /\ grid = Drawn(trace, player.index)

LoopsAndResult == result \in {0, trace.id} /\ \A l \in loops : l.id \in 1 .. presses

PageInv == TextIsTyped /\ RequestsAreAsked /\ TraceIsAnswer /\ GridIsDrawn /\ LoopsAndResult

LEMMA SourcesAre ==
  /\ \A n \in 0 .. MaxEdits : \A p \in Programs, q \in [1 .. n -> Typed] : p \o q \in Sources
  /\ Sources \subseteq Seq(Commands)
  <1>1. \A n \in 0 .. MaxEdits : \A p \in Programs, q \in [1 .. n -> Typed] : p \o q \in Sources
    BY DEF Sources
  <1>2. ASSUME NEW s \in Sources PROVE s \in Seq(Commands)
    <2>1. PICK n \in 0 .. MaxEdits : \E p \in Programs, q \in [1 .. n -> Typed] : s = p \o q
      BY DEF Sources
    <2>5. PICK p \in Programs, q \in [1 .. n -> Typed] : s = p \o q
      BY <2>1
    <2>2. p \in Seq(Commands)
      BY ProgramsAssumption
    <2>3. n \in Nat /\ Typed \subseteq Commands
      BY ProgramsAssumption DEF Commands
    <2>4. q \in Seq(Commands)
      BY <2>3
    <2> QED
      BY <2>5, <2>2, <2>4
  <1> QED
    BY <1>1, <1>2

LEMMA AnswersAre ==
  ASSUME NEW s \in Sources
  PROVE  /\ answers[s].frames = After(s).frames /\ IsSeq(answers[s].frames)
         /\ answers[s].won = evaluate(After(s)) /\ answers[s].won \in BOOLEAN
  BY SourcesAre, AnswerOfRun DEF answers

\* Nothing shown is the level itself.
LEMMA BlankDrawn ==
  ASSUME NEW t, IsSeq(t.frames), t.won \in BOOLEAN
  PROVE  Drawn(t, -1) = initialState
  <1> DEFINE s == t.frames
             over == t.won /\ s # <<>> /\ 0 = Len(s)
  <1>1. PICK S : s \in Seq(S)
    BY DEF IsSeq
  <1>2. SubSeq(s, 1, 0) = <<>> /\ over = FALSE
    BY <1>1
  <1>3. Drawn(t, -1) = [Picture(SubSeq(s, 1, 0)) EXCEPT !.goalReached = over]
    BY DEF Drawn, stateAt, Picture
  <1> HIDE DEF s, over
  <1>4. Drawn(t, -1) = [initialState EXCEPT !.goalReached = FALSE]
    BY <1>2, <1>3, PictureEmpty
  <1> QED
    BY <1>4 DEF initialState

LEMMA TraceTypes ==
  ASSUME PageInv
  PROVE  /\ IsSeq(trace.frames) /\ Len(trace.frames) \in Nat /\ trace.won \in BOOLEAN
         /\ trace.id \in 0 .. presses
  <1>1. IsSeq(trace.frames) /\ trace.won \in BOOLEAN /\ trace.id \in 0 .. presses
    <2>1. CASE trace = NoTrace
      BY <2>1 DEF NoTrace, IsSeq, PageInv, RequestsAreAsked
    <2>2. CASE trace # NoTrace
      BY <2>2, AnswersAre DEF PageInv, TraceIsAnswer, RequestsAreAsked
    <2> QED
      BY <2>1, <2>2
  <1> QED
    BY <1>1, LenProperties DEF IsSeq

LEMMA InitPageInv == Init => PageInv
  <1> SUFFICES ASSUME Init PROVE PageInv
    OBVIOUS
  <1>1. IsSeq(trace.frames) /\ trace.won \in BOOLEAN /\ trace = NoTrace /\ trace.frames = <<>>
    BY DEF Init, NoTrace, IsSeq
  <1>2. Drawn(trace, -1) = initialState
    BY <1>1, BlankDrawn
  <1>3. GridIsDrawn
    BY <1>1, <1>2 DEF Init, GridIsDrawn
  <1>4. TextIsTyped
    <2>1. text \in Programs /\ text \in Seq(Commands) /\ edits = 0
      BY ProgramsAssumption DEF Init
    <2>2. <<>> \in [1 .. 0 -> Typed] /\ text \o <<>> = text
      BY <2>1
    <2>3. edits \in 0 .. MaxEdits
      BY <2>1, ProgramsAssumption
    <2> QED
      BY <2>1, <2>2, <2>3 DEF TextIsTyped
  <1>5. RequestsAreAsked /\ LoopsAndResult /\ TraceIsAnswer
    BY <1>1, ProgramsAssumption DEF Init, RequestsAreAsked, LoopsAndResult, TraceIsAnswer
  <1> QED
    BY <1>3, <1>4, <1>5 DEF PageInv

\* What one press more leaves as it was.
LEMMA PressKeeps ==
  ASSUME PageInv, presses' \in {presses, presses + 1}, presses' \in 0 .. MaxPresses
  PROVE  1 .. presses \subseteq 1 .. presses' /\ presses \in Nat
  BY DEF PageInv, RequestsAreAsked

LEMMA ClearShows ==
  ASSUME PageInv, Clear, Press, UNCHANGED <<text, edits>>, RequestsAreAsked'
  PROVE  PageInv'
  <1>1. presses' = presses + 1 /\ presses \in Nat /\ UNCHANGED <<trace, loops>> /\ player'.index = -1
        /\ grid' = initialState /\ result' = 0
    BY DEF Press, Clear, reset, load, PageInv, RequestsAreAsked
  <1>2. 1 .. presses \subseteq 1 .. presses'
    BY <1>1
  <1>3. Drawn(trace, -1) = initialState /\ Len(trace.frames) \in Nat
    BY TraceTypes, BlankDrawn
  <1>4. GridIsDrawn'
    BY <1>1, <1>3 DEF GridIsDrawn, Drawn
  <1>5. TraceIsAnswer' /\ LoopsAndResult'
    BY <1>1, <1>2 DEF PageInv, TraceIsAnswer, LoopsAndResult
  <1>6. TextIsTyped'
    BY DEF PageInv, TextIsTyped
  <1> QED
    BY <1>4, <1>5, <1>6 DEF PageInv

\* A request for the text that is there.
LEMMA AskAsks ==
  ASSUME PageInv, Press, NEW kind \in {"play", "step"}, Ask(kind)
  PROVE  RequestsAreAsked'
  <1>1. text \in Sources
    BY SourcesAre DEF PageInv, TextIsTyped
  <1>2. presses \in Nat /\ presses' = presses + 1 /\ presses' \in 0 .. MaxPresses
    <2>1. presses \in 0 .. MaxPresses /\ presses < MaxPresses /\ presses' = presses + 1
      BY DEF Press, PageInv, RequestsAreAsked
    <2> QED
      BY <2>1, ProgramsAssumption
  <1>3. ASSUME NEW r \in requests'
        PROVE  r.id \in 1 .. presses' /\ r.kind \in {"play", "step"} /\ r.source \in Sources \ {<<>>}
    <2>1. CASE r \in requests
      BY <1>2, <2>1 DEF PageInv, RequestsAreAsked
    <2>2. CASE r \notin requests
      <3>1. text # <<>> /\ r = [id |-> presses + 1, kind |-> kind, source |-> text]
        BY <2>2 DEF Ask
      <3> QED
        BY <1>1, <1>2, <3>1
    <2> QED
      BY <2>1, <2>2
  <1> QED
    BY <1>2, <1>3 DEF RequestsAreAsked

\* The next frame, of the frames that are loaded.
LEMMA NextShows ==
  ASSUME PageInv, IInv, has_next, ShowNext, trace' = trace
  PROVE  GridIsDrawn'
  <1>1. player'.index = player.index + 1 /\ grid' = Drawn(trace, player.index + 1)
    BY DEF ShowNext, IInv, Types, PlayerType
  <1>2. player.index \in -1 .. Len(trace.frames) - 1 /\ Len(trace.frames) \in Nat
    BY TraceTypes DEF PageInv, GridIsDrawn
  <1>3. player.index < Len(trace.frames) - 1
    BY DEF has_next
  <1> QED
    BY <1>1, <1>2, <1>3 DEF GridIsDrawn, Drawn

LEMMA SameShown ==
  ASSUME PageInv, player'.index = player.index, UNCHANGED <<trace, grid>>
  PROVE  GridIsDrawn'
  BY DEF PageInv, GridIsDrawn, Drawn

\* The requests, the text, the trace and the result stay; there may be a press more.
LEMMA RestStays ==
  ASSUME PageInv, GridIsDrawn', presses' \in {presses, presses + 1}, presses' \in 0 .. MaxPresses,
         UNCHANGED <<text, edits, trace, result>>, requests' \subseteq requests, loops' \subseteq loops
  PROVE  PageInv'
  <1>1. 1 .. presses \subseteq 1 .. presses'
    BY PressKeeps
  <1>2. TextIsTyped'
    BY DEF PageInv, TextIsTyped
  <1>3. RequestsAreAsked' /\ TraceIsAnswer' /\ LoopsAndResult'
    BY <1>1 DEF PageInv, RequestsAreAsked, TraceIsAnswer, LoopsAndResult
  <1> QED
    BY <1>2, <1>3 DEF PageInv

LEMMA PressCounts ==
  ASSUME PageInv, Press
  PROVE  presses' \in {presses, presses + 1} /\ presses' \in 0 .. MaxPresses
  <1>1. presses \in 0 .. MaxPresses /\ presses < MaxPresses /\ presses' = presses + 1
    BY DEF Press, PageInv, RequestsAreAsked
  <1> QED
    BY <1>1, ProgramsAssumption

LEMMA EditShows ==
  ASSUME PageInv, Edit
  PROVE  PageInv'
  <1>1. TextIsTyped'
    <2>1. edits \in Nat /\ edits' = edits + 1 /\ edits' \in 0 .. MaxEdits
      <3>1. edits \in 0 .. MaxEdits /\ edits < MaxEdits /\ edits' = edits + 1
        BY DEF Edit, PageInv, TextIsTyped
      <3> QED
        BY <3>1, ProgramsAssumption
    <2>2. PICK c \in Typed : text' = Append(text, c)
      BY DEF Edit
    <2>3. PICK p \in Programs, q \in [1 .. edits -> Typed] : text = p \o q
      BY DEF PageInv, TextIsTyped
    <2>4. p \in Seq(Commands) /\ q \in Seq(Typed)
      BY <2>1, ProgramsAssumption
    <2>5. Append(q, c) \in [1 .. edits + 1 -> Typed]
      <3>1. Len(q) = edits
        BY <2>1, <2>3
      <3>2. Append(q, c) \in Seq(Typed) /\ Len(Append(q, c)) = edits + 1
        BY <2>4, <3>1, AppendProperties
      <3> QED
        BY <3>2, LenProperties
    <2>6. Append(p \o q, c) = p \o Append(q, c)
      BY <2>4
    <2> QED
      BY <2>1, <2>2, <2>3, <2>5, <2>6 DEF TextIsTyped
  <1>2. /\ player' = player
        /\ UNCHANGED <<trace, grid, requests, presses, result, loops>>
    BY DEF Edit, page
  <1>3. GridIsDrawn' /\ RequestsAreAsked' /\ TraceIsAnswer' /\ LoopsAndResult'
    BY <1>2 DEF PageInv, GridIsDrawn, Drawn, RequestsAreAsked, TraceIsAnswer, LoopsAndResult
  <1> QED
    BY <1>1, <1>3 DEF PageInv

LEMMA ResetShows ==
  ASSUME PageInv, handleReset
  PROVE  PageInv'
  <1>1. Clear /\ Press /\ UNCHANGED <<text, edits, requests>>
    BY DEF handleReset
  <1>2. 1 .. presses \subseteq 1 .. presses' /\ presses' \in 0 .. MaxPresses
    BY <1>1, PressCounts, PressKeeps
  <1>3. RequestsAreAsked'
    BY <1>1, <1>2 DEF PageInv, RequestsAreAsked
  <1> QED
    BY <1>1, <1>3, ClearShows

LEMMA StepShows ==
  ASSUME PageInv, IInv, handleStep
  PROVE  PageInv'
  <1>1. CASE stale /\ Clear /\ Ask("step")
    <2>1. RequestsAreAsked'
      BY <1>1, AskAsks DEF handleStep
    <2> QED
      BY <1>1, <2>1, ClearShows DEF handleStep
  <1>2. CASE /\ IF has_next THEN ShowNext ELSE UNCHANGED <<player, grid>>
             /\ UNCHANGED <<trace, loops, result, ui, requests>>
    <2>1. GridIsDrawn'
      <3>1. CASE has_next
        BY <1>2, <3>1, NextShows
      <3>2. CASE ~has_next
        <4>1. player'.index = player.index /\ UNCHANGED <<trace, grid>>
          BY <1>2, <3>2
        <4> QED
          BY <4>1, SameShown
      <3> QED
        BY <3>1, <3>2
    <2>2. Press /\ UNCHANGED <<text, edits, trace, result>> /\ requests' = requests /\ loops' = loops
      BY <1>2 DEF handleStep
    <2> QED
      BY <2>1, <2>2, PressCounts, RestStays
  <1> QED
    BY <1>1, <1>2 DEF handleStep

LEMMA PauseShows ==
  ASSUME PageInv, IInv, handlePause
  PROVE  PageInv'
  <1>1. Press /\ UNCHANGED <<text, edits, trace, result, grid>> /\ requests' = requests /\ loops' = loops
    BY DEF handlePause
  <1>2. player'.index = player.index
    BY DEF handlePause, IInv, Types, PlayerType
  <1>3. GridIsDrawn'
    BY <1>1, <1>2, SameShown
  <1> QED
    BY <1>1, <1>3, PressCounts, RestStays

LEMMA AnswerShows ==
  ASSUME PageInv, NEW r \in requests, Answer(r)
  PROVE  PageInv'
  <1> DEFINE frames == answers[r.source].frames
             loaded == [id |-> r.id, source |-> r.source, frames |-> frames,
                        won |-> answers[r.source].won]
             shown  == IF frames = <<>> THEN -1 ELSE 0
  <1>1. r.id \in 1 .. presses /\ r.source \in Sources
    BY DEF PageInv, RequestsAreAsked
  <1>2. /\ trace' = loaded /\ result' = r.id /\ grid' = Drawn(loaded, shown)
        /\ player'.index = shown /\ requests' \subseteq requests
        /\ UNCHANGED <<text, edits, presses>>
        /\ \A l \in loops' : l \in loops \/ l.id = r.id
    BY DEF Answer, load
  <1>3. Len(frames) \in Nat /\ (frames # <<>> => Len(frames) > 0)
    <2>1. IsSeq(frames)
      BY <1>1, AnswersAre
    <2> HIDE DEF frames
    <2> QED
      BY <2>1 DEF IsSeq
  <1>4. GridIsDrawn'
    <2>1. loaded.frames = frames
      OBVIOUS
    <2>2. shown \in -1 .. Len(frames) - 1
      <3> HIDE DEF frames
      <3> QED
        BY <1>3
    <2> HIDE DEF shown, loaded, frames
    <2> QED
      BY <1>2, <2>1, <2>2 DEF GridIsDrawn, Drawn
  <1>5. TraceIsAnswer'
    BY <1>1, <1>2 DEF TraceIsAnswer
  <1>6. RequestsAreAsked' /\ TextIsTyped'
    BY <1>2 DEF PageInv, RequestsAreAsked, TextIsTyped
  <1>7. LoopsAndResult'
    <2>1. trace'.id = r.id
      BY <1>2
    <2> HIDE DEF loaded, frames, shown
    <2> QED
      BY <1>1, <1>2, <2>1 DEF PageInv, LoopsAndResult
  <1> QED
    BY <1>4, <1>5, <1>6, <1>7 DEF PageInv

LEMMA WakeShows ==
  ASSUME PageInv, IInv, NEW l \in loops, Wake(l)
  PROVE  PageInv'
  <1>1. UNCHANGED <<text, edits, trace, result, presses>> /\ requests' = requests /\ loops' \subseteq loops
    BY DEF Wake, Ends
  <1>2. GridIsDrawn'
    <2>1. CASE has_next /\ ShowNext
      BY <1>1, <2>1, NextShows
    <2>2. CASE Ends(l)
      <3>1. player'.index = player.index /\ UNCHANGED grid
        BY <2>2 DEF Ends, IInv, Types, PlayerType
      <3> QED
        BY <1>1, <3>1, SameShown
    <2> QED
      BY <2>1, <2>2 DEF Wake
  <1>3. presses' \in {presses, presses + 1} /\ presses' \in 0 .. MaxPresses
    BY <1>1 DEF PageInv, RequestsAreAsked
  <1> QED
    BY <1>1, <1>2, <1>3, RestStays

LEMMA PageInductive == IInv /\ PageInv /\ [Next]_vars => PageInv'
  <1> SUFFICES ASSUME IInv, PageInv, [Next]_vars PROVE PageInv'
    OBVIOUS
  <1>1. CASE Edit
    BY <1>1, EditShows
  <1>2. CASE handleReset
    BY <1>2, ResetShows
  <1>3. CASE handlePlay
    <2>1. RequestsAreAsked'
      BY <1>3, AskAsks DEF handlePlay
    <2> QED
      BY <1>3, <2>1, ClearShows DEF handlePlay
  <1>4. CASE handleStep
    BY <1>4, StepShows
  <1>5. CASE handlePause
    BY <1>5, PauseShows
  <1>6. ASSUME NEW r \in requests, Answer(r) PROVE PageInv'
    BY <1>6, AnswerShows
  <1>7. ASSUME UNCHANGED <<text, page, edits, presses>>, requests' \subseteq requests PROVE PageInv'
    BY <1>7 DEF page, PageInv, TextIsTyped, RequestsAreAsked, TraceIsAnswer, GridIsDrawn, Drawn,
                LoopsAndResult
  <1>8. ASSUME NEW r \in requests, RunFails(r) PROVE PageInv'
    BY <1>7, <1>8 DEF RunFails
  <1>9. ASSUME NEW l \in loops, Wake(l) PROVE PageInv'
    BY <1>9, WakeShows
  <1>10. CASE UNCHANGED vars
    BY <1>7, <1>10 DEF vars
  <1> QED
    BY <1>1, <1>2, <1>3, <1>4, <1>5, <1>6, <1>8, <1>9, <1>10 DEF Next

LEMMA AlwaysShown == Spec => [](IInv /\ PageInv)
  <1> QED
    BY InitIInv, Inductive, InitPageInv, PageInductive, PTL DEF Spec

-----------------------------------------------------------------------------
(* The picture and the world.                                                  *)

LEMMA ShownIsWorld ==
  ASSUME IInv, PageInv
  PROVE  DrawnIsWorld
  <1> DEFINE s == trace.source
             n == player.index + 1
             p == SubSeq(s, 1, n)
             u == After(p)
             w == After(s)
             g == Picture(u.frames)
  <1>1. /\ s \in Seq(Commands) /\ IsSeq(w.frames) /\ Foreseen(s, w.frames)
        /\ trace.frames = w.frames
        /\ Len(w.frames) <= Len(s)
    <2>1. CASE trace = NoTrace
      <3>1. s = <<>> /\ trace.frames = <<>> /\ s \in Seq(Commands)
        BY <2>1 DEF NoTrace
      <3>2. Faithful(s)
        BY <3>1, EveryProgramIsFaithful
      <3>3. w.frames = <<>>
        BY <3>1, AfterEmpty DEF World
      <3> HIDE DEF s
      <3> QED
        BY <3>1, <3>2, <3>3 DEF Faithful
    <2>2. CASE trace # NoTrace
      <3>1. s \in Sources /\ trace.frames = answers[s].frames
        BY <2>2 DEF PageInv, TraceIsAnswer
      <3> HIDE DEF s
      <3>2. s \in Seq(Commands) /\ trace.frames = After(s).frames
        BY <3>1, SourcesAre, AnswersAre
      <3>3. Faithful(s)
        BY <3>2, EveryProgramIsFaithful
      <3> QED
        BY <3>1, <3>2, <3>3 DEF Faithful
    <2> QED
      BY <2>1, <2>2
  <1>2. trace.won = TRUE /\ trace.frames # <<>> <=> w.frames # <<>> /\ evaluate(w)
    <2>1. CASE trace = NoTrace
      BY <1>1, <2>1 DEF NoTrace
    <2>2. CASE trace # NoTrace
      <3>1. s \in Sources /\ trace.won = answers[s].won
        BY <2>2 DEF PageInv, TraceIsAnswer
      <3> HIDE DEF s
      <3>2. trace.won = evaluate(After(s)) /\ trace.won \in BOOLEAN
        BY <3>1, AnswersAre
      <3> QED
        BY <1>1, <3>2
    <2> QED
      BY <2>1, <2>2
  <1>3. n \in 0 .. Len(w.frames) /\ Len(w.frames) \in Nat /\ player.index \in Int
    <2>1. Len(w.frames) \in Nat /\ player.index \in -1 .. Len(w.frames) - 1
      BY <1>1, TraceTypes DEF PageInv, GridIsDrawn
    <2> HIDE DEF w
    <2> QED
      BY <2>1
  <1>4. u.stopped = "end_of_program" /\ u.frames = SubSeq(w.frames, 1, n)
    <2> HIDE DEF n, s, w
    <2> QED
      BY <1>1, <1>3 DEF Foreseen
  <1>5. p \in Seq(Commands)
    <2> HIDE DEF n, s
    <2>1. Len(s) \in Nat /\ n \in 0 .. Len(s)
      BY <1>1, <1>3, LenProperties
    <2> QED
      BY <1>1, <2>1
  <1>6. /\ FloorDrawn(g, u, Covered(u.frames)) /\ IsWorld(u)
        /\ g.robot = [at |-> u.here, direction |-> u.facing,
                      collected |-> Cardinality(Level.items) - Cardinality(u.items)]
        /\ g.stepsUsed = u.steps
    <2> HIDE DEF p
    <2>1. Faithful(p)
      BY <1>5, EveryProgramIsFaithful
    <2> QED
      BY <1>4, <2>1 DEF Faithful, IsDrawn
  <1> DEFINE over == trace.won /\ trace.frames # <<>> /\ n = Len(trace.frames)
  <1>7. grid = [g EXCEPT !.goalReached = over]
    <2>1. grid = stateAt(trace.frames, n, trace.won)
      BY DEF PageInv, GridIsDrawn, Drawn
    <2> HIDE DEF n, u, w
    <2> QED
      BY <1>1, <1>4, <2>1 DEF stateAt, Picture
  <1>8. over <=> u.frames # <<>> /\ u.frames = w.frames /\ evaluate(w)
    <2>1. PICK S : w.frames \in Seq(S)
      BY <1>1 DEF IsSeq
    <2> DEFINE f == w.frames
               h == SubSeq(f, 1, n)
    <2> HIDE DEF n, w, u, s, p
    <2>2. Len(h) = n /\ (h = f <=> n = Len(f))
      BY <1>3, <2>1
    <2> QED
      BY <1>1, <1>2, <1>4, <2>2, TraceTypes
  <1>9. p \in UNION {Prefixes(q) : q \in Sources} /\ s \in UNION {Prefixes(q) : q \in Sources}
    <2>1. \E q \in Sources : \E i, k \in 0 .. Len(q) : s = SubSeq(q, 1, k) /\ p = SubSeq(q, 1, i)
      <3>1. CASE trace = NoTrace
        <4>1. text \in Sources /\ text \in Seq(Commands)
          BY SourcesAre DEF PageInv, TextIsTyped
        <4>2. s = <<>> /\ p = <<>>
          BY <1>3, <1>1, <3>1 DEF NoTrace
        <4>3. SubSeq(text, 1, 0) = <<>> /\ 0 \in 0 .. Len(text)
          BY <4>1
        <4> HIDE DEF s, p
        <4> QED
          BY <4>1, <4>2, <4>3
      <3>2. CASE trace # NoTrace
        <4>1. s \in Sources
          BY <3>2 DEF PageInv, TraceIsAnswer
        <4> HIDE DEF n, s, w
        <4>2. s = SubSeq(s, 1, Len(s)) /\ Len(s) \in 0 .. Len(s) /\ n \in 0 .. Len(s)
          BY <1>1, <1>3
        <4> QED
          BY <4>1, <4>2
      <3> QED
        BY <3>1, <3>2
    <2> HIDE DEF s, p
    <2> QED
      BY <2>1 DEF Prefixes
  <1>10. Fresh[p] = u /\ Fresh[s] = w
    <2> HIDE DEF s, p
    <2> QED
      BY <1>9 DEF Fresh, u, w
  <1>11. Shows(u, w)
    <2> HIDE DEF s, p, u, w, g, over
    <2>1. /\ grid.robot = g.robot /\ grid.stepsUsed = g.stepsUsed /\ grid.cells = g.cells
          /\ grid.goalReached = over
      BY <1>6, <1>7 DEF FloorDrawn
    <2>2. ItemsDrawn(grid) = u.items
      BY <1>6, <2>1 DEF ItemsDrawn, FloorDrawn, CellDrawn, IsWorld
    <2>3. \A q \in Board :
             /\ grid.cells[q].painted = (q \in DOMAIN u.painted)
             /\ q \in DOMAIN u.painted => grid.cells[q].paintColor = u.painted[q]
             /\ q \in DOMAIN u.values => grid.cells[q].value = u.values[q]
             /\ q \in Level.walls <=> grid.cells[q].type = "wall"
      BY <1>6, <2>1 DEF FloorDrawn, CellDrawn
    <2>4. \A q \in Level.goals \ (Level.items \cup Covered(SubSeq(trace.frames, 1, n))) :
             grid.cells[q].type = "goal"
      <3>1. Covered(SubSeq(trace.frames, 1, n)) = Covered(u.frames)
        BY <1>1, <1>4
      <3>2. Level.goals \subseteq Board
        BY LevelAssumption
      <3> HIDE DEF n
      <3> QED
        BY <1>6, <2>1, <3>1, <3>2 DEF FloorDrawn, CellDrawn
    <2> QED
      BY <1>6, <1>8, <2>1, <2>2, <2>3, <2>4 DEF Shows
  <1> QED
    <2> HIDE DEF u, w
    <2> QED
      BY <1>10, <1>11 DEF DrawnIsWorld

-----------------------------------------------------------------------------
(* The theorems.                                                               *)

\* However often Run and Step are pressed and in whatever order the answers come, at most
\* one playback may show frames, and it is the one of the run that is loaded (generation
\* in trace-player.ts:78, bumped by load and stop).
THEOREM OneDriver == Spec => []LoopsAreTheirs
  <1>1. IInv => LoopsAreTheirs
    BY DEF IInv, GenerationsDiffer, CurrentIsLoaded, LoopsAreTheirs, Live, Current
  <1> QED
    BY <1>1, Always, PTL

\* The types, and the player's index is that of a loaded frame, or before the first
\* (this.frames[this.index], trace-player.ts:102).
THEOREM TypeCorrect == Spec => []TypeOK
  <1>1. IInv /\ PageInv => TypeOK
    <2> SUFFICES ASSUME IInv, PageInv PROVE TypeOK
      OBVIOUS
    <2>1. text \in Seq(Commands)
      BY SourcesAre DEF PageInv, TextIsTyped
    <2>2. trace.id \in 0 .. presses /\ trace.won \in BOOLEAN
      BY TraceTypes
    <2>3. /\ player.index \in -1 .. Len(trace.frames) - 1
          /\ result \in {0, trace.id}
          /\ \A r \in requests : r.id \in 1 .. presses /\ r.kind \in {"play", "step"} /\ r.source # <<>>
          /\ \A l \in loops : l.id \in 1 .. presses
          /\ presses \in 0 .. MaxPresses
      BY DEF PageInv, GridIsDrawn, LoopsAndResult, RequestsAreAsked
    <2>4. 1 .. presses \subseteq Presses
      <3>1. presses \in 0 .. MaxPresses /\ MaxPresses \in Nat
        BY <2>3, ProgramsAssumption
      <3> QED
        BY <3>1 DEF Presses
    <2>5. /\ player.playing \in BOOLEAN /\ player.paused \in BOOLEAN /\ player.generation \in Nat
          /\ ui \in [running : BOOLEAN, paused : BOOLEAN]
      BY DEF IInv, Types, PlayerType, UiType
    <2>6. loops \subseteq [id : Presses, generation : Nat]
      BY <2>3, <2>4 DEF IInv, Types
    <2> QED
      BY <2>1, <2>2, <2>3, <2>4, <2>5, <2>6 DEF TypeOK
  <1> QED
    BY <1>1, AlwaysShown, PTL

\* The picture is the world that the commands shown so far leave on a fresh level, whatever
\* the level, the programs, the presses and the order of the answers; it announces the goal
\* only at the end of a program that wins (stateAt, grid-engine.ts; World, robot_sim.py).
THEOREM DrawnHolds == Spec => []DrawnIsWorld
  <1>1. IInv /\ PageInv => DrawnIsWorld
    BY ShownIsWorld
  <1> QED
    BY <1>1, AlwaysShown, PTL
=============================================================================
