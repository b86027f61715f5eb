------------------------ MODULE CourseProgressProofs ------------------------
(***************************************************************************)
(* What holds of a pupil's progress for any course, any number of requests *)
(* in flight and any number of calls.                                      *)
(***************************************************************************)
EXTENDS CourseProgress, FiniteSetTheorems, TLAPS

(***************************************************************************)
(* The inductive invariant: what a request q carries from step to step.    *)
(***************************************************************************)
\* Lessons done as q's transaction sees them.
DoneBy(q) == IF "progress" \in q.wrote THEN done \cup {q.lesson} ELSE done

AfterMark == {"count", "enroll", "certify", "pay", "credit", "day"}

\* Which exercise and which lesson q is about, and whether its row is written.
Located(q) ==
  /\ q.at \in {"award", "grant", "check"} => q.exercise \in Exercises /\ q.lesson = None
  /\ q.at \in AfterMark \cup {"find", "mark"} => q.lesson \in Lessons
  /\ q.exercise # None => q.lesson \in {None, LessonOf[q.exercise]}
  /\ "progress" \in q.wrote => q.lesson \in Lessons
  /\ q.at \in AfterMark \/ (q.at = "commit" /\ q.lesson # None) => "progress" \in q.wrote

\* A submission holds the streak row from its award to its end ...
Awarded(q) ==
  q.exercise # None /\ q.at \notin {"idle", "award", "grant"} => "streak" \in q.wrote

\* ... and leaves its lesson open only when an exercise of it is unsolved.
Unsolved(q) ==
  q.at = "commit" /\ q.exercise # None /\ q.lesson = None
    => ~(Siblings(q.exercise) \subseteq passed \cup {q.exercise})

\* The lessons q counted are done, and all of them are if it finishes the course.
Counted(q) ==
  /\ q.count <= Cardinality(DoneBy(q))
  /\ "finished" \in q.columns \cup q.wrote => DoneBy(q) = Lessons
  /\ "certificate" \in q.wrote \/ q.at = "certify" => "finished" \in q.wrote

\* The XP q read or wrote is covered by the awards, its own included.
Paid(q) == q.xp <= earned + q.gain

Sound(q) == Located(q) /\ Awarded(q) /\ Unsolved(q) /\ Counted(q) /\ Paid(q)

OneStreak == \A r, s \in Requests : HoldsStreak(r) /\ HoldsStreak(s) => r = s

Promises ==
  /\ SolvedLessonsAreClosed
  /\ CertificateIsEarned
  /\ PercentNeverOverstates
  /\ XpIsEarned

IInv == TypeOK /\ (\A r \in Requests : Sound(req[r])) /\ OneStreak /\ Promises

(***************************************************************************)
(* Lemmas                                                                  *)
(***************************************************************************)
LEMMA TotalType == Total \in Nat
BY CourseAssumption, FS_CardinalityType DEF Total

LEMMA IdleType == Idle \in Request
BY TotalType DEF Idle, Request, Steps

\* The lessons done are lessons, and counting them bounds them.
LEMMA DoneCount ==
  ASSUME NEW D \in SUBSET Lessons
  PROVE  /\ IsFiniteSet(D)
         /\ Cardinality(D) \in 0..Total
         /\ Cardinality(D) = Total => D = Lessons
<1>1. IsFiniteSet(D) /\ Cardinality(D) <= Total /\ (Total = Cardinality(D) => Lessons = D)
  BY CourseAssumption, FS_Subset DEF Total
<1>2. Cardinality(D) \in Nat
  BY <1>1, FS_CardinalityType
<1> QED
  BY <1>1, <1>2, TotalType

LEMMA DoneGrows ==
  ASSUME NEW D \in SUBSET Lessons, NEW C \in SUBSET D
  PROVE  Cardinality(C) <= Cardinality(D)
BY DoneCount, FS_Subset

LEMMA IdleSound == TypeOK => Sound(Idle)
<1> SUFFICES ASSUME TypeOK PROVE Sound(Idle)
  OBVIOUS
<1>1. DoneBy(Idle) = done
  BY DEF DoneBy, Idle
<1>2. 0 <= Cardinality(done)
  BY DoneCount DEF TypeOK
<1>3. Counted(Idle)
  BY <1>1, <1>2 DEF Counted, Idle
<1>4. Paid(Idle)
  BY DEF Paid, Idle, TypeOK
<1>5. Located(Idle) /\ Awarded(Idle) /\ Unsolved(Idle)
  BY DEF Located, Awarded, Unsolved, Idle, AfterMark
<1> QED
  BY <1>3, <1>4, <1>5 DEF Sound

LEMMA DoneByLessons ==
  ASSUME TypeOK, NEW q \in Request, Located(q)
  PROVE  DoneBy(q) \in SUBSET Lessons /\ done \subseteq DoneBy(q)
BY DEF TypeOK, Located, DoneBy

(* A step of one request that commits nothing.                             *)
LEMMA QuietStep ==
  ASSUME IInv, NEW r \in Requests, NEW q \in Request,
         req' = [req EXCEPT ![r] = q], UNCHANGED rows,
         overlapped' \in BOOLEAN, calls' \in 0..MaxCalls,
         Sound(q),
         "streak" \in q.wrote =>
           HoldsStreak(r) \/ \A s \in Requests \ {r} : ~HoldsStreak(s)
  PROVE  IInv'
<1>1. req'[r] = q /\ \A s \in Requests \ {r} : req'[s] = req[s]
  BY DEF IInv, TypeOK
<1>2. TypeOK'
  BY DEF IInv, TypeOK, rows
<1>3. Promises'
  BY DEF IInv, Promises, SolvedLessonsAreClosed, CertificateIsEarned,
     PercentNeverOverstates, XpIsEarned, rows, Siblings
<1>4. OneStreak'
  BY <1>1 DEF IInv, OneStreak, HoldsStreak
<1>5. ASSUME NEW p \in Request PROVE Sound(p) => Sound(p)'
  BY DEF rows, Sound, Located, Awarded, Unsolved, Counted, Paid, DoneBy, Siblings
<1>6. ASSUME NEW s \in Requests PROVE Sound(req[s])'
  <2>1. CASE s = r
    <3>1. Sound(q)'
      BY <1>5
    <3> QED
      BY <3>1, <1>1, <2>1 DEF rows, Sound, Located, Awarded, Unsolved, Counted, Paid, DoneBy, Siblings
  <2>2. CASE s # r
    <3>1. Sound(req[s])
      BY DEF IInv
    <3>2. req'[s] = req[s]
      BY <1>1, <2>2
    <3> QED
      BY <3>1, <3>2 DEF rows, Sound, Located, Awarded, Unsolved, Counted, Paid, DoneBy, Siblings
  <2> QED
    BY <2>1, <2>2
<1> QED
  BY <1>2, <1>3, <1>4, <1>6 DEF IInv

LEMMA Continued ==
  ASSUME IInv, NEW r \in Requests, NEW q \in Request, Continue(r, q), Sound(q),
         "streak" \in q.wrote =>
           HoldsStreak(r) \/ \A s \in Requests \ {r} : ~HoldsStreak(s)
  PROVE  IInv'
BY QuietStep DEF Continue, IInv, TypeOK

LEMMA Arrived ==
  ASSUME IInv, NEW r \in Requests, NEW q \in Request, Arrive(r, q), Sound(q),
         "streak" \notin q.wrote
  PROVE  IInv'
<1>1. overlapped' \in BOOLEAN /\ calls' \in 0..MaxCalls
  BY CourseAssumption DEF Arrive, IInv, TypeOK
<1> QED
  BY <1>1, QuietStep DEF Arrive

(***************************************************************************)
(* The steps                                                               *)
(***************************************************************************)
LEMMA InitInv == Init => IInv
<1> SUFFICES ASSUME Init PROVE IInv
  OBVIOUS
<1>1. TypeOK
  <2>1. req \in [Requests -> Request]
    BY IdleType DEF Init
  <2>2. streak \in [row : BOOLEAN, xp : Nat, today : BOOLEAN]
    <3>1. \A b \in BOOLEAN : [row |-> b, xp |-> 0, today |-> FALSE]
                              \in [row : BOOLEAN, xp : Nat, today : BOOLEAN]
      OBVIOUS
    <3> QED
      BY <3>1 DEF Init
  <2>3. percent \in 0..Total /\ calls \in 0..MaxCalls
    BY TotalType, CourseAssumption DEF Init
  <2> QED
    BY <2>1, <2>2, <2>3 DEF Init, TypeOK
<1>2. \A r \in Requests : req[r] = Idle
  BY DEF Init
<1>3. \A r \in Requests : Sound(req[r])
  BY <1>1, <1>2, IdleSound
<1>4. OneStreak
  BY <1>2 DEF OneStreak, HoldsStreak, Idle
<1>5. Cardinality(done) = 0
  BY FS_EmptySet DEF Init
<1>6. \A e \in Exercises : e \in Siblings(e)
  BY DEF Siblings
<1>7. Promises
  BY <1>5, <1>6 DEF Init, Promises, SolvedLessonsAreClosed, CertificateIsEarned,
     PercentNeverOverstates, XpIsEarned
<1> QED
  BY <1>1, <1>3, <1>4, <1>7 DEF IInv

LEMMA SubmitInv ==
  ASSUME IInv, NEW r \in Requests, Submit(r)
  PROVE  IInv'
<1>1. PICK e \in Exercises : Arrive(r, Submitted(e))
  BY DEF Submit
<1> DEFINE q == Submitted(e)
<1>2. q \in Request /\ "streak" \notin q.wrote
  BY IdleType DEF Submitted, Request, Idle, Steps
<1>3. Sound(q)
  <2>1. Sound(Idle)
    BY IdleSound DEF IInv
  <2>2. Counted(q) /\ Paid(q)
    BY <2>1 DEF Sound, Counted, Paid, DoneBy, Submitted, Idle
  <2>3. Located(q) /\ Awarded(q) /\ Unsolved(q)
    BY DEF Located, Awarded, Unsolved, AfterMark, Submitted, Idle
  <2> QED
    BY <2>2, <2>3 DEF Sound
<1> HIDE DEF q
<1> QED
  BY <1>1, <1>2, <1>3, Arrived DEF q

LEMMA CompleteInv ==
  ASSUME IInv, NEW r \in Requests, Complete(r)
  PROVE  IInv'
<1>1. PICK l \in Lessons : Arrive(r, [Idle EXCEPT !.at = "find", !.lesson = l])
  BY DEF Complete
<1> DEFINE q == [Idle EXCEPT !.at = "find", !.lesson = l]
<1>2. q \in Request /\ "streak" \notin q.wrote
  BY IdleType DEF Request, Idle, Steps
<1>3. Sound(q)
  <2>1. Sound(Idle)
    BY IdleSound DEF IInv
  <2>2. Counted(q) /\ Paid(q)
    BY <2>1 DEF Sound, Counted, Paid, DoneBy, Idle
  <2>3. Located(q) /\ Awarded(q) /\ Unsolved(q)
    BY DEF Located, Awarded, Unsolved, AfterMark, Idle
  <2> QED
    BY <2>2, <2>3 DEF Sound
<1> HIDE DEF q
<1> QED
  BY <1>1, <1>2, <1>3, Arrived DEF q

LEMMA ReadStreakInv ==
  ASSUME IInv, NEW r \in Requests, ReadStreak(r)
  PROVE  IInv'
<1> DEFINE p == req[r]
           q == [p EXCEPT
             !.at = IF At(r, "award") THEN "grant" ELSE "credit",
             !.xp = SeenXp(r),
             !.fresh = IF streak.row \/ HoldsStreak(r) THEN @ ELSE @ \cup {"streak"}]
<1>1. Continue(r, q) /\ p.at \in {"award", "pay"}
  BY DEF ReadStreak
<1>2. p \in Request /\ Sound(p)
  BY DEF IInv, TypeOK
<1>3. SeenXp(r) \in Nat /\ SeenXp(r) <= earned + p.gain
  BY <1>2 DEF SeenXp, IInv, TypeOK, Promises, XpIsEarned, Request, Sound, Paid
<1>4. q \in Request
  BY <1>2, <1>3 DEF Request, Steps
<1>5. /\ q.exercise = p.exercise /\ q.lesson = p.lesson /\ q.wrote = p.wrote
      /\ q.columns = p.columns /\ q.count = p.count /\ q.gain = p.gain
      /\ q.xp = SeenXp(r)
      /\ p.at = "award" => q.at = "grant"
      /\ p.at = "pay" => q.at = "credit"
  BY <1>1, <1>2 DEF Request, At
<1> HIDE DEF q
<1>6. Sound(q)
  <2>1. Located(q) /\ Awarded(q) /\ Unsolved(q)
    BY <1>1, <1>2, <1>5 DEF Sound, Located, Awarded, Unsolved, AfterMark
  <2>2. Counted(q) /\ Paid(q)
    BY <1>1, <1>2, <1>3, <1>5 DEF Sound, Counted, Paid, DoneBy
  <2> QED
    BY <2>1, <2>2 DEF Sound
<1> QED
  BY <1>1, <1>4, <1>5, <1>6, Continued DEF HoldsStreak

(* An award is added, and the streak row is held by nobody else.           *)
LEMMA GrantedInv ==
  ASSUME IInv, NEW r \in Requests, NEW amount \in Nat, NEW next \in Steps,
         Continue(r, Granted(r, amount, next)),
         req[r].at \in {"grant", "credit"}, ~Blocked(r),
         \/ req[r].at = "grant" /\ next = "check"
         \/ req[r].at = "credit" /\ next \in {"day", "commit"}
  PROVE  IInv'
<1> DEFINE p == req[r]
           q == Granted(r, amount, next)
<1>2. p \in Request /\ Sound(p)
  BY DEF IInv, TypeOK
<1>3. q \in Request
  <2>1. /\ p.wrote \cup {"streak"} \in SUBSET Writes
        /\ p.fresh \ {"streak"} \in SUBSET {"streak", "progress"}
        /\ p.xp + amount \in Nat /\ p.gain + amount \in Nat
    BY <1>2 DEF Request, Writes
  <2> QED
    BY <1>2, <2>1 DEF Request, Granted
<1>4. /\ q.exercise = p.exercise /\ q.lesson = p.lesson
      /\ q.wrote = p.wrote \cup {"streak"}
      /\ q.columns = p.columns /\ q.count = p.count
      /\ q.gain = p.gain + amount /\ q.xp = p.xp + amount
      /\ q.at = next
  BY <1>2 DEF Request, Granted
<1> HIDE DEF q
<1>5. Sound(q)
  <2>1. p.at = "credit" => p.lesson \in Lessons /\ "progress" \in p.wrote
    BY <1>2 DEF Sound, Located, AfterMark
  <2>2. Located(q)
    <3>1. CASE p.at = "grant"
      BY <1>2, <1>4, <3>1, CourseAssumption DEF Sound, Located, AfterMark, Request
    <3>2. CASE p.at = "credit"
      BY <1>2, <1>4, <2>1, <3>2 DEF Sound, Located, AfterMark
    <3> QED
      BY <3>1, <3>2
  <2>3. Awarded(q)
    BY <1>4 DEF Awarded
  <2>4. Unsolved(q)
    BY <1>4, <2>1, CourseAssumption DEF Unsolved
  <2>5. Counted(q)
    BY <1>2, <1>4 DEF Sound, Counted, DoneBy, Steps
  <2>6. Paid(q)
    BY <1>2, <1>4 DEF Sound, Paid, Request, IInv, TypeOK
  <2> QED
    BY <2>2, <2>3, <2>4, <2>5, <2>6 DEF Sound
<1>6. \A s \in Requests \ {r} : ~HoldsStreak(s)
  BY DEF Blocked, WaitsFor
<1> QED
  BY <1>3, <1>5, <1>6, Continued DEF q

LEMMA AwardInv ==
  ASSUME IInv, NEW r \in Requests, GrantExercise(r) \/ CreditLesson(r)
  PROVE  IInv'
<1>1. XP_EXERCISE \in Nat /\ XP_LESSON_COMPLETE \in Nat
  BY DEF XP_EXERCISE, XP_LESSON_COMPLETE
<1>2. CASE GrantExercise(r)
  <2>1. /\ Continue(r, Granted(r, XP_EXERCISE, "check")) /\ req[r].at = "grant"
        /\ ~Blocked(r)
    BY <1>2 DEF GrantExercise, At
  <2>2. "check" \in Steps
    BY DEF Steps
  <2> QED
    BY <1>1, <2>1, <2>2, GrantedInv
<1>3. CASE CreditLesson(r)
  <2> DEFINE next == IF req[r].exercise = None THEN "day" ELSE "commit"
  <2>1. /\ Continue(r, Granted(r, XP_LESSON_COMPLETE, next)) /\ req[r].at = "credit"
        /\ ~Blocked(r)
    BY <1>3 DEF CreditLesson, At
  <2>2. next \in Steps /\ next \in {"day", "commit"}
    BY DEF Steps
  <2> HIDE DEF next
  <2> QED
    BY <1>1, <2>1, <2>2, GrantedInv
<1> QED
  BY <1>2, <1>3

LEMMA CheckLessonInv ==
  ASSUME IInv, NEW r \in Requests, CheckLesson(r)
  PROVE  IInv'
<1> DEFINE p == req[r]
           e == p.exercise
<1>1. p \in Request /\ Sound(p) /\ p.at = "check"
  BY DEF IInv, TypeOK, CheckLesson, At
<1>2. e \in Exercises /\ e # None /\ p.lesson = None /\ LessonOf[e] \in Lessons
  BY <1>1, CourseAssumption DEF Sound, Located
<1>3. "progress" \notin p.wrote /\ "streak" \in p.wrote
  BY <1>1, <1>2, CourseAssumption DEF Sound, Located, Awarded
<1>4. CASE Siblings(e) \subseteq Passed(r)
  <2> DEFINE q == [p EXCEPT !.at = "find", !.lesson = LessonOf[e]]
  <2>1. Continue(r, q)
    BY <1>4 DEF CheckLesson
  <2>2. q \in Request
    BY <1>1, <1>2 DEF Request, Steps
  <2>3. Sound(q)
    BY <1>1, <1>2, <1>3 DEF Sound, Located, Awarded, Unsolved, Counted, Paid, DoneBy, AfterMark, Request
  <2>4. q.wrote = p.wrote
    BY <1>1 DEF Request
  <2> HIDE DEF q
  <2> QED
    BY <1>3, <2>1, <2>2, <2>3, <2>4, Continued DEF HoldsStreak
<1>5. CASE ~(Siblings(e) \subseteq Passed(r))
  <2> DEFINE q == [p EXCEPT !.at = "commit"]
  <2>1. Continue(r, q)
    BY <1>5 DEF CheckLesson
  <2>2. q \in Request
    BY <1>1, <1>2 DEF Request, Steps
  <2>3. Passed(r) = passed \cup {e}
    BY <1>2 DEF Passed
  <2>4. Sound(q)
    BY <1>1, <1>2, <1>3, <1>5, <2>3 DEF Sound, Located, Awarded, Unsolved, Counted, Paid, DoneBy, AfterMark, Request
  <2>5. q.wrote = p.wrote
    BY <1>1 DEF Request
  <2> HIDE DEF q
  <2> QED
    BY <1>3, <2>1, <2>2, <2>4, <2>5, Continued DEF HoldsStreak
<1> QED
  BY <1>4, <1>5

LEMMA FindProgressInv ==
  ASSUME IInv, NEW r \in Requests, FindProgress(r)
  PROVE  IInv'
<1> DEFINE p == req[r]
           q == [p EXCEPT !.at = "mark", !.loaded = percent,
                          !.fresh = IF p.lesson \in done THEN @ ELSE @ \cup {"progress"}]
<1>1. p \in Request /\ Sound(p) /\ p.at = "find" /\ percent \in 0..Total
  BY DEF IInv, TypeOK, FindProgress, At
<1>2. Continue(r, q)
  BY DEF FindProgress
<1>3. q \in Request
  BY <1>1 DEF Request, Steps
<1>4. /\ q.exercise = p.exercise /\ q.lesson = p.lesson /\ q.wrote = p.wrote
      /\ q.columns = p.columns /\ q.count = p.count /\ q.gain = p.gain
      /\ q.xp = p.xp /\ q.at = "mark"
  BY <1>1 DEF Request
<1> HIDE DEF q
<1>5. Sound(q)
  BY <1>1, <1>4 DEF Sound, Located, Awarded, Unsolved, Counted, Paid, DoneBy, AfterMark
<1> QED
  BY <1>2, <1>3, <1>4, <1>5, Continued DEF HoldsStreak

LEMMA MarkProgressInv ==
  ASSUME IInv, NEW r \in Requests, MarkProgress(r)
  PROVE  IInv'
<1> DEFINE p == req[r]
           q == [p EXCEPT !.at = "count", !.fresh = @ \ {"progress"},
                          !.wrote = @ \cup {"progress"}]
<1>1. p \in Request /\ Sound(p) /\ p.at = "mark"
  BY DEF IInv, TypeOK, MarkProgress, At
<1>2. Continue(r, q)
  BY DEF MarkProgress
<1>3. q \in Request
  BY <1>1 DEF Request, Steps, Writes
<1>4. /\ q.exercise = p.exercise /\ q.lesson = p.lesson
      /\ q.wrote = p.wrote \cup {"progress"}
      /\ q.columns = p.columns /\ q.count = p.count /\ q.gain = p.gain
      /\ q.xp = p.xp /\ q.at = "count"
  BY <1>1 DEF Request
<1> HIDE DEF q
<1>5. Located(q) /\ Awarded(q) /\ Unsolved(q) /\ Paid(q)
  BY <1>1, <1>4 DEF Sound, Located, Awarded, Unsolved, Paid, AfterMark
<1>6. DoneBy(q) \in SUBSET Lessons /\ DoneBy(p) \subseteq DoneBy(q)
  BY <1>1, <1>3, <1>4, <1>5, DoneByLessons DEF IInv, DoneBy
<1>7. Counted(q)
  <2>1. Cardinality(DoneBy(p)) <= Cardinality(DoneBy(q))
    BY <1>6, DoneGrows
  <2>2. q.count <= Cardinality(DoneBy(q))
    <3>1. Cardinality(DoneBy(p)) \in Nat /\ Cardinality(DoneBy(q)) \in Nat
      BY <1>6, DoneCount
    <3> QED
      BY <1>1, <1>4, <2>1, <3>1, TotalType DEF Sound, Counted, Request
  <2> QED
    BY <1>1, <1>4, <1>6, <2>2 DEF Sound, Counted
<1>8. Sound(q)
  BY <1>5, <1>7 DEF Sound
<1> QED
  BY <1>2, <1>3, <1>4, <1>8, Continued DEF HoldsStreak

LEMMA CountLessonsInv ==
  ASSUME IInv, NEW r \in Requests, CountLessons(r)
  PROVE  IInv'
<1> DEFINE p == req[r]
<1>1. p \in Request /\ Sound(p) /\ p.at = "count"
  BY DEF IInv, TypeOK, CountLessons, At
<1>2. PICK columns \in Update(r, Completed(r)) :
        Continue(r, [p EXCEPT !.at = "enroll", !.count = Completed(r),
                              !.columns = columns])
  BY DEF CountLessons
<1> DEFINE q == [p EXCEPT !.at = "enroll", !.count = Completed(r),
                          !.columns = columns]
<1>3. Completed(r) = Cardinality(DoneBy(p)) /\ DoneBy(p) \in SUBSET Lessons
  BY <1>1, DoneByLessons DEF Completed, Done, DoneBy, IInv, Sound
<1>4. Completed(r) \in 0..Total /\ (Completed(r) = Total => DoneBy(p) = Lessons)
  BY <1>3, DoneCount
<1>5. columns \in SUBSET Columns /\ ("finished" \in columns => Completed(r) = Total)
  BY DEF Update, Columns
<1>6. q \in Request
  BY <1>1, <1>4, <1>5 DEF Request, Steps
<1>7. /\ q.exercise = p.exercise /\ q.lesson = p.lesson /\ q.wrote = p.wrote
      /\ q.columns = columns /\ q.count = Completed(r) /\ q.gain = p.gain
      /\ q.xp = p.xp /\ q.at = "enroll"
  BY <1>1 DEF Request
<1> HIDE DEF q
<1>8. Sound(q)
  <2>1. Located(q) /\ Awarded(q) /\ Unsolved(q) /\ Paid(q)
    BY <1>1, <1>7 DEF Sound, Located, Awarded, Unsolved, Paid, AfterMark
  <2>2. DoneBy(q) = DoneBy(p)
    BY <1>7 DEF DoneBy
  <2>3. q.count <= Cardinality(DoneBy(q))
    BY <1>3, <1>4, <1>7, <2>2, TotalType
  <2> QED
    BY <1>1, <1>4, <1>5, <1>7, <2>1, <2>2, <2>3 DEF Sound, Counted
<1> QED
  BY <1>2, <1>6, <1>7, <1>8, Continued DEF HoldsStreak, q

LEMMA WriteEnrollmentInv ==
  ASSUME IInv, NEW r \in Requests, WriteEnrollment(r)
  PROVE  IInv'
<1> DEFINE p == req[r]
           q == [p EXCEPT !.at = IF "finished" \in p.columns THEN "certify" ELSE "pay",
                          !.wrote = @ \cup p.columns]
<1>1. p \in Request /\ Sound(p) /\ p.at = "enroll"
  BY DEF IInv, TypeOK, WriteEnrollment, At
<1>2. Continue(r, q)
  BY DEF WriteEnrollment
<1>3. q \in Request
  BY <1>1 DEF Request, Steps, Writes
<1>4. /\ q.exercise = p.exercise /\ q.lesson = p.lesson
      /\ q.wrote = p.wrote \cup p.columns
      /\ q.columns = p.columns /\ q.count = p.count /\ q.gain = p.gain
      /\ q.xp = p.xp
      /\ q.at = IF "finished" \in p.columns THEN "certify" ELSE "pay"
  BY <1>1 DEF Request
<1> HIDE DEF q
<1>5. p.columns \subseteq {"percent", "finished"}
  BY <1>1 DEF Request, Columns
<1>6. Sound(q)
  <2>1. Located(q) /\ Awarded(q) /\ Unsolved(q) /\ Paid(q)
    BY <1>1, <1>4, <1>5 DEF Sound, Located, Awarded, Unsolved, Paid, AfterMark
  <2>2. Counted(q)
    BY <1>1, <1>4, <1>5 DEF Sound, Counted, DoneBy
  <2> QED
    BY <2>1, <2>2 DEF Sound
<1> QED
  BY <1>2, <1>3, <1>4, <1>5, <1>6, Continued DEF HoldsStreak

LEMMA IssueCertificateInv ==
  ASSUME IInv, NEW r \in Requests, IssueCertificate(r)
  PROVE  IInv'
<1> DEFINE p == req[r]
           q == [p EXCEPT !.at = "pay",
                          !.wrote = IF certified THEN @ ELSE @ \cup {"certificate"}]
<1>1. p \in Request /\ Sound(p) /\ p.at = "certify"
  BY DEF IInv, TypeOK, IssueCertificate, At
<1>2. Continue(r, q)
  BY DEF IssueCertificate
<1>3. q \in Request
  BY <1>1 DEF Request, Steps, Writes
<1>4. /\ q.exercise = p.exercise /\ q.lesson = p.lesson
      /\ q.wrote \in {p.wrote, p.wrote \cup {"certificate"}}
      /\ q.columns = p.columns /\ q.count = p.count /\ q.gain = p.gain
      /\ q.xp = p.xp /\ q.at = "pay"
  BY <1>1 DEF Request
<1> HIDE DEF q
<1>5. Sound(q)
  <2>1. Located(q) /\ Awarded(q) /\ Unsolved(q) /\ Paid(q)
    BY <1>1, <1>4 DEF Sound, Located, Awarded, Unsolved, Paid, AfterMark
  <2>2. Counted(q)
    BY <1>1, <1>4 DEF Sound, Counted, DoneBy
  <2> QED
    BY <2>1, <2>2 DEF Sound
<1> QED
  BY <1>2, <1>3, <1>4, <1>5, Continued DEF HoldsStreak

LEMMA CountDayInv ==
  ASSUME IInv, NEW r \in Requests, CountDay(r)
  PROVE  IInv'
<1> DEFINE p == req[r]
<1>1. p \in Request /\ Sound(p) /\ p.at = "day"
  BY DEF IInv, TypeOK, CountDay, At
<1>2. PICK q : /\ Continue(r, q)
               /\ q = IF streak.today
                      THEN [p EXCEPT !.at = "commit"]
                      ELSE [p EXCEPT !.at = "commit", !.wrote = @ \cup {"today"},
                                     !.xp = @ + XP_DAILY_STREAK_BONUS,
                                     !.gain = @ + XP_DAILY_STREAK_BONUS]
  BY DEF CountDay
<1>3. /\ p.wrote \cup {"today"} \in SUBSET Writes
      /\ p.xp + XP_DAILY_STREAK_BONUS \in Nat
      /\ p.gain + XP_DAILY_STREAK_BONUS \in Nat
  BY <1>1 DEF Request, Writes, XP_DAILY_STREAK_BONUS
<1>4. q \in Request
  <2>1. "commit" \in Steps
    BY DEF Steps
  <2>2. CASE streak.today
    BY <1>1, <1>2, <2>1, <2>2 DEF Request
  <2>3. CASE ~streak.today
    BY <1>1, <1>2, <1>3, <2>1, <2>3 DEF Request
  <2> QED
    BY <2>2, <2>3
<1>5. /\ q.exercise = p.exercise /\ q.lesson = p.lesson
      /\ q.wrote \in {p.wrote, p.wrote \cup {"today"}}
      /\ q.columns = p.columns /\ q.count = p.count /\ q.at = "commit"
  BY <1>1, <1>2 DEF Request
<1>6. \/ q.gain = p.gain /\ q.xp = p.xp
      \/ q.gain = p.gain + 5 /\ q.xp = p.xp + 5
  BY <1>1, <1>2 DEF Request, XP_DAILY_STREAK_BONUS
<1>7. Sound(q)
  <2>1. "progress" \in p.wrote /\ p.lesson \in Lessons
    BY <1>1 DEF Sound, Located, AfterMark
  <2>2. Located(q) /\ Awarded(q)
    BY <1>1, <1>5, <2>1 DEF Sound, Located, Awarded, AfterMark
  <2>3. Unsolved(q)
    BY <1>5, <2>1, CourseAssumption DEF Unsolved
  <2>4. Counted(q)
    BY <1>1, <1>5 DEF Sound, Counted, DoneBy
  <2>5. Paid(q)
    BY <1>1, <1>6 DEF Sound, Paid, Request, IInv, TypeOK
  <2> QED
    BY <2>2, <2>3, <2>4, <2>5 DEF Sound
<1> QED
  BY <1>2, <1>4, <1>5, <1>7, Continued DEF HoldsStreak

(* A request that fails gives everything up.                               *)
LEMMA RollbackInv ==
  ASSUME IInv, NEW r \in Requests, Collide(r) \/ Deadlock(r)
  PROVE  IInv'
<1>1. Continue(r, Idle)
  BY DEF Collide, Deadlock, Closed
<1>2. Idle \in Request /\ Sound(Idle) /\ "streak" \notin Idle.wrote
  BY IdleType, IdleSound DEF IInv, Idle
<1> QED
  BY <1>1, <1>2, Continued

(***************************************************************************)
(* The commit, the one step that changes rows                              *)
(***************************************************************************)
LEMMA CommitTypes ==
  ASSUME IInv, NEW r \in Requests, Commit(r)
  PROVE  /\ TypeOK'
         /\ req'[r] = Idle /\ \A s \in Requests \ {r} : req'[s] = req[s]
         /\ done' = DoneBy(req[r]) /\ done \subseteq done'
         /\ earned' = earned + req[r].gain
<1> DEFINE p == req[r]
<1>1. p \in Request /\ Sound(p) /\ p.at = "commit"
  BY DEF IInv, TypeOK, Commit, At
<1>2. req' = [req EXCEPT ![r] = Idle]
  BY DEF Commit, Closed
<1>3. req' \in [Requests -> Request]
  BY <1>2, IdleType DEF IInv, TypeOK
<1>4. passed' \subseteq Exercises
  BY <1>1 DEF Commit, Passed, IInv, TypeOK, Request
<1>5. done' = DoneBy(p) /\ done' \subseteq Lessons /\ done \subseteq done'
  BY <1>1, DoneByLessons DEF Commit, Done, DoneBy, Sound, IInv
<1>6. percent' \in 0..Total
  BY <1>1 DEF Commit, IInv, TypeOK, Request
<1>7. streak' \in [row : BOOLEAN, xp : Nat, today : BOOLEAN]
  <2>1. (streak.today \/ "today" \in p.wrote) \in BOOLEAN
    OBVIOUS
  <2>2. p.xp \in Nat
    BY <1>1 DEF Request
  <2>3. [row |-> TRUE, xp |-> p.xp, today |-> (streak.today \/ "today" \in p.wrote)]
          \in [row : BOOLEAN, xp : Nat, today : BOOLEAN]
    BY <2>1, <2>2
  <2> QED
    BY <2>3 DEF Commit, IInv, TypeOK
<1>8. earned' = earned + p.gain /\ earned' \in Nat
  BY <1>1 DEF Commit, IInv, TypeOK, Request
<1>9. finished' \in BOOLEAN /\ certified' \in BOOLEAN
  BY DEF Commit
<1>10. TypeOK'
  BY <1>3, <1>4, <1>5, <1>6, <1>7, <1>8, <1>9 DEF TypeOK, Commit, IInv
<1> QED
  BY <1>2, <1>5, <1>8, <1>10 DEF IInv, TypeOK

(* The others see more lessons done and more XP earned; what a submission  *)
(* of another request solves is new to none of them that has its award.    *)
LEMMA CommitOthers ==
  ASSUME IInv, NEW r \in Requests, Commit(r), NEW s \in Requests \ {r}
  PROVE  Sound(req[s])'
<1> DEFINE p == req[s]
<1>1. p \in Request /\ Sound(p) /\ req'[s] = p
  BY CommitTypes DEF IInv, TypeOK
<1>2. TypeOK' /\ done \subseteq done' /\ earned' = earned + req[r].gain
  BY CommitTypes
<1>3. req[r].gain \in Nat /\ earned \in Nat
  BY DEF IInv, TypeOK, Request
<1>4. Located(p)' /\ Awarded(p)'
  BY <1>1 DEF Sound, Located, Awarded
<1>5. Unsolved(p)'
  <2> SUFFICES ASSUME p.at = "commit", p.exercise # None, p.lesson = None
               PROVE  passed' = passed
    BY <1>1 DEF Unsolved, Sound, Siblings
  <2>1. HoldsStreak(s)
    BY <1>1 DEF Sound, Awarded, HoldsStreak
  <2>2. ~HoldsStreak(r)
    BY <2>1 DEF IInv, OneStreak
  <2>3. req[r].exercise = None
    BY <2>2 DEF IInv, Sound, Awarded, HoldsStreak, Commit, At
  <2> QED
    BY <2>3 DEF Commit, Passed
<1>6. Counted(p)'
  <2>1. DoneBy(p) \in SUBSET Lessons
    BY <1>1, DoneByLessons DEF IInv, Sound
  <2>2. DoneBy(p)' \in SUBSET Lessons
    BY <1>1, <1>2 DEF TypeOK, DoneBy, Sound, Located
  <2>3. DoneBy(p) \subseteq DoneBy(p)'
    BY <1>1, <1>2 DEF DoneBy
  <2>4. Cardinality(DoneBy(p)) <= Cardinality(DoneBy(p)')
    BY <2>2, <2>3, DoneGrows
  <2>5. Cardinality(DoneBy(p)) \in Nat /\ Cardinality(DoneBy(p)') \in Nat
    BY <2>1, <2>2, DoneCount, TotalType
  <2>6. p.count <= Cardinality(DoneBy(p)')
    BY <1>1, <2>4, <2>5, TotalType DEF Sound, Counted, Request
  <2> QED
    BY <1>1, <2>2, <2>3, <2>6 DEF Sound, Counted
<1>7. Paid(p)'
  BY <1>1, <1>2, <1>3 DEF Sound, Paid, Request
<1> QED
  BY <1>1, <1>4, <1>5, <1>6, <1>7
  DEF Sound, Located, Awarded, Unsolved, Counted, Paid, DoneBy, Siblings

LEMMA CommitSolved ==
  ASSUME IInv, NEW r \in Requests, Commit(r)
  PROVE  SolvedLessonsAreClosed'
<1> DEFINE p == req[r]
           e == p.exercise
<1>1. p \in Request /\ Sound(p) /\ p.at = "commit"
  BY DEF IInv, TypeOK, Commit, At
<1>2. passed' = passed \cup ({e} \ {None}) /\ done' = DoneBy(p) /\ done \subseteq done'
  BY CommitTypes DEF Commit, Passed
<1> SUFFICES ASSUME NEW x \in Exercises, Siblings(x) \subseteq passed'
             PROVE  LessonOf[x] \in done'
  BY DEF SolvedLessonsAreClosed, Siblings
<1>3. CASE Siblings(x) \subseteq passed
  BY <1>2, <1>3 DEF IInv, Promises, SolvedLessonsAreClosed
<1>4. CASE ~(Siblings(x) \subseteq passed)
  <2>1. e \in Siblings(x) /\ e # None /\ e \in Exercises
    BY <1>2, <1>4 DEF Siblings
  <2>2. Siblings(e) = Siblings(x) /\ LessonOf[e] = LessonOf[x]
    BY <2>1 DEF Siblings
  <2>3. Siblings(e) \subseteq passed \cup {e}
    BY <1>2, <2>2
  <2>4. p.lesson # None
    BY <1>1, <2>1, <2>3 DEF Sound, Unsolved
  <2>5. p.lesson = LessonOf[x] /\ "progress" \in p.wrote
    BY <1>1, <2>1, <2>2, <2>4 DEF Sound, Located
  <2> QED
    BY <1>2, <2>5 DEF DoneBy
<1> QED
  BY <1>3, <1>4

LEMMA CommitInv ==
  ASSUME IInv, NEW r \in Requests, Commit(r)
  PROVE  IInv'
<1> DEFINE p == req[r]
<1>1. p \in Request /\ Sound(p) /\ DoneBy(p) \in SUBSET Lessons
  BY DoneByLessons DEF IInv, TypeOK, Sound
<1>2. /\ TypeOK' /\ req'[r] = Idle /\ \A s \in Requests \ {r} : req'[s] = req[s]
      /\ done' = DoneBy(p) /\ done \subseteq done' /\ earned' = earned + p.gain
  BY CommitTypes
<1>3. \A s \in Requests : Sound(req[s])'
  <2>1. Sound(req[r])'
    <3>1. 0 <= Cardinality(done')
      BY <1>2, DoneCount, TotalType DEF TypeOK
    <3>2. 0 <= earned'
      BY <1>2 DEF TypeOK
    <3> QED
      BY <1>2, <3>1, <3>2
      DEF Sound, Located, Awarded, Unsolved, Counted, Paid, DoneBy, AfterMark, Idle
  <2> QED
    BY <2>1, CommitOthers
<1>4. OneStreak'
  BY <1>2 DEF IInv, OneStreak, HoldsStreak, Idle
<1>5. CertificateIsEarned'
  <2>1. "finished" \in p.wrote => done' = Lessons
    BY <1>1, <1>2 DEF Sound, Counted
  <2>2. finished => done' = Lessons
    BY <1>1, <1>2 DEF IInv, Promises, CertificateIsEarned
  <2>3. finished' <=> finished \/ "finished" \in p.wrote
    BY DEF Commit
  <2>4. certified' <=> certified \/ "certificate" \in p.wrote
    BY DEF Commit
  <2>5. certified' => finished'
    BY <1>1, <2>3, <2>4 DEF Sound, Counted, IInv, Promises, CertificateIsEarned
  <2> QED
    BY <2>1, <2>2, <2>3, <2>5 DEF CertificateIsEarned
<1>6. PercentNeverOverstates'
  <2>1. p.count <= Cardinality(done')
    BY <1>1, <1>2 DEF Sound, Counted
  <2>2. Cardinality(done) <= Cardinality(done')
    BY <1>1, <1>2, DoneGrows
  <2>3. Cardinality(done) \in Nat /\ Cardinality(done') \in Nat
    BY <1>1, <1>2, DoneCount, TotalType
  <2>4. percent <= Cardinality(done')
    BY <2>2, <2>3, TotalType DEF IInv, TypeOK, Promises, PercentNeverOverstates
  <2> QED
    BY <2>1, <2>4 DEF Commit, PercentNeverOverstates
<1>7. XpIsEarned'
  <2>1. p.xp <= earned' /\ streak.xp <= earned'
    BY <1>1, <1>2 DEF Sound, Paid, IInv, TypeOK, Request, Promises, XpIsEarned
  <2> QED
    BY <2>1 DEF Commit, XpIsEarned
<1> QED
  BY <1>2, <1>3, <1>4, <1>5, <1>6, <1>7, CommitSolved DEF IInv, Promises

(***************************************************************************)
(* The theorems                                                            *)
(***************************************************************************)
LEMMA NextInv == IInv /\ [Next]_vars => IInv'
<1> SUFFICES ASSUME IInv, [Next]_vars PROVE IInv'
  OBVIOUS
<1>1. CASE Next
  <2>1. PICK r \in Requests : Submit(r) \/ Complete(r) \/ Handle(r) \/ Deadlock(r)
    BY <1>1 DEF Next
  <2>2. CASE Submit(r) \/ Complete(r)
    BY <2>2, SubmitInv, CompleteInv
  <2>3. CASE Handle(r)
    BY <2>3, ReadStreakInv, AwardInv, CheckLessonInv, FindProgressInv, MarkProgressInv,
       CountLessonsInv, WriteEnrollmentInv, IssueCertificateInv, CountDayInv, CommitInv,
       RollbackInv DEF Handle
  <2>4. CASE Deadlock(r)
    BY <2>4, RollbackInv
  <2> QED
    BY <2>1, <2>2, <2>3, <2>4
<1>2. CASE UNCHANGED vars
  <2>1. TypeOK' /\ OneStreak' /\ Promises'
    BY <1>2 DEF vars, IInv, TypeOK, OneStreak, HoldsStreak, Promises, Siblings,
       SolvedLessonsAreClosed, CertificateIsEarned, PercentNeverOverstates, XpIsEarned
  <2>2. \A r \in Requests : Sound(req[r])'
    BY <1>2 DEF vars, IInv, Sound, Located, Awarded, Unsolved, Counted, Paid, DoneBy, Siblings
  <2> QED
    BY <2>1, <2>2 DEF IInv
<1> QED
  BY <1>1, <1>2

LEMMA Invariant == Spec => []IInv
BY InitInv, NextInv, PTL DEF Spec

(* Rows and requests keep the shapes of the models and handlers, for any   *)
(* course and any number of requests.                                      *)
THEOREM TypeCorrect == Spec => []TypeOK
BY Invariant, PTL DEF IInv

(* A lesson whose exercises are all solved is closed, however many         *)
(* submissions overlap: the streak row keeps one submission behind the     *)
(* other from its award to its commit (complete_lesson_if_exercises_passed)*)
THEOREM SolvedClose == Spec => []SolvedLessonsAreClosed
<1>1. IInv => SolvedLessonsAreClosed
  BY DEF IInv, Promises
<1> QED
  BY <1>1, Invariant, PTL

(* The completion date and the certificate stand only for a course with    *)
(* every lesson done (complete_lesson, issue_certificate).                 *)
THEOREM CertificateHolds == Spec => []CertificateIsEarned
<1>1. IInv => CertificateIsEarned
  BY DEF IInv, Promises
<1> QED
  BY <1>1, Invariant, PTL

(* The percent of the enrollment never runs ahead of the lessons done.     *)
THEOREM PercentHolds == Spec => []PercentNeverOverstates
<1>1. IInv => PercentNeverOverstates
  BY DEF IInv, Promises
<1> QED
  BY <1>1, Invariant, PTL

(* The XP total never exceeds what committed awards add up to (award_xp).  *)
THEOREM XpHolds == Spec => []XpIsEarned
<1>1. IInv => XpIsEarned
  BY DEF IInv, Promises
<1> QED
  BY <1>1, Invariant, PTL
(***************************************************************************)
(* Requests one after the other                                            *)
(*                                                                         *)
(* SerialIsExact speaks of moments without a request, so it is not         *)
(* inductive: as long as no two requests overlapped, the one in flight     *)
(* carries exactly what its commit will have to add up to.                 *)
(***************************************************************************)
Exact ==
  /\ percent = Cardinality(done)
  /\ finished <=> done = Lessons
  /\ certified <=> finished
  /\ streak.xp = earned

\* An XP total read or written is the committed one and the request's own gain.
ExactXp(q) ==
  /\ "streak" \in q.wrote \/ q.at \in {"grant", "credit"} => q.xp = streak.xp + q.gain
  /\ "streak" \notin q.wrote => q.gain = 0
  /\ q.at = "day" => "streak" \in q.wrote

\* q has counted the lessons and decided what to write of the enrollment.
Reckoned(q) ==
  \/ q.at \in {"enroll", "certify", "pay", "credit", "day"}
  \/ q.at = "commit" /\ q.lesson # None

\* Up to there it writes neither the enrollment nor a certificate, and no
\* progress before the row is marked.
Untouched(q) ==
  /\ q.at = "idle" => q = Idle
  /\ q.at = "enroll" \/ ~Reckoned(q) =>
       /\ q.wrote \cap Columns = {}
       /\ "certificate" \notin q.wrote
  /\ ~Reckoned(q) /\ q.at # "count" => "progress" \notin q.wrote
  /\ q.at \in {"mark", "count", "enroll"} => q.loaded = percent

\* From there on its columns are the exact ones, and a finish brings its
\* certificate.
ExactColumns(q) ==
  Reckoned(q) =>
    /\ q.count = Cardinality(DoneBy(q))
    /\ "percent" \in q.columns \/ q.count = percent
    /\ "finished" \in q.columns <=> DoneBy(q) = Lessons
    /\ q.at # "enroll" => q.wrote \cap Columns = q.columns
    /\ q.at \notin {"enroll", "certify"} /\ "finished" \in q.columns
         => certified \/ "certificate" \in q.wrote

Serial(q) == ExactXp(q) /\ Untouched(q) /\ ExactColumns(q)

SerialInv ==
  ~overlapped =>
    /\ \A r, s \in Requests : Busy(r) /\ Busy(s) => r = s
    /\ Exact
    /\ \A r \in Requests : Serial(req[r])
LEMMA SerialIdle == Serial(Idle)
BY DEF Serial, ExactXp, Untouched, ExactColumns, Reckoned, Idle, Columns

LEMMA SerialInit == Init => SerialInv
<1> SUFFICES ASSUME Init PROVE SerialInv
  OBVIOUS
<1>1. \A r \in Requests : req[r] = Idle
  BY DEF Init
<1>2. Cardinality(done) = 0 /\ done # Lessons
  BY FS_EmptySet, CourseAssumption DEF Init
<1>3. Exact
  BY <1>2 DEF Init, Exact
<1> QED
  BY <1>1, <1>3, SerialIdle DEF SerialInv, Busy, Idle

(* A step of the one request in flight that commits nothing.               *)
LEMMA SerialQuiet ==
  ASSUME IInv, SerialInv, NEW r \in Requests, NEW q \in Request,
         Continue(r, q), Busy(r),
         ~overlapped /\ Exact /\ Serial(req[r]) => Serial(q)
  PROVE  SerialInv'
<1> SUFFICES ASSUME ~overlapped' PROVE SerialInv'
  BY DEF SerialInv
<1>1. ~overlapped
  BY DEF Continue
<1>2. req'[r] = q /\ \A s \in Requests \ {r} : req'[s] = req[s]
  BY DEF IInv, TypeOK, Continue
<1>3. \A s \in Requests \ {r} : ~Busy(s)
  BY <1>1 DEF SerialInv
<1>4. Exact /\ \A s \in Requests : Serial(req[s])
  BY <1>1 DEF SerialInv
<1>5. Exact'
  BY <1>4 DEF Exact, Continue, rows
<1>6. \A s, u \in Requests : Busy(s)' /\ Busy(u)' => s = u
  BY <1>2, <1>3 DEF Busy
<1>7. ASSUME NEW s \in Requests PROVE Serial(req[s])'
  <2>1. PICK p \in Request : Serial(p) /\ req'[s] = p
    BY <1>1, <1>2, <1>4 DEF IInv, TypeOK
  <2> QED
    BY <2>1 DEF Serial, ExactXp, Untouched, ExactColumns, Reckoned, DoneBy, Continue, rows
<1> QED
  BY <1>5, <1>6, <1>7 DEF SerialInv

(* A request that comes while none is in flight.                           *)
LEMMA SerialArrive ==
  ASSUME IInv, SerialInv, NEW r \in Requests, NEW q \in Request,
         Arrive(r, q), Serial(q)
  PROVE  SerialInv'
<1> SUFFICES ASSUME ~overlapped' PROVE SerialInv'
  BY DEF SerialInv
<1>1. ~overlapped /\ \A s \in Requests : ~Busy(s)
  BY DEF Arrive, IInv, TypeOK
<1>2. req'[r] = q /\ \A s \in Requests \ {r} : req'[s] = req[s]
  BY DEF IInv, TypeOK, Arrive
<1>3. Exact /\ \A s \in Requests : Serial(req[s])
  BY <1>1 DEF SerialInv
<1>4. Exact'
  BY <1>3 DEF Exact, Arrive, rows
<1>5. \A s, u \in Requests : Busy(s)' /\ Busy(u)' => s = u
  BY <1>1, <1>2 DEF Busy
<1>6. ASSUME NEW s \in Requests PROVE Serial(req[s])'
  <2>1. PICK p \in Request : Serial(p) /\ req'[s] = p
    BY <1>2, <1>3 DEF IInv, TypeOK
  <2> QED
    BY <2>1 DEF Serial, ExactXp, Untouched, ExactColumns, Reckoned, DoneBy, Arrive, rows
<1> QED
  BY <1>4, <1>5, <1>6 DEF SerialInv

LEMMA SerialArrivals ==
  ASSUME IInv, SerialInv, NEW r \in Requests, Submit(r) \/ Complete(r)
  PROVE  SerialInv'
<1>1. CASE Submit(r)
  <2>1. PICK e \in Exercises : Arrive(r, Submitted(e))
    BY <1>1 DEF Submit
  <2>2. Submitted(e) \in Request
    BY IdleType DEF Submitted, Request, Idle, Steps
  <2>3. Serial(Submitted(e))
    BY DEF Serial, ExactXp, Untouched, ExactColumns, Reckoned, Submitted, Idle, Columns
  <2> QED
    BY <2>1, <2>2, <2>3, SerialArrive
<1>2. CASE Complete(r)
  <2>1. PICK l \in Lessons : Arrive(r, [Idle EXCEPT !.at = "find", !.lesson = l])
    BY <1>2 DEF Complete
  <2> DEFINE q == [Idle EXCEPT !.at = "find", !.lesson = l]
  <2>2. q \in Request
    BY IdleType DEF Request, Idle, Steps
  <2>3. Serial(q)
    BY DEF Serial, ExactXp, Untouched, ExactColumns, Reckoned, Idle, Columns
  <2> QED
    BY <2>1, <2>2, <2>3, SerialArrive
<1> QED
  BY <1>1, <1>2

LEMMA SerialReadStreak ==
  ASSUME IInv, SerialInv, NEW r \in Requests, ReadStreak(r)
  PROVE  SerialInv'
<1> DEFINE p == req[r]
           q == [p EXCEPT
             !.at = IF At(r, "award") THEN "grant" ELSE "credit",
             !.xp = SeenXp(r),
             !.fresh = IF streak.row \/ HoldsStreak(r) THEN @ ELSE @ \cup {"streak"}]
<1>1. Continue(r, q) /\ p.at \in {"award", "pay"} /\ Busy(r)
  BY DEF ReadStreak, Busy
<1>2. p \in Request /\ streak.xp \in Nat /\ SeenXp(r) \in Nat
  BY DEF IInv, TypeOK, SeenXp, Request
<1>3. q \in Request
  BY <1>2 DEF Request, Steps
<1>4. /\ q.lesson = p.lesson /\ q.wrote = p.wrote /\ q.gain = p.gain
      /\ q.columns = p.columns /\ q.count = p.count /\ q.loaded = p.loaded
      /\ q.xp = SeenXp(r)
      /\ p.at = "award" => q.at = "grant"
      /\ p.at = "pay" => q.at = "credit"
  BY <1>1, <1>2 DEF Request, At
<1> HIDE DEF q
<1>5. ASSUME ~overlapped, Exact, Serial(p) PROVE Serial(q)
  <2>1. q.xp = streak.xp + q.gain
    BY <1>2, <1>4, <1>5 DEF SeenXp, Serial, ExactXp
  <2>2. ExactXp(q)
    BY <1>1, <1>4, <1>5, <2>1 DEF Serial, ExactXp
  <2>3. Untouched(q)
    BY <1>1, <1>4, <1>5 DEF Serial, Untouched, Reckoned
  <2>4. ExactColumns(q)
    BY <1>1, <1>4, <1>5 DEF Serial, ExactColumns, Reckoned, DoneBy
  <2> QED
    BY <2>2, <2>3, <2>4 DEF Serial
<1> QED
  BY <1>1, <1>3, <1>5, SerialQuiet

LEMMA SerialGranted ==
  ASSUME IInv, SerialInv, NEW r \in Requests, NEW amount \in Nat, NEW next \in Steps,
         Continue(r, Granted(r, amount, next)),
         \/ req[r].at = "grant" /\ next = "check"
         \/ req[r].at = "credit" /\ next \in {"day", "commit"}
  PROVE  SerialInv'
<1> DEFINE p == req[r]
           q == Granted(r, amount, next)
<1>1. p \in Request /\ Sound(p) /\ Busy(r) /\ streak.xp \in Nat
  BY DEF IInv, TypeOK, Busy
<1>2. q \in Request
  <2>1. /\ p.wrote \cup {"streak"} \in SUBSET Writes
        /\ p.fresh \ {"streak"} \in SUBSET {"streak", "progress"}
        /\ p.xp + amount \in Nat /\ p.gain + amount \in Nat
    BY <1>1 DEF Request, Writes
  <2> QED
    BY <1>1, <2>1 DEF Request, Granted
<1>3. /\ q.lesson = p.lesson /\ q.wrote = p.wrote \cup {"streak"}
      /\ q.columns = p.columns /\ q.count = p.count /\ q.loaded = p.loaded
      /\ q.gain = p.gain + amount /\ q.xp = p.xp + amount
      /\ q.at = next
  BY <1>1 DEF Request, Granted
<1> HIDE DEF q
<1>4. p.at = "credit" => p.lesson \in Lessons /\ p.lesson # None
  BY <1>1, CourseAssumption DEF Sound, Located, AfterMark
<1>5. ASSUME ~overlapped, Exact, Serial(p) PROVE Serial(q)
  <2>1. p.xp = streak.xp + p.gain /\ p.xp \in Nat /\ p.gain \in Nat
    BY <1>1, <1>5 DEF Serial, ExactXp, Request
  <2>2. ExactXp(q)
    BY <1>1, <1>3, <2>1 DEF ExactXp
  <2>3. Untouched(q)
    BY <1>3, <1>4, <1>5 DEF Serial, Untouched, Reckoned, Columns
  <2>4. ExactColumns(q)
    BY <1>3, <1>4, <1>5 DEF Serial, ExactColumns, Reckoned, DoneBy, Columns
  <2> QED
    BY <2>2, <2>3, <2>4 DEF Serial
<1> QED
  BY <1>1, <1>2, <1>5, SerialQuiet DEF q

LEMMA SerialAward ==
  ASSUME IInv, SerialInv, NEW r \in Requests, GrantExercise(r) \/ CreditLesson(r)
  PROVE  SerialInv'
<1>1. XP_EXERCISE \in Nat /\ XP_LESSON_COMPLETE \in Nat
  BY DEF XP_EXERCISE, XP_LESSON_COMPLETE
<1>2. CASE GrantExercise(r)
  <2>1. Continue(r, Granted(r, XP_EXERCISE, "check")) /\ req[r].at = "grant"
    BY <1>2 DEF GrantExercise, At
  <2>2. "check" \in Steps
    BY DEF Steps
  <2> QED
    BY <1>1, <2>1, <2>2, SerialGranted
<1>3. CASE CreditLesson(r)
  <2> DEFINE next == IF req[r].exercise = None THEN "day" ELSE "commit"
  <2>1. Continue(r, Granted(r, XP_LESSON_COMPLETE, next)) /\ req[r].at = "credit"
    BY <1>3 DEF CreditLesson, At
  <2>2. next \in Steps /\ next \in {"day", "commit"}
    BY DEF Steps
  <2> HIDE DEF next
  <2> QED
    BY <1>1, <2>1, <2>2, SerialGranted
<1> QED
  BY <1>2, <1>3
LEMMA SerialCheckLesson ==
  ASSUME IInv, SerialInv, NEW r \in Requests, CheckLesson(r)
  PROVE  SerialInv'
<1> DEFINE p == req[r]
<1>1. p \in Request /\ Sound(p) /\ p.at = "check" /\ Busy(r)
  BY DEF IInv, TypeOK, CheckLesson, At, Busy
<1>2. LessonOf[p.exercise] \in Lessons /\ p.lesson = None
  BY <1>1, CourseAssumption DEF Sound, Located
<1>3. PICK q : /\ Continue(r, q)
               /\ q \in {[p EXCEPT !.at = "find", !.lesson = LessonOf[p.exercise]],
                         [p EXCEPT !.at = "commit"]}
  BY DEF CheckLesson
<1>4. q \in Request
  <2>1. [p EXCEPT !.at = "find", !.lesson = LessonOf[p.exercise]] \in Request
    BY <1>1, <1>2 DEF Request, Steps
  <2>2. [p EXCEPT !.at = "commit"] \in Request
    BY <1>1 DEF Request, Steps
  <2> QED
    BY <1>3, <2>1, <2>2
<1>5. /\ q.wrote = p.wrote /\ q.gain = p.gain /\ q.xp = p.xp
      /\ q.columns = p.columns /\ q.count = p.count
      /\ q.at = "find" \/ (q.at = "commit" /\ q.lesson = None)
  BY <1>1, <1>2, <1>3 DEF Request
<1>6. ASSUME Serial(p) PROVE Serial(q)
  BY <1>1, <1>5, <1>6 DEF Serial, ExactXp, Untouched, ExactColumns, Reckoned
<1> QED
  BY <1>1, <1>3, <1>4, <1>6, SerialQuiet

LEMMA SerialFindProgress ==
  ASSUME IInv, SerialInv, NEW r \in Requests, FindProgress(r)
  PROVE  SerialInv'
<1> DEFINE p == req[r]
           q == [p EXCEPT !.at = "mark", !.loaded = percent,
                          !.fresh = IF p.lesson \in done THEN @ ELSE @ \cup {"progress"}]
<1>1. p \in Request /\ p.at = "find" /\ Busy(r) /\ percent \in 0..Total
  BY DEF IInv, TypeOK, FindProgress, At, Busy
<1>2. Continue(r, q)
  BY DEF FindProgress
<1>3. q \in Request
  BY <1>1 DEF Request, Steps
<1>4. /\ q.wrote = p.wrote /\ q.gain = p.gain /\ q.xp = p.xp
      /\ q.at = "mark" /\ q.loaded = percent
  BY <1>1 DEF Request
<1> HIDE DEF q
<1>5. ASSUME Serial(p) PROVE Serial(q)
  BY <1>1, <1>4, <1>5 DEF Serial, ExactXp, Untouched, ExactColumns, Reckoned
<1> QED
  BY <1>1, <1>2, <1>3, <1>5, SerialQuiet

LEMMA SerialMarkProgress ==
  ASSUME IInv, SerialInv, NEW r \in Requests, MarkProgress(r)
  PROVE  SerialInv'
<1> DEFINE p == req[r]
           q == [p EXCEPT !.at = "count", !.fresh = @ \ {"progress"},
                          !.wrote = @ \cup {"progress"}]
<1>1. p \in Request /\ p.at = "mark" /\ Busy(r)
  BY DEF IInv, TypeOK, MarkProgress, At, Busy
<1>2. Continue(r, q)
  BY DEF MarkProgress
<1>3. q \in Request
  BY <1>1 DEF Request, Steps, Writes
<1>4. /\ q.wrote = p.wrote \cup {"progress"} /\ q.gain = p.gain /\ q.xp = p.xp
      /\ q.at = "count" /\ q.loaded = p.loaded
  BY <1>1 DEF Request
<1> HIDE DEF q
<1>5. ASSUME Serial(p) PROVE Serial(q)
  BY <1>1, <1>4, <1>5 DEF Serial, ExactXp, Untouched, ExactColumns, Reckoned, Columns
<1> QED
  BY <1>1, <1>2, <1>3, <1>5, SerialQuiet

(* The count is taken on the committed rows and the own one, and compared  *)
(* with the percent that is still the committed one.                       *)
LEMMA SerialCountLessons ==
  ASSUME IInv, SerialInv, NEW r \in Requests, CountLessons(r)
  PROVE  SerialInv'
<1> DEFINE p == req[r]
<1>1. p \in Request /\ Sound(p) /\ p.at = "count" /\ Busy(r)
  BY DEF IInv, TypeOK, CountLessons, At, Busy
<1>2. PICK columns \in Update(r, Completed(r)) :
        Continue(r, [p EXCEPT !.at = "enroll", !.count = Completed(r), !.columns = columns])
  BY DEF CountLessons
<1> DEFINE q == [p EXCEPT !.at = "enroll", !.count = Completed(r), !.columns = columns]
<1>3. Completed(r) = Cardinality(DoneBy(p)) /\ DoneBy(p) \in SUBSET Lessons
  BY <1>1, DoneByLessons DEF Completed, Done, DoneBy, IInv, Sound
<1>4. Completed(r) \in 0..Total /\ (Completed(r) = Total <=> DoneBy(p) = Lessons)
  BY <1>3, DoneCount DEF Total
<1>5. /\ columns \in SUBSET Columns
      /\ "finished" \in columns <=> Completed(r) = Total
      /\ "percent" \in columns \/ p.loaded = Completed(r)
  BY DEF Update, Columns
<1>6. q \in Request
  BY <1>1, <1>4, <1>5 DEF Request, Steps
<1>7. /\ q.lesson = p.lesson /\ q.wrote = p.wrote /\ q.columns = columns
      /\ q.count = Completed(r) /\ q.gain = p.gain /\ q.xp = p.xp
      /\ q.at = "enroll" /\ q.loaded = p.loaded
  BY <1>1 DEF Request
<1> HIDE DEF q
<1>8. ASSUME Serial(p) PROVE Serial(q)
  <2>1. DoneBy(q) = DoneBy(p)
    BY <1>7 DEF DoneBy
  <2>2. p.loaded = percent
    BY <1>1, <1>8 DEF Serial, Untouched
  <2>3. ExactColumns(q)
    BY <1>3, <1>4, <1>5, <1>7, <2>1, <2>2 DEF ExactColumns, Reckoned
  <2>4. ExactXp(q) /\ Untouched(q)
    BY <1>1, <1>7, <1>8 DEF Serial, ExactXp, Untouched, Reckoned
  <2> QED
    BY <2>3, <2>4 DEF Serial
<1> QED
  BY <1>1, <1>2, <1>6, <1>8, SerialQuiet DEF q

LEMMA SerialWriteEnrollment ==
  ASSUME IInv, SerialInv, NEW r \in Requests, WriteEnrollment(r)
  PROVE  SerialInv'
<1> DEFINE p == req[r]
           q == [p EXCEPT !.at = IF "finished" \in p.columns THEN "certify" ELSE "pay",
                          !.wrote = @ \cup p.columns]
<1>1. p \in Request /\ p.at = "enroll" /\ Busy(r)
  BY DEF IInv, TypeOK, WriteEnrollment, At, Busy
<1>2. Continue(r, q)
  BY DEF WriteEnrollment
<1>3. q \in Request
  BY <1>1 DEF Request, Steps, Writes
<1>4. /\ q.lesson = p.lesson /\ q.wrote = p.wrote \cup p.columns
      /\ q.columns = p.columns /\ q.count = p.count /\ q.gain = p.gain
      /\ q.xp = p.xp
      /\ q.at = IF "finished" \in p.columns THEN "certify" ELSE "pay"
  BY <1>1 DEF Request
<1> HIDE DEF q
<1>5. p.columns \subseteq Columns
  BY <1>1 DEF Request
<1>6. ASSUME Serial(p) PROVE Serial(q)
  <2>1. ExactXp(q) /\ Untouched(q)
    BY <1>1, <1>4, <1>5, <1>6 DEF Serial, ExactXp, Untouched, Reckoned, Columns
  <2>2. p.wrote \cap Columns = {}
    BY <1>1, <1>6 DEF Serial, Untouched
  <2>3. q.wrote \cap Columns = q.columns
    BY <1>4, <1>5, <2>2
  <2>4. DoneBy(q) = DoneBy(p)
    BY <1>4, <1>5 DEF DoneBy, Columns
  <2>5. Reckoned(p)
    BY <1>1 DEF Reckoned
  <2>6. ExactColumns(q)
    BY <1>4, <1>6, <2>3, <2>4, <2>5 DEF Serial, ExactColumns
  <2> QED
    BY <2>1, <2>6 DEF Serial
<1> QED
  BY <1>1, <1>2, <1>3, <1>6, SerialQuiet

LEMMA SerialIssueCertificate ==
  ASSUME IInv, SerialInv, NEW r \in Requests, IssueCertificate(r)
  PROVE  SerialInv'
<1> DEFINE p == req[r]
           q == [p EXCEPT !.at = "pay",
                          !.wrote = IF certified THEN @ ELSE @ \cup {"certificate"}]
<1>1. p \in Request /\ p.at = "certify" /\ Busy(r)
  BY DEF IInv, TypeOK, IssueCertificate, At, Busy
<1>2. Continue(r, q)
  BY DEF IssueCertificate
<1>3. q \in Request
  BY <1>1 DEF Request, Steps, Writes
<1>4. /\ q.lesson = p.lesson
      /\ q.wrote = IF certified THEN p.wrote ELSE p.wrote \cup {"certificate"}
      /\ q.columns = p.columns /\ q.count = p.count /\ q.gain = p.gain
      /\ q.xp = p.xp /\ q.at = "pay"
  BY <1>1 DEF Request
<1> HIDE DEF q
<1>5. ASSUME Serial(p) PROVE Serial(q)
  BY <1>1, <1>4, <1>5
  DEF Serial, ExactXp, Untouched, ExactColumns, Reckoned, DoneBy, Columns
<1> QED
  BY <1>1, <1>2, <1>3, <1>5, SerialQuiet

LEMMA SerialCountDay ==
  ASSUME IInv, SerialInv, NEW r \in Requests, CountDay(r)
  PROVE  SerialInv'
<1> DEFINE p == req[r]
<1>1. /\ p \in Request /\ Sound(p) /\ p.at = "day" /\ Busy(r)
      /\ streak.xp \in Nat
  BY DEF IInv, TypeOK, CountDay, At, Busy
<1>2. PICK q : /\ Continue(r, q)
               /\ q = IF streak.today
                      THEN [p EXCEPT !.at = "commit"]
                      ELSE [p EXCEPT !.at = "commit", !.wrote = @ \cup {"today"},
                                     !.xp = @ + XP_DAILY_STREAK_BONUS,
                                     !.gain = @ + XP_DAILY_STREAK_BONUS]
  BY DEF CountDay
<1>3. /\ p.wrote \cup {"today"} \in SUBSET Writes
      /\ p.xp \in Nat /\ p.gain \in Nat
      /\ p.xp + XP_DAILY_STREAK_BONUS \in Nat
      /\ p.gain + XP_DAILY_STREAK_BONUS \in Nat
  BY <1>1 DEF Request, Writes, XP_DAILY_STREAK_BONUS
<1>4. q \in Request
  <2>1. "commit" \in Steps
    BY DEF Steps
  <2>2. CASE streak.today
    BY <1>1, <1>2, <2>1, <2>2 DEF Request
  <2>3. CASE ~streak.today
    BY <1>1, <1>2, <1>3, <2>1, <2>3 DEF Request
  <2> QED
    BY <2>2, <2>3
<1>5. /\ q.lesson = p.lesson /\ q.wrote \in {p.wrote, p.wrote \cup {"today"}}
      /\ q.columns = p.columns /\ q.count = p.count /\ q.at = "commit"
  BY <1>1, <1>2 DEF Request
<1>6. \/ q.gain = p.gain /\ q.xp = p.xp
      \/ q.gain = p.gain + 5 /\ q.xp = p.xp + 5
  BY <1>1, <1>2 DEF Request, XP_DAILY_STREAK_BONUS
<1>7. p.lesson \in Lessons /\ p.lesson # None
  BY <1>1, CourseAssumption DEF Sound, Located, AfterMark
<1>8. ASSUME Serial(p) PROVE Serial(q)
  <2>1. "streak" \in p.wrote /\ p.xp = streak.xp + p.gain
    BY <1>1, <1>8 DEF Serial, ExactXp
  <2>2. ExactXp(q)
    BY <1>1, <1>3, <1>5, <1>6, <2>1 DEF ExactXp
  <2>3. Untouched(q)
    BY <1>5, <1>7 DEF Untouched, Reckoned
  <2>4. ExactColumns(q)
    BY <1>1, <1>5, <1>8 DEF Serial, ExactColumns, Reckoned, DoneBy, Columns
  <2> QED
    BY <2>2, <2>3, <2>4 DEF Serial
<1> QED
  BY <1>1, <1>2, <1>4, <1>8, SerialQuiet

(* A request that fails leaves the rows as they were.                      *)
LEMMA SerialRollback ==
  ASSUME IInv, SerialInv, NEW r \in Requests, Collide(r) \/ Deadlock(r)
  PROVE  SerialInv'
<1>1. Continue(r, Idle)
  BY DEF Collide, Deadlock, Closed
<1>2. Busy(r)
  <2>1. CASE Collide(r)
    BY <2>1 DEF Collide, Busy, At
  <2>2. CASE Deadlock(r)
    <3>1. WaitsFor(r) # {}
      BY <2>2 DEF Deadlock, Deadlocked
    <3> QED
      BY <3>1 DEF WaitsFor, Busy, At
  <2> QED
    BY <2>1, <2>2
<1> QED
  BY <1>1, <1>2, IdleType, SerialIdle, SerialQuiet

LEMMA SerialCommit ==
  ASSUME IInv, SerialInv, NEW r \in Requests, Commit(r)
  PROVE  SerialInv'
<1> SUFFICES ASSUME ~overlapped' PROVE SerialInv'
  BY DEF SerialInv
<1> DEFINE p == req[r]
<1>1. p \in Request /\ Sound(p) /\ p.at = "commit" /\ Busy(r) /\ ~overlapped
  BY DEF IInv, TypeOK, Commit, At, Busy
<1>2. Exact /\ Serial(p) /\ \A s \in Requests \ {r} : ~Busy(s) /\ Serial(req[s])
  BY <1>1 DEF SerialInv
<1>3. /\ TypeOK' /\ req'[r] = Idle /\ \A s \in Requests \ {r} : req'[s] = req[s]
      /\ done' = DoneBy(p) /\ earned' = earned + p.gain
  BY CommitTypes
<1>4. \A s \in Requests : req'[s] = Idle
  BY <1>2, <1>3 DEF Serial, Untouched, Busy
<1>5. percent' = Cardinality(done')
  <2>1. CASE Reckoned(p)
    BY <1>1, <1>2, <1>3, <2>1 DEF Serial, ExactColumns, Commit, Columns
  <2>2. CASE ~Reckoned(p)
    <3>1. "percent" \notin p.wrote /\ "progress" \notin p.wrote
      BY <1>1, <1>2, <2>2 DEF Serial, Untouched, Columns
    <3> QED
      BY <1>2, <1>3, <3>1 DEF Exact, Commit, DoneBy
  <2> QED
    BY <2>1, <2>2
<1>6. finished' <=> done' = Lessons
  <2>1. finished' <=> finished \/ "finished" \in p.wrote
    BY DEF Commit
  <2>2. finished => DoneBy(p) = Lessons
    BY <1>1, <1>2, DoneByLessons DEF Exact, IInv, Sound
  <2>3. CASE Reckoned(p)
    <3>1. "finished" \in p.wrote <=> DoneBy(p) = Lessons
      BY <1>1, <1>2, <2>3 DEF Serial, ExactColumns, Columns
    <3> QED
      BY <1>3, <2>1, <2>2, <3>1
  <2>4. CASE ~Reckoned(p)
    <3>1. "finished" \notin p.wrote /\ "progress" \notin p.wrote
      BY <1>1, <1>2, <2>4 DEF Serial, Untouched, Columns
    <3> QED
      BY <1>2, <1>3, <2>1, <3>1 DEF Exact, DoneBy
  <2> QED
    BY <2>3, <2>4
<1>7. certified' <=> finished'
  <2>1. "certificate" \in p.wrote => "finished" \in p.wrote
    BY <1>1 DEF Sound, Counted
  <2>2. "finished" \in p.wrote => certified \/ "certificate" \in p.wrote
    BY <1>1, <1>2 DEF Serial, Untouched, ExactColumns, Reckoned, Columns
  <2> QED
    BY <1>2, <2>1, <2>2 DEF Exact, Commit
<1>8. streak'.xp = earned'
  <2>1. earned \in Nat /\ p.gain \in Nat /\ streak.xp = earned
    BY <1>1, <1>2 DEF IInv, TypeOK, Request, Exact
  <2>2. CASE "streak" \in p.wrote
    BY <1>2, <1>3, <2>1, <2>2 DEF Serial, ExactXp, Commit, HoldsStreak
  <2>3. CASE "streak" \notin p.wrote
    BY <1>2, <1>3, <2>1, <2>3 DEF Serial, ExactXp, Commit, HoldsStreak
  <2> QED
    BY <2>2, <2>3
<1>9. Exact'
  BY <1>5, <1>6, <1>7, <1>8 DEF Exact
<1>10. \A s \in Requests : Serial(req[s])'
  BY <1>4 DEF Serial, ExactXp, Untouched, ExactColumns, Reckoned, Idle, Columns
<1>11. \A s \in Requests : ~Busy(s)'
  BY <1>4 DEF Busy, Idle
<1> QED
  BY <1>9, <1>10, <1>11 DEF SerialInv

LEMMA SerialNext == IInv /\ SerialInv /\ [Next]_vars => SerialInv'
<1> SUFFICES ASSUME IInv, SerialInv, [Next]_vars PROVE SerialInv'
  OBVIOUS
<1>1. CASE Next
  <2>1. PICK r \in Requests : Submit(r) \/ Complete(r) \/ Handle(r) \/ Deadlock(r)
    BY <1>1 DEF Next
  <2>2. CASE Submit(r) \/ Complete(r)
    BY <2>2, SerialArrivals
  <2>3. CASE Handle(r)
    BY <2>3, SerialReadStreak, SerialAward, SerialCheckLesson, SerialFindProgress,
       SerialMarkProgress, SerialCountLessons, SerialWriteEnrollment,
       SerialIssueCertificate, SerialCountDay, SerialCommit, SerialRollback DEF Handle
  <2>4. CASE Deadlock(r)
    BY <2>4, SerialRollback
  <2> QED
    BY <2>1, <2>2, <2>3, <2>4
<1>2. CASE UNCHANGED vars
  BY <1>2 DEF vars, SerialInv, Exact, Busy, Serial, ExactXp, Untouched, ExactColumns,
     Reckoned, DoneBy
<1> QED
  BY <1>1, <1>2

(* A pupil whose requests never overlapped has exactly what was earned:    *)
(* the percent counts the lessons done, the last lesson brings the date    *)
(* and the certificate, and no XP is lost (complete_lesson, award_xp).     *)
THEOREM SerialHolds == Spec => []SerialIsExact
<1>1. SerialInv => SerialIsExact
  BY DEF SerialInv, SerialIsExact, Exact
<1>2. Spec => []SerialInv
  BY SerialInit, SerialNext, Invariant, PTL DEF Spec
<1> QED
  BY <1>1, <1>2, PTL
=============================================================================
