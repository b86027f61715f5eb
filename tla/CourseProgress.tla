--------------------------- MODULE CourseProgress ---------------------------
(***************************************************************************)
(* What a pupil's solved exercises and finished lessons add up to: passing *)
(* submissions, lesson_progress, the percent and completion date of the    *)
(* enrollment, the certificate and the experience points (XP) of the       *)
(* streak row.  backend/app/exercises (submit and its completion hook),    *)
(* backend/app/progress (complete_lesson and its endpoint), certificates   *)
(* and gamification write them, each request in one transaction that       *)
(* commits when its handler returns (db/session.py).                       *)
(*                                                                         *)
(* Every row belongs to one pupil, so the module follows one pupil of one  *)
(* course whose lessons and exercises stay what they are.  Requests of the *)
(* pupil (tabs, double clicks, retries) overlap statement by statement:    *)
(* under READ COMMITTED a statement sees what is committed and the         *)
(* transaction's own writes, a write waits for the row or the unique key   *)
(* another transaction holds, and keeps it until the end.  A statement     *)
(* that fails while flushing leaves a session that raises at every later   *)
(* use: whatever the handler swallows, the transaction is rolled back.     *)
(***************************************************************************)
EXTENDS Naturals, FiniteSets

CONSTANTS
  Requests,   \* slots for requests of the pupil in flight
  Lessons,    \* the lessons of the course
  Exercises,  \* the exercises of its lessons
  LessonOf,   \* the lesson an exercise stands in
  None,       \* no exercise, no lesson
  MaxCalls    \* bound: requests the pupil sends

ASSUME CourseAssumption ==
  /\ IsFiniteSet(Lessons) /\ Lessons # {}
  /\ LessonOf \in [Exercises -> Lessons]
  /\ None \notin Lessons \cup Exercises
  /\ MaxCalls \in Nat

VARIABLES
  passed,     \* exercises with a committed passing submission
  done,       \* lessons with a committed lesson_progress row
  percent,    \* Enrollment.progress_percent, as the lessons it stands for
  finished,   \* Enrollment.completed_at is set
  certified,  \* the certificate is issued
  streak,     \* the user_streaks row: does it exist, total_xp, today counted
  req,        \* the requests in flight, with what they wrote and not committed
  earned,     \* history: the XP of every committed award
  overlapped, \* history: two requests were once in flight together
  calls       \* requests sent so far

vars == <<passed, done, percent, finished, certified, streak, req, earned, overlapped, calls>>
rows == <<passed, done, percent, finished, certified, streak, earned>>

XP_EXERCISE == 25           \* most exercises; 15 and 50 behave alike
XP_LESSON_COMPLETE == 10
XP_DAILY_STREAK_BONUS == 5

Total == Cardinality(Lessons)

Steps == {"idle", "award", "grant", "check", "find", "mark", "count",
          "enroll", "certify", "pay", "credit", "day", "commit"}
Columns == {"percent", "finished"}                     \* of the enrollment
Writes == Columns \cup {"streak", "today", "progress", "certificate"}

Request ==
  [at : Steps,
   exercise : Exercises \cup {None},   \* None: the lesson's own button
   lesson : Lessons \cup {None},       \* None: the hook has closed no lesson
   fresh : SUBSET {"streak", "progress"}, \* rows found absent, to be inserted
   columns : SUBSET Columns,           \* what the UPDATE of the enrollment sets
   wrote : SUBSET Writes,              \* flushed, not committed
   loaded : 0..Total,                  \* the percent the enrollment was loaded with
   count : 0..Total,                   \* lessons counted
   xp : Nat,                           \* total_xp read, then written
   gain : Nat]                         \* XP awarded by this request

Idle ==
  [at |-> "idle", exercise |-> None, lesson |-> None, fresh |-> {}, columns |-> {},
   wrote |-> {}, loaded |-> 0, count |-> 0, xp |-> 0, gain |-> 0]

Busy(r) == req[r].at # "idle"
At(r, step) == req[r].at = step

\* What the transaction of r sees: the committed rows and its own.
Passed(r) == passed \cup ({req[r].exercise} \ {None})
Done(r) == IF "progress" \in req[r].wrote THEN done \cup {req[r].lesson} ELSE done
\* mutant: the total taken from a cache that requests write before they commit
SeenXp_Uncommitted(r) ==
  IF \E s \in Requests : "streak" \in req[s].wrote
  THEN req[CHOOSE s \in Requests : "streak" \in req[s].wrote].xp
  ELSE streak.xp
SeenXp(r) == IF "streak" \in req[r].wrote THEN req[r].xp ELSE streak.xp

Siblings(e) == {x \in Exercises : LessonOf[x] = LessonOf[e]}

(***************************************************************************)
(* Rows and keys that r holds until its transaction ends, and the requests *)
(* r waits for before its next write.                                      *)
(***************************************************************************)
HoldsStreak(r) == "streak" \in req[r].wrote
HoldsEnrollment(r) == req[r].wrote \cap Columns # {}
HoldsProgress(r, l) == "progress" \in req[r].wrote /\ req[r].lesson = l

WaitsFor(r) ==
  {s \in Requests \ {r} :
     \/ req[r].at \in {"grant", "credit"} /\ HoldsStreak(s)
     \/ At(r, "mark") /\ HoldsProgress(s, req[r].lesson)
     \/ At(r, "enroll") /\ req[r].columns # {} /\ HoldsEnrollment(s)}

Blocked(r) == WaitsFor(r) # {}

\* Requests each of which waits for another of them.
Deadlocked(r) ==
  \E S \in SUBSET Requests : r \in S /\ \A s \in S : WaitsFor(s) \cap S # {}

Init ==
  /\ passed = {} /\ done = {} /\ percent = 0
  /\ finished = FALSE /\ certified = FALSE
  /\ streak \in {[row |-> FALSE, xp |-> 0, today |-> FALSE],
                 [row |-> TRUE, xp |-> 0, today |-> FALSE]}
  /\ req = [r \in Requests |-> Idle]
  /\ earned = 0 /\ overlapped = FALSE /\ calls = 0

Arrive(r, record) ==
  /\ ~Busy(r)
  /\ calls < MaxCalls
  /\ calls' = calls + 1
  /\ overlapped' = (overlapped \/ \E s \in Requests : Busy(s))
  /\ req' = [req EXCEPT ![r] = record]
  /\ UNCHANGED rows

Continue(r, record) ==
  /\ req' = [req EXCEPT ![r] = record]
  /\ UNCHANGED <<rows, overlapped, calls>>

(***************************************************************************)
(* POST /exercises/{id}/submit with an answer that passes: the submission  *)
(* is inserted.  An answer that does not pass adds to the attempts alone.  *)
(***************************************************************************)
\* mutant: the hook runs before any XP is awarded, so nothing holds the streak
Submitted_HookFirst(e) == [Idle EXCEPT !.at = "check", !.exercise = e]
Submitted(e) == [Idle EXCEPT !.at = "award", !.exercise = e]
Submit(r) == \E e \in Exercises : Arrive(r, Submitted(e))

\* POST /progress/lessons/{id}/complete
Complete(r) ==
  \E l \in Lessons : Arrive(r, [Idle EXCEPT !.at = "find", !.lesson = l])

(***************************************************************************)
(* award_xp: the row is read without a lock, the sum is written when the   *)
(* row (or, for a first award, its unique key) is free.                    *)
(***************************************************************************)
ReadStreak(r) ==
  /\ req[r].at \in {"award", "pay"}
  /\ Continue(r, [req[r] EXCEPT
       !.at = IF At(r, "award") THEN "grant" ELSE "credit",
       !.xp = SeenXp(r),
       !.fresh = IF streak.row \/ HoldsStreak(r) THEN @ ELSE @ \cup {"streak"}])

Granted(r, amount, next) ==
  [req[r] EXCEPT !.at = next, !.xp = @ + amount, !.gain = @ + amount,
                 !.fresh = @ \ {"streak"}, !.wrote = @ \cup {"streak"}]

StreakTaken(r) == "streak" \in req[r].fresh /\ streak.row

\* the XP of the submission, then the completion hook
GrantExercise(r) ==
  /\ At(r, "grant") /\ ~Blocked(r) /\ ~StreakTaken(r)
  /\ Continue(r, Granted(r, XP_EXERCISE, "check"))

\* the XP of the lesson; the endpoint of the button goes on to the streak
CreditLesson(r) ==
  /\ At(r, "credit") /\ ~Blocked(r) /\ ~StreakTaken(r)
  /\ Continue(r, Granted(r, XP_LESSON_COMPLETE,
                         IF req[r].exercise = None THEN "day" ELSE "commit"))

(***************************************************************************)
(* complete_lesson_if_exercises_passed: with every exercise of the lesson  *)
(* solved, this one's flushed row included, the hook goes on to close it.  *)
(***************************************************************************)
CheckLesson(r) ==
  /\ At(r, "check")
  /\ LET e == req[r].exercise IN
     Continue(r, IF Siblings(e) \subseteq Passed(r)
                 THEN [req[r] EXCEPT !.at = "find", !.lesson = LessonOf[e]]
                 ELSE [req[r] EXCEPT !.at = "commit"])

(***************************************************************************)
(* complete_lesson                                                         *)
(***************************************************************************)
FindProgress(r) ==
  /\ At(r, "find")
  /\ Continue(r, [req[r] EXCEPT
       !.at = "mark", !.loaded = percent,
       !.fresh = IF req[r].lesson \in done THEN @ ELSE @ \cup {"progress"}])

ProgressTaken(r) == "progress" \in req[r].fresh /\ req[r].lesson \in done

MarkProgress(r) ==
  /\ At(r, "mark") /\ ~Blocked(r) /\ ~ProgressTaken(r)
  /\ Continue(r, [req[r] EXCEPT !.at = "count", !.fresh = @ \ {"progress"},
                                !.wrote = @ \cup {"progress"}])

\* mutant: the own row counted by the query and once more by hand
Completed_OwnRowTwice(r) == Cardinality(Done(r)) + 1
\* mutant: one more than the percent the enrollment was loaded with
Completed_Increment(r) == IF req[r].loaded < Total THEN req[r].loaded + 1 ELSE Total
\* mutant: counted before the own row is flushed
Completed_Unflushed(r) == Cardinality(done)
Completed(r) == Cardinality(Done(r))

\* The mapper leaves out a percent equal to the one loaded; 66.7 as a float
\* is not equal to the Decimal 66.7, 50.0 is, and neither is 100.0 to be
\* written twice.  completed_at is set anew at every 100 percent.
Update(r, count) ==
  IF count = Total
  THEN {IF req[r].loaded = count THEN {"finished"} ELSE Columns}
  ELSE IF req[r].loaded = count THEN {{}, {"percent"}} ELSE {{"percent"}}

CountLessons(r) ==
  /\ At(r, "count")
  /\ \E columns \in Update(r, Completed(r)) :
       Continue(r, [req[r] EXCEPT !.at = "enroll", !.count = Completed(r),
                                  !.columns = columns])

\* the UPDATE goes out before the next query: of the certificate, of the streak
WriteEnrollment(r) ==
  /\ At(r, "enroll") /\ ~Blocked(r)
  /\ Continue(r, [req[r] EXCEPT
       !.at = IF "finished" \in req[r].columns THEN "certify" ELSE "pay",
       !.wrote = @ \cup req[r].columns])

\* Whoever gets here holds the enrollment row: nobody else issues meanwhile.
IssueCertificate(r) ==
  /\ At(r, "certify")
  /\ Continue(r, [req[r] EXCEPT !.at = "pay",
       !.wrote = IF certified THEN @ ELSE @ \cup {"certificate"}])

\* update_streak, on the row this transaction has just written and holds
CountDay(r) ==
  /\ At(r, "day")
  /\ Continue(r, IF streak.today
                 THEN [req[r] EXCEPT !.at = "commit"]
                 ELSE [req[r] EXCEPT !.at = "commit", !.wrote = @ \cup {"today"},
                                     !.xp = @ + XP_DAILY_STREAK_BONUS,
                                     !.gain = @ + XP_DAILY_STREAK_BONUS])

(***************************************************************************)
(* The end of the transaction.                                             *)
(***************************************************************************)
\* mutant: a handler that returns or fails leaves its session, and its locks, open
Closed_SessionLeft(r) == [Idle EXCEPT !.wrote = req[r].wrote, !.lesson = req[r].lesson]
Closed(r) == Idle

Commit(r) ==
  /\ At(r, "commit")
  /\ passed' = Passed(r)
  /\ done' = Done(r)
  /\ percent' = IF "percent" \in req[r].wrote THEN req[r].count ELSE percent
  /\ finished' = (finished \/ "finished" \in req[r].wrote)
  /\ certified' = (certified \/ "certificate" \in req[r].wrote)
  /\ streak' = IF HoldsStreak(r)
               THEN [row |-> TRUE, xp |-> req[r].xp,
                     today |-> streak.today \/ "today" \in req[r].wrote]
               ELSE streak
  /\ earned' = earned + req[r].gain
  /\ req' = [req EXCEPT ![r] = Closed(r)]
  /\ UNCHANGED <<overlapped, calls>>

\* An INSERT finds the key of a row committed since it was looked for.
Collide(r) ==
  /\ \/ req[r].at \in {"grant", "credit"} /\ StreakTaken(r)
     \/ At(r, "mark") /\ ProgressTaken(r)
  /\ ~Blocked(r)
  /\ Continue(r, Closed(r))

\* PostgreSQL fails one transaction of a cycle.
Deadlock(r) ==
  /\ Deadlocked(r)
  /\ Continue(r, Closed(r))

Handle(r) ==
  \/ ReadStreak(r) \/ GrantExercise(r) \/ CreditLesson(r) \/ CheckLesson(r)
  \/ FindProgress(r) \/ MarkProgress(r) \/ CountLessons(r) \/ WriteEnrollment(r)
  \/ IssueCertificate(r) \/ CountDay(r) \/ Commit(r) \/ Collide(r)

Next == \E r \in Requests : Submit(r) \/ Complete(r) \/ Handle(r) \/ Deadlock(r)

Spec == Init /\ [][Next]_vars

\* The event loop runs every handler on; the database breaks every cycle.
FairSpec == Spec /\ \A r \in Requests : WF_vars(Handle(r)) /\ WF_vars(Deadlock(r))

(***************************************************************************)
(* Properties                                                              *)
(***************************************************************************)
\* Rows and requests keep the shapes of the models and handlers.
TypeOK ==
  /\ passed \subseteq Exercises
  /\ done \subseteq Lessons
  /\ percent \in 0..Total
  /\ finished \in BOOLEAN
  /\ certified \in BOOLEAN
  /\ streak \in [row : BOOLEAN, xp : Nat, today : BOOLEAN]
  /\ req \in [Requests -> Request]
  /\ earned \in Nat
  /\ overlapped \in BOOLEAN
  /\ calls \in 0..MaxCalls

\* A lesson whose exercises are all solved is closed, however the requests
\* that solved them overlap (complete_lesson_if_exercises_passed,
\* exercises/service.py).  No lock of the hook sees to it: two requests that
\* solve the last two exercises at once are told apart only by the streak
\* row, which the XP of the first keeps until it commits.
SolvedLessonsAreClosed ==
  \A e \in Exercises : Siblings(e) \subseteq passed => LessonOf[e] \in done

\* A course is finished, and its certificate issued, only when every lesson of
\* it is done and stays so (complete_lesson, issue_certificate): the count a
\* request acts on may be old, never too high.
CertificateIsEarned ==
  /\ finished \/ certified => done = Lessons
  /\ certified => finished

\* The percent of a course may lag behind the lessons done when completions
\* overlap; it never runs ahead of them (complete_lesson).
PercentNeverOverstates == percent <= Cardinality(done)

\* The XP total never exceeds what the committed awards add up to: a failed
\* request takes its award with it, and an overlapping award is lost rather
\* than paid twice (award_xp, update_streak).
XpIsEarned == streak.xp <= earned

\* A pupil whose requests never overlapped has exactly what was earned: the
\* percent counts the lessons done, the last lesson brings the date and the
\* certificate, and no XP is lost (complete_lesson, award_xp).
SerialIsExact ==
  ~overlapped /\ (\A r \in Requests : ~Busy(r)) =>
    /\ percent = Cardinality(done)
    /\ finished <=> done = Lessons
    /\ certified <=> finished
    /\ streak.xp = earned

\* Every request ends, those that wait for each other's rows in opposite orders
\* included: a submission holds the streak and wants the enrollment, a
\* completion holds the enrollment and wants the streak.
EveryRequestFinishes == \A r \in Requests : Busy(r) ~> ~Busy(r)

\* "the work is already saved" (exercises/router.py, the completion hook of the
\* submit endpoint): a submission that has reached the hook is not lost by it.
SavedWorkStays ==
  [][\A r \in Requests :
       /\ req[r].exercise # None /\ req[r].at \notin {"award", "grant"}
       /\ ~Busy(r)'
       => req[r].exercise \in passed']_vars

=============================================================================
