--------------------------- MODULE LiveLessonProofs ---------------------------
(***************************************************************************)
(* Theorems about LiveLesson for any numbers of lessons, pupils and         *)
(* requests.  The inductive invariant says where a request is allowed to    *)
(* be with what it carries (Stages), that an uncommitted lesson row is the  *)
(* only one and shuts out every committed active row but the one its own    *)
(* transaction ends (FreshRow), and that what a finaliser carries is at     *)
(* least what was acknowledged (Carried).                                   *)
(***************************************************************************)
EXTENDS LiveLesson, SequenceTheorems, TLAPS

(* A step that dereferences a lesson row has one, and rows exist.           *)
Stages ==
  \A r \in Requests :
    /\ req[r].pc \in {"seen", "grace", "snapshot", "mark", "write", "lock", "wipe", "beat"}
         => req[r].on # NoLesson
    /\ req[r].on # NoLesson => status[req[r].on] # "none"
    /\ req[r].pc = "seed" => req[r].fresh # NoLesson
    /\ req[r].fresh # NoLesson => req[r].pc \in {"seed", "commit"}

(* The uncommitted row of a start.                                          *)
FreshRow ==
  \A r \in Requests : req[r].fresh # NoLesson =>
    /\ status[req[r].fresh] = "none"
    /\ ActiveRows \subseteq {req[r].on}
    /\ \A o \in Requests \ {r} : req[o].fresh = NoLesson

LifeInv == TypeOK /\ Stages /\ FreshRow /\ OneActiveLesson

-----------------------------------------------------------------------------
LEMMA IdleType == Idle \in Request
  BY LessonAssumption DEF LessonAssumption, Idle, Request, Steps, Endpoints, MaybeLesson, People, NoBeats

LEMMA WrittenType ==
  ASSUME NEW rows \in Seq({"present", "absent"}), NEW i \in Nat,
         NEW v \in {"present", "absent"}
  PROVE  Written(rows, i, v) \in Seq({"present", "absent"})
  <1>1. CASE i = 0
    BY <1>1 DEF Written
  <1>2. CASE i \in 1..Len(rows)
    BY <1>2, ExceptSeq DEF Written
  <1>3. CASE i # 0 /\ i \notin 1..Len(rows)
    <2>1. [rows EXCEPT ![i] = v] = rows
      BY <1>3, LenProperties
    <2> QED BY <1>3, <2>1 DEF Written
  <1> QED BY <1>1, <1>2, <1>3

LEMMA InitLife == Init => LifeInv
  <1> SUFFICES ASSUME Init PROVE LifeInv
    OBVIOUS
  <1> USE LessonAssumption DEF Init, LessonAssumption
  <1>1. TypeOK
    BY IdleType, EmptySeq DEF TypeOK, NoBeats, MaybeLesson
  <1>2. Stages /\ FreshRow
    BY DEF Stages, FreshRow, Idle
  <1>3. OneActiveLesson
    BY DEF OneActiveLesson, ActiveRows
  <1> QED BY <1>1, <1>2, <1>3 DEF LifeInv

-----------------------------------------------------------------------------
(* What moving a request does to it and to the others.                      *)
Others(r) == \A o \in Requests \ {r} : req'[o] = req[o]

Same(r, fields) == \A f \in fields : req'[r][f] = req[r][f]

LEMMA FinishEffect ==
  ASSUME TypeOK, NEW r \in Requests, Finish(r)
  PROVE  req' \in [Requests -> Request] /\ req'[r] = Idle /\ Others(r)
  BY IdleType DEF TypeOK, Finish, Others

LEMMA GotoEffect ==
  ASSUME TypeOK, NEW r \in Requests, NEW step \in Steps, Goto(r, step)
  PROVE  /\ req' \in [Requests -> Request] /\ Others(r)
         /\ req'[r].pc = step
         /\ Same(r, {"endpoint", "on", "who", "att", "row", "writes", "fresh"})
  <1>1. req[r] \in Request
    BY DEF TypeOK
  <1>2. [req[r] EXCEPT !.pc = step] \in Request
    BY <1>1 DEF Request
  <1>3. req' = [req EXCEPT ![r] = [req[r] EXCEPT !.pc = step]]
    BY DEF Goto, TypeOK
  <1>4. req'[r] = [req[r] EXCEPT !.pc = step]
    BY <1>3 DEF TypeOK
  <1>5. req'[r].pc = step /\ Same(r, {"endpoint", "on", "who", "att", "row", "writes", "fresh"})
    BY <1>1, <1>4 DEF Request, Same
  <1> QED BY <1>2, <1>3, <1>5 DEF TypeOK, Others

LEMMA ArriveEffect ==
  ASSUME TypeOK, NEW r \in Requests, NEW e \in Endpoints, NEW l \in MaybeLesson,
         NEW u \in People, NEW step \in Steps, Arrive(r, e, l, u, step)
  PROVE  /\ req' \in [Requests -> Request] /\ Others(r)
         /\ req'[r].pc = step /\ req'[r].on = l /\ req'[r].who = u
         /\ req'[r].fresh = NoLesson /\ req'[r].writes = {}
         /\ UNCHANGED <<db, redis, history>>
  <1> DEFINE q == [Idle EXCEPT !.pc = step, !.endpoint = e, !.on = l, !.who = u]
  <1>1. q \in Request
    BY IdleType DEF Request
  <1>2. q.pc = step /\ q.on = l /\ q.who = u /\ q.fresh = NoLesson /\ q.writes = {}
    BY DEF Idle
  <1>3. req'[r] = q
    BY DEF Arrive, TypeOK
  <1> QED BY <1>1, <1>2, <1>3 DEF TypeOK, Others, Arrive

LEMMA ArrivalsEffect ==
  ASSUME TypeOK, NEW r \in Requests, Arrivals(r)
  PROVE  /\ req' \in [Requests -> Request] /\ Others(r)
         /\ req'[r].pc \in {"insert", "seen", "snapshot", "beat"}
         /\ req'[r].fresh = NoLesson /\ req'[r].writes = {}
         /\ \/ req'[r].pc = "insert" /\ req'[r].on = NoLesson
            \/ req'[r].pc # "insert" /\ req'[r].on \in ActiveRows
         /\ UNCHANGED <<db, redis, history>>
  <1>1. PICK e \in Endpoints, l \in MaybeLesson, u \in People,
             step \in {"insert", "seen", "snapshot", "beat"} :
          /\ Arrive(r, e, l, u, step)
          /\ \/ step = "insert" /\ l = NoLesson
             \/ step # "insert" /\ l \in ActiveRows
    BY DEF Arrivals, RequestStart, RequestEnd, RequestState, RequestActive, RequestBeat,
           Endpoints, MaybeLesson, People, ActiveRows
  <1> QED BY <1>1, ArriveEffect DEF Steps

LEMMA SnapshotEffect ==
  ASSUME TypeOK, Stages, NEW r \in Requests, Snapshot(r)
  PROVE  /\ req' \in [Requests -> Request] /\ Others(r)
         /\ req'[r].pc = "mark" /\ req'[r].att = beats[req[r].on]
         /\ Same(r, {"endpoint", "on", "who", "row", "writes", "fresh"})
         /\ req[r].on \in Lessons
  <1>0. req[r] \in Request /\ req[r].on \in Lessons
    BY DEF TypeOK, Stages, Snapshot, At, Request, MaybeLesson
  <1> DEFINE q == [req[r] EXCEPT !.pc = "mark", !.att = beats[req[r].on]]
  <1>1. beats[req[r].on] \in [Students -> Nat]
    BY <1>0 DEF TypeOK
  <1>2. q \in Request
    BY <1>0, <1>1 DEF Request, Steps
  <1>3. req' = [req EXCEPT ![r] = q] /\ req'[r] = q
    BY DEF Snapshot, Attendance, TypeOK
  <1>4. q.pc = "mark" /\ q.att = beats[req[r].on]
        /\ \A f \in {"endpoint", "on", "who", "row", "writes", "fresh"} : q[f] = req[r][f]
    BY <1>0 DEF Request
  <1> HIDE DEF q
  <1> QED BY <1>0, <1>2, <1>3, <1>4 DEF TypeOK, Others, Same

LEMMA MarkEffect ==
  ASSUME TypeOK, NEW r \in Requests, MarkAttendance(r)
  PROVE  /\ req' \in [Requests -> Request] /\ Others(r)
         /\ req'[r].pc = "write"
         /\ Same(r, {"endpoint", "on", "who", "att", "fresh"})
         /\ req'[r].writes = Changed(req'[r].row, req[r].att)
         /\ \A s \in Students :
              req'[r].row[s] \in (IF records[s] = <<>> THEN {0} ELSE DOMAIN records[s])
  <1>1. PICK row \in [Students -> 0..MaxRows] :
          /\ \A s \in Students :
               row[s] \in (IF records[s] = <<>> THEN {0} ELSE DOMAIN records[s])
          /\ req' = [req EXCEPT ![r].pc = "write", ![r].row = row,
                                ![r].writes = Changed(row, req[r].att)]
    BY DEF MarkAttendance
  <1> DEFINE w == Changed(row, req[r].att)
             q == [req[r] EXCEPT !.pc = "write", !.row = row, !.writes = w]
  <1>2. req[r] \in Request /\ row \in [Students -> Nat] /\ w \in SUBSET Students
    BY LessonAssumption DEF TypeOK, LessonAssumption, Changed
  <1>3. q \in Request
    BY <1>2 DEF Request, Steps
  <1>4. req' = [req EXCEPT ![r] = q] /\ req'[r] = q
    BY <1>1 DEF TypeOK
  <1>5. /\ q.pc = "write" /\ q.row = row /\ q.writes = w
        /\ \A f \in {"endpoint", "on", "who", "att", "fresh"} : q[f] = req[r][f]
    BY <1>2 DEF Request
  <1> HIDE DEF q
  <1> QED BY <1>1, <1>3, <1>4, <1>5 DEF TypeOK, Others, Same

LEMMA InsertEffect ==
  ASSUME TypeOK, NEW r \in Requests, InsertLesson(r)
  PROVE  /\ req' \in [Requests -> Request] /\ Others(r)
         /\ req'[r].pc = "seed"
         /\ req'[r].fresh \in Lessons /\ status[req'[r].fresh] = "none"
         /\ Same(r, {"endpoint", "on", "who", "att", "row", "writes"})
  <1>1. PICK l \in Lessons :
          status[l] = "none" /\ req' = [req EXCEPT ![r].pc = "seed", ![r].fresh = l]
    BY DEF InsertLesson, Insertable, NewLesson
  <1> DEFINE q == [req[r] EXCEPT !.pc = "seed", !.fresh = l]
  <1>2. req[r] \in Request
    BY DEF TypeOK
  <1>3. q \in Request
    BY <1>2 DEF Request, Steps, MaybeLesson
  <1>4. req' = [req EXCEPT ![r] = q] /\ req'[r] = q
    BY <1>1 DEF TypeOK
  <1>5. q.pc = "seed" /\ q.fresh = l
        /\ \A f \in {"endpoint", "on", "who", "att", "row", "writes"} : q[f] = req[r][f]
    BY <1>2 DEF Request
  <1> HIDE DEF q
  <1> QED BY <1>1, <1>3, <1>4, <1>5 DEF TypeOK, Others, Same

-----------------------------------------------------------------------------
LEMMA TypeStep ==
  ASSUME LifeInv, [Next]_vars
  PROVE  TypeOK'
  <1> USE DEF LifeInv
  <1> DEFINE RestOK ==
        /\ status \in [Lessons -> {"none", "active", "ended"}]
        /\ summary \in [Lessons -> [Students -> Nat]]
        /\ records \in [Students -> Seq({"present", "absent"})]
        /\ seen \subseteq Lessons /\ grace \subseteq Lessons
        /\ beats \in [Lessons -> [Students -> Nat]]
        /\ earned \in [Lessons -> [Students -> Nat]]
        /\ phase \in [Lessons -> {"open", "snapped", "wiped", "spoiled"}]
        /\ restarts \in Nat /\ aborts \in Nat
  <1>a. RestOK /\ \A r \in Requests : req[r] \in Request
    BY DEF TypeOK
  <1>b. RestOK' /\ req' \in [Requests -> Request] => TypeOK'
    BY DEF TypeOK
  <1>1. ASSUME NEW r \in Requests, Arrivals(r) PROVE TypeOK'
    BY <1>1, <1>a, <1>b, ArrivalsEffect DEF db, redis, history
  <1>2. ASSUME NEW r \in Requests, ProbeSeen(r) PROVE TypeOK'
    <2>1. req' \in [Requests -> Request]
      BY <1>2, FinishEffect, GotoEffect DEF ProbeSeen, Steps
    <2>2. RestOK'
      BY <1>2, <1>a DEF ProbeSeen, db, redis, history, At, Steps, Request, Stages, MaybeLesson
    <2> QED BY <2>1, <2>2, <1>b
  <1>3. ASSUME NEW r \in Requests, ProbeGrace(r) PROVE TypeOK'
    <2>1. req' \in [Requests -> Request]
      BY <1>3, FinishEffect, GotoEffect DEF ProbeGrace, Steps
    <2>2. RestOK'
      BY <1>3, <1>a DEF ProbeGrace, db, redis, history, At, Steps, Request, Stages, MaybeLesson
    <2> QED BY <2>1, <2>2, <1>b
  <1>4. ASSUME NEW r \in Requests, Snapshot(r) PROVE TypeOK'
    <2>1. req' \in [Requests -> Request]
      BY <1>4, SnapshotEffect DEF Snapshot, Steps
    <2>2. RestOK'
      BY <1>4, <1>a DEF Snapshot, db, redis, history, At, Steps, Request, Stages, MaybeLesson
    <2> QED BY <2>1, <2>2, <1>b
  <1>5. ASSUME NEW r \in Requests, MarkAttendance(r) PROVE TypeOK'
    <2>1. req' \in [Requests -> Request]
      BY <1>5, MarkEffect DEF MarkAttendance, Steps
    <2>2. RestOK'
      BY <1>5, <1>a DEF MarkAttendance, db, redis, history, At, Steps, Request, Stages, MaybeLesson
    <2> QED BY <2>1, <2>2, <1>b
  <1>6. ASSUME NEW r \in Requests, FlushAttendance(r) \/ LockLesson(r) PROVE TypeOK'
    <2>1. req' \in [Requests -> Request]
      BY <1>6, GotoEffect DEF FlushAttendance, LockLesson, Steps
    <2>2. RestOK'
      BY <1>6, <1>a DEF FlushAttendance, LockLesson, db, redis, history, At, Steps, Request, Stages, MaybeLesson
    <2> QED BY <2>1, <2>2, <1>b
  <1>7. ASSUME NEW r \in Requests, Wipe(r) PROVE TypeOK'
    <2>1. req' \in [Requests -> Request]
      BY <1>7, GotoEffect DEF Wipe, Steps
    <2>2. NoBeats \in [Students -> Nat]
      BY DEF NoBeats
    <2>3. beats' \in [Lessons -> [Students -> Nat]]
      BY <1>7, <1>a, <2>2 DEF Wipe
    <2>4. RestOK'
      BY <1>7, <1>a, <2>3 DEF Wipe, db, MaybeLesson
    <2> QED BY <2>1, <2>4, <1>b
  <1>8. ASSUME NEW r \in Requests, InsertLesson(r) PROVE TypeOK'
    <2>1. req' \in [Requests -> Request]
      BY <1>8, InsertEffect DEF InsertLesson, Steps
    <2>2. RestOK'
      BY <1>8, <1>a DEF InsertLesson, db, redis, history, At, Steps, Request, Stages, MaybeLesson
    <2> QED BY <2>1, <2>2, <1>b
  <1>9. ASSUME NEW r \in Requests, RefuseLesson(r) PROVE TypeOK'
    <2>1. req' \in [Requests -> Request]
      BY <1>9, FinishEffect DEF RefuseLesson, Steps
    <2>2. RestOK'
      BY <1>9, <1>a DEF RefuseLesson, db, redis, history, At, Steps, Request, Stages, MaybeLesson
    <2> QED BY <2>1, <2>2, <1>b
  <1>10. ASSUME NEW r \in Requests, SeedRedis(r) PROVE TypeOK'
    <2>1. req' \in [Requests -> Request]
      BY <1>10, GotoEffect DEF SeedRedis, Steps
    <2>2. RestOK'
      BY <1>10, <1>a DEF SeedRedis, db, redis, history, At, Steps, Request, Stages, MaybeLesson
    <2> QED BY <2>1, <2>2, <1>b
  <1>11. ASSUME NEW r \in Requests, Commit(r) PROVE TypeOK'
    <2>1. req' \in [Requests -> Request]
      BY <1>11, FinishEffect DEF Commit
    <2>2. req[r].att \in [Students -> Nat] /\ req[r].row \in [Students -> Nat]
      BY <1>a DEF Request
    <2>3. \A s \in Students : Verdict(req[r].att[s]) \in {"present", "absent"}
      BY DEF Verdict
    <2>4. records' \in [Students -> Seq({"present", "absent"})]
      BY <1>11, <1>a, <2>2, <2>3, WrittenType DEF Commit
    <2>5. RestOK'
      BY <1>11, <1>a, <2>2, <2>4 DEF Commit, redis, history
    <2> QED BY <2>1, <2>5, <1>b
  <1>12. ASSUME NEW r \in Requests, BeatTeacher(r) PROVE TypeOK'
    <2>1. req' \in [Requests -> Request]
      BY <1>12, FinishEffect DEF BeatTeacher, Steps
    <2>2. RestOK'
      BY <1>12, <1>a DEF BeatTeacher, db, redis, history, At, Steps, Request, Stages, MaybeLesson
    <2> QED BY <2>1, <2>2, <1>b
  <1>13. ASSUME NEW r \in Requests, BeatStudent(r) PROVE TypeOK'
    <2>1. req' \in [Requests -> Request]
      BY <1>13, FinishEffect DEF BeatStudent
    <2>2. req[r].on \in Lessons /\ req[r].who \in Students
      BY <1>13, <1>a DEF BeatStudent, Stages, At, Request, MaybeLesson
    <2>3. UNCHANGED <<db, seen, grace, phase, restarts, aborts>>
      BY <1>13, <1>a, <2>2 DEF BeatStudent, MaybeLesson
    <2> DEFINE l == req[r].on
               s == req[r].who
    <2>b. /\ beats' = [beats EXCEPT ![l] = [beats[l] EXCEPT ![s] = beats[l][s] + 1]]
          /\ earned' = [earned EXCEPT ![l] = [earned[l] EXCEPT ![s] = earned[l][s] + 1]]
             \/ earned' = earned
      BY <1>13, <1>a, <2>2 DEF BeatStudent
    <2>c. \A f \in [Lessons -> [Students -> Nat]] :
            [f[l] EXCEPT ![s] = f[l][s] + 1] \in [Students -> Nat]
      BY <2>2
    <2>4. beats' \in [Lessons -> [Students -> Nat]]
      BY <1>a, <2>2, <2>b, <2>c
    <2>5. earned' \in [Lessons -> [Students -> Nat]]
      BY <1>a, <2>2, <2>b, <2>c
    <2>6. RestOK'
      BY <1>a, <2>3, <2>4, <2>5 DEF db
    <2> QED BY <2>1, <2>6, <1>b
  <1>14. ASSUME NEW r \in Requests, Abort(r) PROVE TypeOK'
    <2>1. req' \in [Requests -> Request]
      BY <1>14, FinishEffect DEF Abort, Steps
    <2>2. RestOK'
      BY <1>14, <1>a DEF Abort, db, redis, history, At, Steps, Request, Stages, MaybeLesson
    <2> QED BY <2>1, <2>2, <1>b
  <1>17. CASE SeenExpires
    BY <1>17, <1>a, <1>b DEF SeenExpires, db, redis, history, ActiveRows, MaybeLesson, TypeOK
  <1>18. CASE GraceExpires
    BY <1>18, <1>a, <1>b DEF GraceExpires, db, redis, history, ActiveRows, MaybeLesson, TypeOK
  <1>20. CASE RedisRestart
    <2>1. NoBeats \in [Students -> Nat]
      BY DEF NoBeats
    <2>2. RestOK'
      BY <1>20, <1>a, <2>1 DEF RedisRestart, db, MaybeLesson
    <2> QED BY <1>20, <2>2, <1>b DEF RedisRestart, TypeOK
  <1>21. CASE UNCHANGED vars
    BY <1>21, <1>a DEF vars, TypeOK, db, redis, history
  <1> QED BY <1>1, <1>2, <1>3, <1>4, <1>5, <1>6, <1>7, <1>8, <1>9, <1>10, <1>11, <1>12, <1>13, <1>14, <1>17, <1>18, <1>20, <1>21
    DEF Next, Handle, Environment

-----------------------------------------------------------------------------
(* What a step that is not a commit may do to the request that takes it.    *)
Moved(r) ==
  /\ UNCHANGED status
  /\ Others(r)
  /\ req'[r].pc \in {"seen", "grace", "snapshot", "mark", "write", "lock", "wipe", "beat"}
       => req'[r].on # NoLesson
  /\ req'[r].on # NoLesson => status[req'[r].on] # "none"
  /\ req'[r].pc = "seed" => req'[r].fresh # NoLesson
  /\ req'[r].fresh # NoLesson =>
       /\ req'[r].pc \in {"seed", "commit"}
       /\ \/ req'[r].fresh = req[r].fresh /\ req'[r].on = req[r].on
          \/ /\ status[req'[r].fresh] = "none"
             /\ ActiveRows \subseteq {req'[r].on}
             /\ \A o \in Requests \ {r} : req[o].fresh = NoLesson

LEMMA FinishMoves ==
  ASSUME TypeOK, NEW r \in Requests, Finish(r), UNCHANGED status
  PROVE  Moved(r)
  BY FinishEffect DEF Moved, Idle

LEMMA StepMoves ==
  ASSUME LifeInv, [Next]_vars
  PROVE  \/ \E r \in Requests : Commit(r) \/ Moved(r)
         \/ UNCHANGED <<req, status>>
  <1> USE DEF LifeInv
  <1>1. ASSUME NEW r \in Requests, Arrivals(r) PROVE Moved(r)
    <2>1. \A l \in ActiveRows : l # NoLesson /\ status[l] # "none"
      BY LessonAssumption DEF ActiveRows, LessonAssumption
    <2> QED BY <1>1, <2>1, ArrivalsEffect DEF Moved, db
  <1>2. ASSUME NEW r \in Requests, ProbeSeen(r) PROVE Moved(r)
    BY <1>2, FinishMoves, GotoEffect DEF ProbeSeen, Moved, Stages, Same, At, Steps, db
  <1>3. ASSUME NEW r \in Requests, ProbeGrace(r) PROVE Moved(r)
    BY <1>3, FinishMoves, GotoEffect DEF ProbeGrace, Moved, Stages, Same, At, Steps, db
  <1>4. ASSUME NEW r \in Requests, Snapshot(r) PROVE Moved(r)
    <2>1. UNCHANGED status /\ req[r].pc = "snapshot"
      BY <1>4 DEF Snapshot, At, db
    <2> QED BY <1>4, <2>1, SnapshotEffect DEF Moved, Stages, Same
  <1>5. ASSUME NEW r \in Requests, MarkAttendance(r) PROVE Moved(r)
    BY <1>5, MarkEffect DEF MarkAttendance, Moved, Stages, Same, At, db
  <1>6. ASSUME NEW r \in Requests, FlushAttendance(r) \/ LockLesson(r) PROVE Moved(r)
    BY <1>6, GotoEffect DEF FlushAttendance, LockLesson, Moved, Stages, Same, At, Steps, db
  <1>7. ASSUME NEW r \in Requests, Wipe(r) PROVE Moved(r)
    <2>1. PICK step \in {"insert", "commit"} : Goto(r, step)
      BY <1>7 DEF Wipe
    <2> QED BY <1>7, <2>1, GotoEffect DEF Wipe, Moved, Stages, Same, At, Steps, db
  <1>8. ASSUME NEW r \in Requests, InsertLesson(r) PROVE Moved(r)
    <2>1. /\ Others(r) /\ req'[r].pc = "seed" /\ req'[r].on = req[r].on
          /\ req'[r].fresh \in Lessons /\ status[req'[r].fresh] = "none"
      BY <1>8, InsertEffect DEF Same
    <2>2. UNCHANGED status /\ ActiveRows \subseteq {req'[r].on}
      BY <1>8, <2>1 DEF InsertLesson, IndexFree, db
    <2>3. \A o \in Requests \ {r} : req[o].fresh = NoLesson
      BY <1>8 DEF InsertLesson, IndexSettled
    <2>4. req'[r].fresh # NoLesson
      BY <2>1, LessonAssumption DEF LessonAssumption
    <2> QED BY <2>1, <2>2, <2>3, <2>4 DEF Moved, Stages
  <1>9. ASSUME NEW r \in Requests, RefuseLesson(r) PROVE Moved(r)
    BY <1>9, FinishMoves DEF RefuseLesson, db
  <1>10. ASSUME NEW r \in Requests, SeedRedis(r) PROVE Moved(r)
    BY <1>10, GotoEffect DEF SeedRedis, Moved, Stages, Same, At, Steps, db
  <1>11. ASSUME NEW r \in Requests, BeatTeacher(r) \/ BeatStudent(r) PROVE Moved(r)
    BY <1>11, FinishMoves DEF BeatTeacher, BeatStudent, db
  <1>12. ASSUME NEW r \in Requests, Abort(r) PROVE Moved(r)
    BY <1>12, FinishMoves DEF Abort, db
  <1>13. CASE Environment \/ UNCHANGED vars
    BY <1>13 DEF Environment, SeenExpires, GraceExpires, RedisRestart, vars, db
  <1> QED BY <1>1, <1>2, <1>3, <1>4, <1>5, <1>6, <1>7, <1>8, <1>9, <1>10, <1>11, <1>12, <1>13
    DEF Next, Handle

(* What a commit does to the lesson rows: it alone changes them.            *)
LEMMA CommitEffect ==
  ASSUME LifeInv, NEW r \in Requests, Commit(r)
  PROVE  /\ req'[r] = Idle /\ Others(r)
         /\ \A l \in Lessons : status'[l] = IF l = req[r].fresh THEN "active"
                                            ELSE IF l = req[r].on THEN "ended" ELSE status[l]
         /\ req[r].on \in MaybeLesson /\ req[r].fresh \in MaybeLesson
         /\ req[r].on = req[r].fresh => req[r].on = NoLesson
  <1>1. req'[r] = Idle /\ Others(r)
    BY FinishEffect DEF Commit, LifeInv
  <1>2. req[r].on \in MaybeLesson /\ req[r].fresh \in MaybeLesson
    BY DEF LifeInv, TypeOK, Request
  <1>3. req[r].on = req[r].fresh => req[r].on = NoLesson
    BY DEF LifeInv, Stages, FreshRow
  <1> QED BY <1>1, <1>2, <1>3 DEF Commit

LEMMA LifeStep ==
  ASSUME LifeInv, [Next]_vars
  PROVE  Stages' /\ FreshRow' /\ OneActiveLesson'
  <1> USE DEF LifeInv
  <1>1. ASSUME NEW r \in Requests, Moved(r) PROVE Stages' /\ FreshRow' /\ OneActiveLesson'
    <2>1. UNCHANGED status /\ ActiveRows' = ActiveRows
      BY <1>1 DEF Moved, ActiveRows
    <2>2. Stages'
      BY <1>1, <2>1 DEF Moved, Others, Stages
    <2>3. FreshRow'
      <3> SUFFICES ASSUME NEW q \in Requests, req'[q].fresh # NoLesson
                   PROVE  /\ status[req'[q].fresh] = "none"
                          /\ ActiveRows \subseteq {req'[q].on}
                          /\ \A o \in Requests \ {q} : req'[o].fresh = NoLesson
        BY <2>1 DEF FreshRow
      <3>1. CASE q = r
        BY <1>1, <3>1 DEF Moved, Others, FreshRow
      <3>2. CASE q # r
        <4>1. req[q].fresh # NoLesson /\ req'[q] = req[q]
          BY <1>1, <3>2 DEF Moved, Others
        <4>2. req'[r].fresh = NoLesson
          BY <1>1, <4>1, <3>2 DEF Moved, FreshRow
        <4> QED BY <1>1, <4>1, <4>2 DEF Moved, Others, FreshRow
      <3> QED BY <3>1, <3>2
    <2>4. OneActiveLesson'
      BY <2>1 DEF OneActiveLesson
    <2> QED BY <2>2, <2>3, <2>4
  <1>2. ASSUME NEW r \in Requests, Commit(r) PROVE Stages' /\ FreshRow' /\ OneActiveLesson'
    <2>1. \A o \in Requests : req'[o].fresh # NoLesson =>
            /\ o # r /\ req'[o] = req[o] /\ req[r].fresh = NoLesson
      BY <1>2, CommitEffect DEF Others, Idle, FreshRow
    <2>2. \A l \in Lessons : status[l] # "none" => status'[l] # "none"
      BY <1>2, CommitEffect
    <2>3. Stages'
      <3> SUFFICES ASSUME NEW o \in Requests, o # r
                   PROVE  req'[o].on # NoLesson => status'[req'[o].on] # "none"
        BY <1>2, CommitEffect DEF Stages, Others, Idle
      <3>1. req'[o] = req[o] /\ req[o].on \in MaybeLesson
        BY <1>2, CommitEffect DEF Others, TypeOK, Request
      <3> QED BY <2>2, <3>1 DEF Stages, MaybeLesson
    <2>4. FreshRow'
      <3> SUFFICES ASSUME NEW q \in Requests, req'[q].fresh # NoLesson
                   PROVE  /\ status'[req'[q].fresh] = "none"
                          /\ ActiveRows' \subseteq {req'[q].on}
                          /\ \A o \in Requests \ {q} : req'[o].fresh = NoLesson
        BY DEF FreshRow
      <3>1. q # r /\ req'[q] = req[q] /\ req[r].fresh = NoLesson
        BY <2>1
      <3>2. /\ req[q].fresh \in Lessons /\ status[req[q].fresh] = "none"
            /\ ActiveRows \subseteq {req[q].on}
        BY <3>1 DEF FreshRow, TypeOK, Request, MaybeLesson
      <3>3. req[q].fresh # req[r].on
        BY <3>2, LessonAssumption DEF Stages, LessonAssumption
      <3>4. ActiveRows' \subseteq ActiveRows
        BY <1>2, CommitEffect, <3>1, LessonAssumption DEF ActiveRows, LessonAssumption
      <3>5. status'[req[q].fresh] = "none"
        BY <1>2, CommitEffect, <3>1, <3>2, <3>3, LessonAssumption DEF LessonAssumption
      <3>6. \A o \in Requests \ {q} : req'[o].fresh = NoLesson
        BY <2>1, <3>1 DEF FreshRow
      <3> QED BY <3>1, <3>2, <3>4, <3>5, <3>6
    <2>5. OneActiveLesson'
      <3>1. CASE req[r].fresh = NoLesson
        <4>1. ActiveRows' \subseteq ActiveRows
          BY <1>2, CommitEffect, <3>1, LessonAssumption DEF ActiveRows, LessonAssumption
        <4> QED BY <4>1 DEF OneActiveLesson
      <3>2. CASE req[r].fresh # NoLesson
        <4>1. ActiveRows \subseteq {req[r].on}
          BY <3>2 DEF FreshRow
        <4>2. ActiveRows' \subseteq {req[r].fresh}
          BY <1>2, CommitEffect, <4>1 DEF ActiveRows
        <4> QED BY <4>2 DEF OneActiveLesson
      <3> QED BY <3>1, <3>2
    <2> QED BY <2>3, <2>4, <2>5
  <1>3. CASE UNCHANGED <<req, status>>
    <2>1. ActiveRows' = ActiveRows
      BY <1>3 DEF ActiveRows
    <2> QED BY <1>3, <2>1 DEF Stages, FreshRow, OneActiveLesson
  <1> QED BY <1>1, <1>2, <1>3, StepMoves

(* LifeInv is inductive.                                                    *)
THEOREM LifeInvHolds == Spec => []LifeInv
  <1>1. LifeInv /\ [Next]_vars => LifeInv'
    BY TypeStep, LifeStep DEF LifeInv
  <1> QED BY InitLife, <1>1, PTL DEF Spec

(* Every variable keeps its type, whatever the instance.                    *)
THEOREM TypeCorrect == Spec => []TypeOK
  BY LifeInvHolds, PTL DEF LifeInv

(* A group never has two active lessons, for any number of lessons, pupils  *)
(* and concurrent requests, failures and Redis restarts included.           *)
THEOREM AtMostOneLesson == Spec => []OneActiveLesson
  BY LifeInvHolds, PTL DEF LifeInv

-----------------------------------------------------------------------------
(* No step of any request, however stale its reading, reopens a lesson.     *)
THEOREM EndedStaysEnded == Spec => EndedIsFinal
  <1> DEFINE Final == \A l \in Lessons : status[l] = "ended" => status'[l] = "ended"
  <1>1. LifeInv /\ [Next]_vars => [Final]_vars
    <2> SUFFICES ASSUME LifeInv, [Next]_vars PROVE Final
      OBVIOUS
    <2>1. CASE UNCHANGED status
      BY <2>1
    <2>2. ASSUME NEW r \in Requests, Commit(r) PROVE Final
      <3>1. req[r].fresh # NoLesson => status[req[r].fresh] = "none"
        BY DEF LifeInv, FreshRow
      <3> QED BY <2>2, <3>1, CommitEffect, LessonAssumption DEF LessonAssumption
    <2> QED BY <2>1, <2>2, StepMoves DEF Moved
  <1> QED BY LifeInvHolds, <1>1, PTL DEF Spec, EndedIsFinal

-----------------------------------------------------------------------------
(* AttendanceKept                                                           *)

AtLeast(f, g) == \A s \in Students : f[s] >= g[s]

Finalising == {"mark", "write", "lock", "wipe", "insert", "seed", "commit"}

(* The hash holds every acknowledged beat until it is deleted, a finaliser  *)
(* carries them once it has read the hash, and the row has them at the end. *)
Carried ==
  /\ \A l \in Lessons : phase[l] \in {"open", "snapped"} => AtLeast(beats[l], earned[l])
  /\ \A r \in Requests : req[r].on \in Lessons /\ req[r].pc \in Finalising =>
       /\ phase[req[r].on] # "open"
       /\ phase[req[r].on] # "spoiled" => AtLeast(req[r].att, earned[req[r].on])
  /\ \A l \in Lessons : status[l] = "ended" =>
       /\ phase[l] # "open"
       /\ phase[l] # "spoiled" => AtLeast(summary[l], earned[l])

(* Steps that leave alone what Carried speaks of, but for one request that  *)
(* does not enter the finaliser's stages.                                   *)
Bystander(r) ==
  /\ UNCHANGED <<status, summary, beats, earned, phase>>
  /\ Others(r)
  /\ req'[r].on \in Lessons /\ req'[r].pc \in Finalising =>
       /\ req'[r].on = req[r].on /\ req'[r].att = req[r].att
       /\ req[r].pc \in Finalising

LEMMA BystanderKeeps ==
  ASSUME Carried, NEW r \in Requests, Bystander(r)
  PROVE  Carried'
  <1>1. /\ \A l \in Lessons : phase'[l] = phase[l] /\ beats'[l] = beats[l]
             /\ earned'[l] = earned[l] /\ status'[l] = status[l] /\ summary'[l] = summary[l]
        /\ \A o \in Requests \ {r} : req'[o] = req[o]
    BY DEF Bystander, Others
  <1> QED BY <1>1 DEF Carried, Bystander, AtLeast

LEMMA CarriedStep ==
  ASSUME LifeInv, Carried, [Next]_vars
  PROVE  Carried'
  <1> USE DEF LifeInv
  <1>a. \A r \in Requests : req[r] \in Request
    BY DEF TypeOK
  <1>1. ASSUME NEW r \in Requests, Arrivals(r) PROVE Carried'
    <2>1. NoLesson \notin Lessons
      BY LessonAssumption DEF LessonAssumption
    <2>2. /\ Others(r) /\ UNCHANGED <<db, redis, history>>
          /\ req'[r].pc \in {"insert", "seen", "snapshot", "beat"}
          /\ req'[r].pc # "insert" \/ req'[r].on = NoLesson
      BY <1>1, ArrivalsEffect
    <2>3. UNCHANGED <<status, summary, beats, earned, phase>>
      BY <2>2 DEF db, redis, history
    <2>4. Bystander(r)
      BY <2>1, <2>2, <2>3 DEF Bystander, Finalising
    <2> QED BY <2>4, BystanderKeeps
  <1>2. ASSUME NEW r \in Requests, Finish(r), UNCHANGED <<status, summary, beats, earned, phase>>
        PROVE Carried'
    BY <1>2, FinishEffect, BystanderKeeps DEF Bystander, Finalising, Idle
  <1>3. ASSUME NEW r \in Requests, NEW step \in Steps, Goto(r, step),
               step \in Finalising => req[r].pc \in Finalising \/ req[r].on = NoLesson,
               UNCHANGED <<status, summary, beats, earned, phase>>
        PROVE Carried'
    <2>1. NoLesson \notin Lessons
      BY LessonAssumption DEF LessonAssumption
    <2>2. Bystander(r)
      BY <1>3, <2>1, GotoEffect DEF Bystander, Same
    <2> QED BY <2>2, BystanderKeeps
  <1>4. ASSUME NEW r \in Requests, ProbeSeen(r) PROVE Carried'
    BY <1>4, <1>2, <1>3 DEF ProbeSeen, Steps, Finalising, db, redis, history
  <1>5. ASSUME NEW r \in Requests, ProbeGrace(r) PROVE Carried'
    BY <1>5, <1>2, <1>3 DEF ProbeGrace, Steps, Finalising, db, history
  <1>6. ASSUME NEW r \in Requests, Snapshot(r) PROVE Carried'
    <2> DEFINE l == req[r].on
    <2>1. /\ l \in Lessons /\ req'[r].on = l /\ req'[r].att = beats[l] /\ Others(r)
      BY <1>6, SnapshotEffect DEF Same
    <2>2. /\ UNCHANGED <<status, summary, beats, earned>>
          /\ phase' = [phase EXCEPT ![l] = IF phase[l] \in {"open", "snapped"}
                                           THEN "snapped" ELSE "spoiled"]
      BY <1>6 DEF Snapshot, db, redis
    <2>3. \A m \in Lessons :
            /\ phase'[m] # "open" \/ phase'[m] = phase[m]
            /\ phase'[m] = "snapped" => phase[m] \in {"open", "snapped"}
            /\ phase'[m] # "spoiled" => phase[m] # "spoiled"
      BY <2>1, <2>2 DEF TypeOK
    <2>4. phase'[l] # "open" /\ (phase'[l] # "spoiled" => phase[l] \in {"open", "snapped"})
      BY <2>1, <2>2 DEF TypeOK
    <2>5. \A m \in Lessons : phase[m] # "open" => phase'[m] # "open"
      BY <2>1, <2>2 DEF TypeOK
    <2>6. phase'[l] # "spoiled" => AtLeast(req'[r].att, earned[l])
      BY <2>1, <2>4 DEF Carried
    <2> HIDE DEF l
    <2> QED BY <2>1, <2>2, <2>3, <2>4, <2>5, <2>6 DEF Carried, Others, AtLeast
  <1>7. ASSUME NEW r \in Requests, MarkAttendance(r) PROVE Carried'
    <2>1. Bystander(r)
      <3>1. UNCHANGED <<status, summary, beats, earned, phase>> /\ req[r].pc = "mark"
        BY <1>7 DEF MarkAttendance, At, db, redis, history
      <3> QED BY <1>7, <3>1, MarkEffect DEF Bystander, Same, Finalising
    <2> QED BY <2>1, BystanderKeeps
  <1>8. ASSUME NEW r \in Requests, FlushAttendance(r) \/ LockLesson(r) PROVE Carried'
    BY <1>8, <1>3 DEF FlushAttendance, LockLesson, At, Steps, Finalising, db, redis, history
  <1>9. ASSUME NEW r \in Requests, Wipe(r) PROVE Carried'
    <2> DEFINE l == req[r].on
    <2>1. PICK step \in {"insert", "commit"} : Goto(r, step)
      BY <1>9 DEF Wipe
    <2>2. req'[r].on = l /\ req'[r].att = req[r].att /\ Others(r) /\ req[r].pc = "wipe"
      BY <1>9, <2>1, GotoEffect DEF Steps, Same, Wipe, At
    <2>3. l \in Lessons
      BY <1>a, <2>2 DEF Stages, Request, MaybeLesson
    <2>4. /\ UNCHANGED <<status, summary, earned>>
          /\ beats' = [beats EXCEPT ![l] = NoBeats]
          /\ phase' = [phase EXCEPT ![l] = IF phase[l] = "spoiled" THEN "spoiled" ELSE "wiped"]
      BY <1>9 DEF Wipe, db
    <2>5. /\ phase'[l] \notin {"open", "snapped"}
          /\ phase'[l] = "spoiled" <=> phase[l] = "spoiled"
          /\ \A m \in Lessons \ {l} : phase'[m] = phase[m] /\ beats'[m] = beats[m]
      BY <2>3, <2>4 DEF TypeOK
    <2>6. \A m \in Lessons : /\ phase'[m] \in {"open", "snapped"} =>
                                  m # l /\ phase[m] = phase'[m] /\ beats'[m] = beats[m]
                             /\ phase[m] # "open" => phase'[m] # "open"
                             /\ phase'[m] # "spoiled" => phase[m] # "spoiled"
      BY <2>5
    <2>7. /\ \A o \in Requests : req'[o].on = req[o].on /\ req'[o].att = req[o].att
          /\ \A o \in Requests : req'[o].pc \in Finalising => req[o].pc \in Finalising
      BY <2>2 DEF Others, Finalising
    <2> HIDE DEF l
    <2> QED BY <2>4, <2>6, <2>7 DEF Carried, AtLeast
  <1>10. ASSUME NEW r \in Requests, InsertLesson(r) PROVE Carried'
    <2>1. Bystander(r)
      <3>1. UNCHANGED <<status, summary, beats, earned, phase>> /\ req[r].pc = "insert"
        BY <1>10 DEF InsertLesson, At, db, redis, history
      <3> QED BY <1>10, <3>1, InsertEffect DEF Bystander, Same, Finalising
    <2> QED BY <2>1, BystanderKeeps
  <1>11. ASSUME NEW r \in Requests, RefuseLesson(r) PROVE Carried'
    BY <1>11, <1>2 DEF RefuseLesson, db, redis, history
  <1>12. ASSUME NEW r \in Requests, SeedRedis(r) PROVE Carried'
    BY <1>12, <1>3 DEF SeedRedis, At, Steps, Finalising, db, history
  <1>13. ASSUME NEW r \in Requests, Commit(r) PROVE Carried'
    <2> DEFINE l == req[r].on
    <2>1. /\ req'[r] = Idle /\ Others(r) /\ l \in MaybeLesson
          /\ \A m \in Lessons : status'[m] = "ended" => m = l \/ status[m] = "ended"
      BY <1>13, CommitEffect
    <2>2. /\ \A m \in Lessons : summary'[m] = IF m = l THEN req[r].att ELSE summary[m]
          /\ UNCHANGED <<beats, earned, phase>> /\ req[r].pc = "commit"
      BY <1>13 DEF Commit, At, redis, history
    <2>3. Idle.on = NoLesson /\ NoLesson \notin Lessons
      BY LessonAssumption DEF Idle, LessonAssumption
    <2>4. l \in Lessons =>
            /\ phase[l] # "open"
            /\ phase[l] # "spoiled" => AtLeast(req[r].att, earned[l])
      BY <2>2 DEF Carried, Finalising
    <2> HIDE DEF l
    <2> QED BY <2>1, <2>2, <2>3, <2>4 DEF Carried, Others, AtLeast
  <1>14. ASSUME NEW r \in Requests, BeatTeacher(r) PROVE Carried'
    BY <1>14, <1>2 DEF BeatTeacher, db, history
  <1>15. ASSUME NEW r \in Requests, BeatStudent(r) PROVE Carried'
    <2> DEFINE l == req[r].on
               s == req[r].who
    <2>1. /\ req'[r] = Idle /\ Others(r) /\ UNCHANGED <<status, summary, phase>>
          /\ l \in Lessons /\ s \in Students
      BY <1>15, <1>a, FinishEffect DEF BeatStudent, Stages, At, Request, MaybeLesson, db
    <2>2. /\ beats' = [beats EXCEPT ![l] = [beats[l] EXCEPT ![s] = beats[l][s] + 1]]
          /\ earned' = IF phase[l] = "open"
                       THEN [earned EXCEPT ![l] = [earned[l] EXCEPT ![s] = earned[l][s] + 1]]
                       ELSE earned
      BY <1>15, <2>1 DEF BeatStudent, TypeOK
    <2>3. /\ \A m \in Lessons : beats[m] \in [Students -> Nat] /\ earned[m] \in [Students -> Nat]
          /\ beats' = [beats EXCEPT ![l] = beats'[l]]
          /\ beats'[l] = [beats[l] EXCEPT ![s] = beats[l][s] + 1]
      BY <2>1, <2>2 DEF TypeOK
    <2>4. \A m \in Lessons \ {l} : beats'[m] = beats[m] /\ earned'[m] = earned[m]
      BY <2>1, <2>2 DEF TypeOK
    <2>5. phase[l] # "open" => earned' = earned
      BY <2>2
    <2>6. phase[l] = "open" => earned'[l] = [earned[l] EXCEPT ![s] = earned[l][s] + 1]
      BY <2>1, <2>2 DEF TypeOK
    <2>7. phase[l] \in {"open", "snapped"} => AtLeast(beats'[l], earned'[l])
      <3> SUFFICES ASSUME phase[l] \in {"open", "snapped"}, NEW t \in Students
                   PROVE  beats'[l][t] >= earned'[l][t]
        BY DEF AtLeast
      <3>1. beats[l][t] >= earned[l][t] /\ beats[l][t] \in Nat /\ earned[l][t] \in Nat
        BY <2>1, <2>3 DEF Carried, AtLeast
      <3> QED BY <2>1, <2>3, <2>5, <2>6, <3>1
    <2>8. Idle.on = NoLesson /\ NoLesson \notin Lessons
      BY LessonAssumption DEF Idle, LessonAssumption
    <2>9. \A m \in Lessons : phase[m] # "open" => earned'[m] = earned[m]
      BY <2>4, <2>5
    <2> HIDE DEF l, s
    <2> QED BY <2>1, <2>4, <2>7, <2>8, <2>9 DEF Carried, Others, AtLeast
  <1>16. ASSUME NEW r \in Requests, Abort(r) PROVE Carried'
    BY <1>16, <1>2 DEF Abort, db, redis
  <1>17. CASE RedisRestart
    <2>1. UNCHANGED <<status, summary, earned, req>>
      BY <1>17 DEF RedisRestart, db
    <2>2. \A m \in Lessons : /\ phase'[m] \notin {"open", "snapped"}
                             /\ phase'[m] = "spoiled" <=> phase[m] = "spoiled"
      BY <1>17 DEF RedisRestart, TypeOK
    <2> QED BY <2>1, <2>2 DEF Carried, AtLeast
  <1>18. CASE UNCHANGED <<status, summary, beats, earned, phase, req>>
    BY <1>18 DEF Carried, AtLeast
  <1>19. CASE Environment \/ UNCHANGED vars
    BY <1>17, <1>18, <1>19 DEF Environment, SeenExpires,
       GraceExpires, vars, db, redis, history
  <1> QED BY <1>1, <1>4, <1>5, <1>6, <1>7, <1>8, <1>9, <1>10, <1>11, <1>12, <1>13,
             <1>14, <1>15, <1>16, <1>19 DEF Next, Handle

(* The register keeps every beat acknowledged before the lesson's first     *)
(* finaliser read the hash, unless a finaliser read it after it was deleted. *)
THEOREM BeatsAreKept == Spec => []AttendanceKept
  <1>1. Init => Carried
    BY LessonAssumption DEF Init, Carried, AtLeast, NoBeats, Idle, LessonAssumption
  <1>2. LifeInv /\ Carried /\ [Next]_vars => Carried'
    BY CarriedStep
  <1>3. Carried => AttendanceKept
    BY DEF Carried, AttendanceKept, AtLeast, TypeOK
  <1> QED BY LifeInvHolds, <1>1, <1>2, <1>3, PTL DEF Spec

-----------------------------------------------------------------------------
(* The refinement                                                           *)

GroupCurrent == IF ActiveRows = {} THEN NoLesson ELSE CHOOSE l \in ActiveRows : TRUE

LEMMA CurrentIs ==
  ASSUME OneActiveLesson, NEW l \in ActiveRows
  PROVE  GroupCurrent = l /\ ActiveRows = {l}
  BY DEF OneActiveLesson, GroupCurrent

LEMMA CommitRefines ==
  ASSUME LifeInv, LifeInv', NEW r \in Requests, Commit(r)
  PROVE  [Group!GroupNext]_<<GroupCurrent, {l \in Lessons : status[l] = "ended"}>>
  <1> DEFINE done == {l \in Lessons : status[l] = "ended"}
             on == req[r].on
             new == req[r].fresh
  <1>0. NoLesson \notin Lessons
    BY LessonAssumption DEF LessonAssumption
  <1>1. /\ on \in MaybeLesson /\ new \in MaybeLesson
        /\ on = new => on = NoLesson
        /\ \A l \in Lessons : status'[l] = IF l = new THEN "active"
                                           ELSE IF l = on THEN "ended" ELSE status[l]
    BY CommitEffect
  <1>2. new # NoLesson => status[new] = "none" /\ ActiveRows \subseteq {on}
    BY DEF LifeInv, FreshRow
  <1>3. on # NoLesson => status[on] # "none"
    BY DEF LifeInv, Stages
  <1>4. status \in [Lessons -> {"none", "active", "ended"}]
    BY DEF LifeInv, TypeOK
  <1>5. /\ \A l \in ActiveRows : GroupCurrent = l /\ ActiveRows = {l}
        /\ ActiveRows = {} => GroupCurrent = NoLesson
    BY CurrentIs DEF LifeInv, GroupCurrent
  <1>6. /\ \A l \in ActiveRows' : GroupCurrent' = l /\ ActiveRows' = {l}
        /\ ActiveRows' = {} => GroupCurrent' = NoLesson
    BY DEF LifeInv, GroupCurrent, OneActiveLesson
  <1>7. \A l \in Lessons : (l \in ActiveRows <=> status[l] = "active")
                        /\ (l \in ActiveRows' <=> status'[l] = "active")
    BY DEF ActiveRows
  <1>8. ActiveRows \subseteq Lessons /\ ActiveRows' \subseteq Lessons
    BY DEF ActiveRows
  <1> HIDE DEF on, new
  <1>9. CASE new = NoLesson /\ on \in ActiveRows
    <2>1. GroupCurrent = on /\ ActiveRows = {on} /\ on \in Lessons
      BY <1>5, <1>8, <1>9
    <2>2. ActiveRows' = {}
      BY <1>0, <1>1, <1>7, <1>8, <1>9, <2>1
    <2>3. done' = done \cup {on}
      BY <1>0, <1>1, <1>9, <2>1
    <2> QED BY <1>0, <1>6, <2>1, <2>2, <2>3 DEF Group!GroupNext, Group!Close
  <1>10. CASE new = NoLesson /\ on \notin ActiveRows
    <2>1. \A l \in Lessons : status'[l] = status[l]
      BY <1>0, <1>1, <1>3, <1>4, <1>7, <1>10
    <2>2. ActiveRows' = ActiveRows /\ done' = done
      BY <2>1 DEF ActiveRows
    <2> QED BY <1>5, <1>6, <2>2
  <1>11. CASE new # NoLesson /\ on \in ActiveRows
    <2>1. GroupCurrent = on /\ on \in Lessons /\ new \in Lessons /\ new # on
      BY <1>1, <1>5, <1>8, <1>11 DEF MaybeLesson
    <2>2. GroupCurrent' = new
      BY <1>1, <1>6, <1>7, <2>1
    <2>3. done' = done \cup {on} /\ new \notin done
      BY <1>1, <1>2, <1>11, <2>1
    <2>4. PICK l \in Lessons : l = new
      BY <2>1
    <2>5. Group!Replace(l)
      BY <1>0, <2>1, <2>2, <2>3, <2>4 DEF Group!Replace, GroupCurrent
    <2> QED BY <2>5 DEF Group!GroupNext
  <1>12. CASE new # NoLesson /\ on \notin ActiveRows
    <2>1. ActiveRows = {} /\ new \in Lessons
      BY <1>1, <1>2, <1>12 DEF MaybeLesson
    <2>2. GroupCurrent = NoLesson /\ GroupCurrent' = new
      BY <1>1, <1>5, <1>6, <1>7, <2>1
    <2>3. \A l \in Lessons : status'[l] = IF l = new THEN "active" ELSE status[l]
      BY <1>0, <1>1, <1>3, <1>4, <1>7, <1>12
    <2>4. done' = done /\ new \notin done
      BY <1>2, <1>12, <2>1, <2>3
    <2>5. Group!Begin(new)
      BY <2>1, <2>2, <2>4 DEF Group!Begin, GroupCurrent
    <2> QED BY <2>1, <2>5 DEF Group!GroupNext
  <1> QED BY <1>9, <1>10, <1>11, <1>12

(* The rows of a group's lessons implement one lesson at a time.            *)
THEOREM GroupRefinement == Spec => ImplementsGroupLesson
  <1> DEFINE done == {l \in Lessons : status[l] = "ended"}
  <1>1. Init => Group!GroupInit
    <2> SUFFICES ASSUME Init PROVE Group!GroupInit
      OBVIOUS
    <2>1. \A l \in Lessons : status[l] = "none"
      BY DEF Init
    <2> QED BY <2>1 DEF Group!GroupInit, ActiveRows
  <1>2. LifeInv /\ LifeInv' /\ [Next]_vars => [Group!GroupNext]_<<GroupCurrent, done>>
    <2> SUFFICES ASSUME LifeInv, LifeInv', [Next]_vars
                 PROVE  [Group!GroupNext]_<<GroupCurrent, done>>
      OBVIOUS
    <2>1. CASE UNCHANGED status
      BY <2>1 DEF GroupCurrent, ActiveRows
    <2>2. ASSUME NEW r \in Requests, Commit(r)
          PROVE  [Group!GroupNext]_<<GroupCurrent, done>>
      BY <2>2, CommitRefines
    <2> QED BY <2>1, <2>2, StepMoves DEF Moved
  <1> QED BY LifeInvHolds, <1>1, <1>2, PTL DEF Spec, ImplementsGroupLesson, Group!GroupSpec, GroupCurrent
-----------------------------------------------------------------------------
(* RegisterMatchesSummary                                                   *)

(* From the select of the records until it closes.                          *)
Marked(r) == HoldsRecords(r) \/ At(r, "write")

(* The attendance rows a finaliser has found stay there: rows are added by  *)
(* commits and never taken away.  It inserts where it has found none.       *)
RowsStand ==
  \A r \in Requests :
    /\ Marked(r) => \A s \in Students :
         \/ req[r].row[s] \in 1..Len(records[s])
         \/ req[r].row[s] = 0 /\ s \in req[r].writes
    /\ ~Marked(r) => req[r].writes = {}

LEMMA WrittenRow ==
  ASSUME NEW rows \in Seq({"present", "absent"}), NEW v \in {"present", "absent"},
         NEW i \in Nat, i = 0 \/ i \in 1..Len(rows)
  PROVE  /\ Len(Written(rows, i, v)) >= Len(rows)
         /\ \E j \in DOMAIN Written(rows, i, v) : Written(rows, i, v)[j] = v
  <1>0. Len(rows) \in Nat
    BY LenProperties
  <1>1. CASE i = 0
    <2>1. /\ Written(rows, i, v) = Append(rows, v)
          /\ Len(Append(rows, v)) = Len(rows) + 1
          /\ Append(rows, v)[Len(rows) + 1] = v
          /\ DOMAIN Append(rows, v) = 1..(Len(rows) + 1)
      BY <1>1, AppendProperties, LenProperties DEF Written
    <2> QED BY <1>0, <2>1
  <1>2. CASE i # 0
    <2>1. /\ Written(rows, i, v) = [rows EXCEPT ![i] = v]
          /\ Len([rows EXCEPT ![i] = v]) = Len(rows)
          /\ [rows EXCEPT ![i] = v][i] = v
          /\ i \in DOMAIN [rows EXCEPT ![i] = v]
      BY <1>2, ExceptSeq DEF Written
    <2> QED BY <1>0, <2>1
  <1> QED BY <1>1, <1>2

(* A step of r that writes no records and looks for none.                   *)
KeepsRows(r) ==
  /\ UNCHANGED records
  /\ Others(r)
  /\ Marked(r)' => Marked(r) /\ Same(r, {"on", "att", "row", "writes"})
  /\ ~Marked(r)' => req'[r].writes = {}

LEMMA KeepsRowsStep ==
  ASSUME RowsStand, NEW r \in Requests, KeepsRows(r)
  PROVE  RowsStand'
  <1>1. \A o \in Requests \ {r} : req'[o] = req[o] /\ (Marked(o)' <=> Marked(o))
    BY DEF KeepsRows, Others, Marked, HoldsRecords, HoldsLesson, At
  <1>2. Marked(r)' => Marked(r) /\ req'[r].row = req[r].row /\ req'[r].writes = req[r].writes
    BY DEF KeepsRows, Same
  <1> QED BY <1>1, <1>2 DEF RowsStand, KeepsRows

LEMMA MarkRows ==
  ASSUME LifeInv, RowsStand, NEW r \in Requests, MarkAttendance(r)
  PROVE  RowsStand'
  <1>0. Others(r) /\ UNCHANGED records /\ req[r].att \in [Students -> Nat]
    BY MarkEffect DEF MarkAttendance, db, LifeInv, TypeOK, Request
  <1>1. ASSUME NEW s \in Students
        PROVE  \/ req'[r].row[s] \in 1..Len(records[s])
               \/ req'[r].row[s] = 0 /\ s \in req'[r].writes
    <2>1. /\ req'[r].row[s] \in (IF records[s] = <<>> THEN {0} ELSE DOMAIN records[s])
          /\ req'[r].writes = Changed(req'[r].row, req[r].att)
      BY MarkEffect DEF LifeInv
    <2>2. DOMAIN records[s] = 1..Len(records[s])
      BY LenProperties DEF LifeInv, TypeOK
    <2> QED BY <2>1, <2>2 DEF Changed
  <1>2. Marked(r)'
    BY MarkEffect DEF Marked, At, LifeInv
  <1>3. \A o \in Requests \ {r} : req'[o] = req[o] /\ (Marked(o)' <=> Marked(o))
    BY <1>0 DEF Others, Marked, HoldsRecords, HoldsLesson, At
  <1> QED BY <1>0, <1>1, <1>2, <1>3 DEF RowsStand

(* What a commit does to the register: it writes only what its transaction  *)
(* has changed, and no record goes.                                         *)
LEMMA CommitRecords ==
  ASSUME LifeInv, RowsStand, NEW r \in Requests, Commit(r), NEW s \in Students
  PROVE  /\ Len(records'[s]) \in Nat /\ Len(records[s]) \in Nat
         /\ Len(records'[s]) >= Len(records[s])
         /\ records'[s] # records[s] => req[r].on # NoLesson
         /\ s \in req[r].writes => \E j \in DOMAIN records'[s] :
               records'[s][j] = Verdict(req[r].att[s])
         /\ s \notin req[r].writes => records'[s] = records[s]
  <1> DEFINE v == Verdict(req[r].att[s])
             i == req[r].row[s]
  <1>0. records[s] \in Seq({"present", "absent"}) /\ Len(records[s]) \in Nat
    BY LenProperties DEF LifeInv, TypeOK
  <1>1. CASE s \notin req[r].writes
    <2>1. records'[s] = records[s]
      BY <1>1 DEF Commit
    <2> QED BY <1>0, <1>1, <2>1
  <1>2. CASE s \in req[r].writes
    <2>1. Marked(r) /\ req[r].on # NoLesson
      BY <1>2 DEF RowsStand, Marked, HoldsRecords, HoldsLesson, Commit, At
    <2>2. i \in Nat /\ (i = 0 \/ i \in 1..Len(records[s]))
      BY <2>1 DEF RowsStand, LifeInv, TypeOK, Request
    <2>3. records'[s] = Written(records[s], i, v)
      BY <1>2 DEF Commit
    <2>4. v \in {"present", "absent"}
      BY DEF Verdict
    <2> HIDE DEF v, i
    <2>5. /\ Len(Written(records[s], i, v)) >= Len(records[s])
          /\ \E j \in DOMAIN Written(records[s], i, v) : Written(records[s], i, v)[j] = v
      BY <1>0, <2>2, <2>4, WrittenRow
    <2>6. Len(records'[s]) \in Nat
      <3>1. Written(records[s], i, v) \in Seq({"present", "absent"})
        BY <1>0, <2>2, <2>4, WrittenType
      <3> QED BY <2>3, <3>1, LenProperties
    <2>7. \E j \in DOMAIN records'[s] : records'[s][j] = v
      BY <2>3, <2>5
    <2> QED BY <1>0, <1>2, <2>1, <2>3, <2>5, <2>6, <2>7 DEF v
  <1> QED BY <1>1, <1>2

LEMMA CommitRows ==
  ASSUME LifeInv, RowsStand, NEW r \in Requests, Commit(r)
  PROVE  RowsStand'
  <1>1. req'[r] = Idle /\ Others(r)
    BY CommitEffect
  <1>2. ~Marked(r)' /\ req'[r].writes = {}
    BY <1>1 DEF Marked, HoldsRecords, HoldsLesson, At, Idle
  <1>3. \A o \in Requests \ {r} : req'[o] = req[o] /\ (Marked(o)' <=> Marked(o))
    BY <1>1 DEF Others, Marked, HoldsRecords, HoldsLesson, At
  <1>4. ASSUME NEW o \in Requests \ {r}, Marked(o)', NEW s \in Students
        PROVE  \/ req'[o].row[s] \in 1..Len(records'[s])
               \/ req'[o].row[s] = 0 /\ s \in req'[o].writes
    <2>1. \/ req[o].row[s] \in 1..Len(records[s])
          \/ req[o].row[s] = 0 /\ s \in req[o].writes
      BY <1>3, <1>4 DEF RowsStand
    <2>2. Len(records'[s]) \in Nat /\ Len(records[s]) \in Nat /\ Len(records'[s]) >= Len(records[s])
      BY CommitRecords
    <2> QED BY <1>3, <2>1, <2>2
  <1> QED BY <1>2, <1>3, <1>4 DEF RowsStand

(* Every step keeps the rows, looks for them or commits them.               *)
LEMMA RowsCases ==
  ASSUME LifeInv, RowsStand, [Next]_vars
  PROVE  \/ \E r \in Requests : KeepsRows(r) \/ MarkAttendance(r) \/ Commit(r)
         \/ UNCHANGED <<req, records>>
  <1> USE DEF LifeInv, Marked, HoldsRecords, HoldsLesson, At
  <1>1. ASSUME NEW r \in Requests, Arrivals(r) PROVE KeepsRows(r)
    BY <1>1, ArrivalsEffect DEF KeepsRows, db
  <1>2. ASSUME NEW r \in Requests, Finish(r), UNCHANGED records PROVE KeepsRows(r)
    BY <1>2, FinishEffect DEF KeepsRows, Idle
  <1>3. ASSUME NEW r \in Requests, NEW step \in Steps, Goto(r, step), UNCHANGED records,
               step \in {"write", "lock", "wipe", "insert", "seed", "commit"}
                 => Marked(r) \/ (req[r].on = NoLesson /\ step \in {"seed", "commit"}),
               step \notin {"write", "lock", "wipe", "insert", "seed", "commit"} => ~Marked(r)
        PROVE  KeepsRows(r)
    <2>1. /\ Others(r) /\ req'[r].pc = step
          /\ \A f \in {"on", "att", "row", "writes"} : req'[r][f] = req[r][f]
      BY <1>3, GotoEffect DEF Same
    <2>2. Marked(r)' => Marked(r)
      BY <1>3, <2>1
    <2>3. ~Marked(r)' => ~Marked(r)
      BY <1>3, <2>1 DEF Stages
    <2>4. ~Marked(r)' => req'[r].writes = {}
      BY <2>1, <2>3 DEF RowsStand
    <2> HIDE DEF Marked
    <2> QED BY <1>3, <2>1, <2>2, <2>4 DEF KeepsRows, Same
  <1>4. ASSUME NEW r \in Requests, ProbeSeen(r) \/ ProbeGrace(r) PROVE KeepsRows(r)
    BY <1>4, <1>2, <1>3 DEF ProbeSeen, ProbeGrace, Steps, db
  <1>5. ASSUME NEW r \in Requests, Snapshot(r) PROVE KeepsRows(r)
    <2>1. UNCHANGED records /\ ~Marked(r)
      BY <1>5 DEF Snapshot, db
    <2> QED BY <1>5, <2>1, SnapshotEffect DEF KeepsRows, Same, RowsStand
  <1>6. ASSUME NEW r \in Requests, FlushAttendance(r) PROVE KeepsRows(r)
    <2>1. Goto(r, "lock") /\ UNCHANGED records /\ Marked(r)
      BY <1>6 DEF FlushAttendance, db
    <2> HIDE DEF Marked
    <2> QED BY <2>1, <1>3 DEF Steps
  <1>7. ASSUME NEW r \in Requests, LockLesson(r) PROVE KeepsRows(r)
    <2>1. Goto(r, "wipe") /\ UNCHANGED records /\ Marked(r)
      BY <1>7 DEF LockLesson, db
    <2> HIDE DEF Marked
    <2> QED BY <2>1, <1>3 DEF Steps
  <1>8. ASSUME NEW r \in Requests, Wipe(r) PROVE KeepsRows(r)
    <2>1. PICK step \in {"insert", "commit"} : Goto(r, step)
      BY <1>8 DEF Wipe
    <2>2. Marked(r) /\ UNCHANGED records
      BY <1>8 DEF Wipe, Stages, db
    <2> HIDE DEF Marked
    <2> QED BY <2>1, <2>2, <1>3 DEF Steps
  <1>9. ASSUME NEW r \in Requests, InsertLesson(r) PROVE KeepsRows(r)
    <2>1. UNCHANGED records /\ req[r].pc = "insert"
      BY <1>9 DEF InsertLesson, db
    <2> QED BY <1>9, <2>1, InsertEffect DEF KeepsRows, Same, RowsStand
  <1>10. ASSUME NEW r \in Requests, SeedRedis(r) PROVE KeepsRows(r)
    BY <1>10, <1>3 DEF SeedRedis, Steps, db
  <1>11. ASSUME NEW r \in Requests,
                RefuseLesson(r) \/ BeatTeacher(r) \/ BeatStudent(r) \/ Abort(r)
         PROVE  KeepsRows(r)
    BY <1>11, <1>2 DEF RefuseLesson, BeatTeacher, BeatStudent, Abort, db
  <1>12. CASE Environment \/ UNCHANGED vars
    BY <1>12 DEF Environment, SeenExpires, GraceExpires, RedisRestart, vars, db
  <1> QED
    BY <1>1, <1>4, <1>5, <1>6, <1>7, <1>8, <1>9, <1>10, <1>11, <1>12 DEF Next, Handle

LEMMA RowsStep ==
  ASSUME LifeInv, RowsStand, [Next]_vars
  PROVE  RowsStand'
  <1>1. CASE UNCHANGED <<req, records>>
    BY <1>1 DEF RowsStand, Marked, HoldsRecords, HoldsLesson, At
  <1> QED BY <1>1, RowsCases, KeepsRowsStep, MarkRows, CommitRows

(* The transaction that ends a lesson leaves a record with the verdict, or  *)
(* was overtaken.                                                           *)
LEMMA EndingMatches ==
  ASSUME LifeInv, RowsStand, [Next]_vars,
         NEW l \in Lessons, status[l] = "active", status'[l] = "ended", NEW s \in Students
  PROVE  \/ \E i \in DOMAIN records'[s] :
              records'[s][i] = "present" <=> summary'[l][s] >= PresentBeats
         \/ \E r \in Requests : Closes(r) /\ req[r].on = l /\ Overtaken(r, s)
  <1>1. PICK r \in Requests : Commit(r)
    BY StepMoves DEF Moved
  <1>2. l = req[r].on /\ l # NoLesson
    BY <1>1, CommitEffect, LessonAssumption DEF LessonAssumption
  <1> DEFINE v == Verdict(req[r].att[s])
  <1>3. summary'[l] = req[r].att
    BY <1>1, <1>2 DEF Commit
  <1>4. v = "present" <=> summary'[l][s] >= PresentBeats
    BY <1>3 DEF Verdict
  <1>5. CASE s \in req[r].writes
    <2>1. PICK j \in DOMAIN records'[s] : records'[s][j] = v
      BY <1>1, <1>5, CommitRecords
    <2> QED BY <1>4, <2>1
  <1>6. CASE s \notin req[r].writes
    <2>1. HoldsRecords(r)
      BY <1>1, <1>2 DEF HoldsRecords, HoldsLesson, Commit, At
    <2>2. req[r].row[s] \in 1..Len(records[s])
      BY <1>6, <2>1 DEF RowsStand, Marked
    <2>3. records'[s] = records[s] /\ DOMAIN records[s] = 1..Len(records[s])
      BY <1>1, <1>6, CommitRecords, LenProperties DEF LifeInv, TypeOK
    <2>4. CASE records[s][req[r].row[s]] = v
      BY <1>4, <2>2, <2>3, <2>4
    <2>5. CASE records[s][req[r].row[s]] # v
      <3>1. Closes(r)
        BY <1>1, CommitEffect DEF Closes, Commit, Idle
      <3> QED BY <1>2, <1>6, <2>1, <2>5, <3>1 DEF Overtaken
    <2> QED BY <2>4, <2>5
  <1> QED BY <1>5, <1>6

(* While the lesson of a finaliser is active, only the commit of a late     *)
(* finaliser of an earlier lesson overtakes it.                             *)
LEMMA OvertakenBy ==
  ASSUME LifeInv, RowsStand, [Next]_vars, NEW r \in Requests, NEW s \in Students,
         ~Overtaken(r, s), Overtaken(r, s)', status'[req'[r].on] = "active"
  PROVE  \E o \in Requests \ {r} : Closes(o) /\ req[o].on # req[r].on
                                   /\ status[req[o].on] = "ended"
  <1>0. \A q \in Requests : Overtaken(q, s) <=>
          Marked(q) /\ s \notin req[q].writes
                    /\ records[s][req[q].row[s]] # Verdict(req[q].att[s])
    BY DEF Overtaken, Marked
  <1>1. /\ Marked(r)' /\ s \notin req'[r].writes
        /\ records'[s][req'[r].row[s]] # Verdict(req'[r].att[s])
    BY DEF Overtaken, Marked
  <1>2. ASSUME NEW q \in Requests, KeepsRows(q) PROVE FALSE
    <2>1. UNCHANGED records /\ Others(q)
      BY <1>2 DEF KeepsRows
    <2>2. Marked(r) /\ Same(r, {"att", "row", "writes"})
      BY <1>1, <1>2 DEF KeepsRows, Same, Others, Marked, HoldsRecords, HoldsLesson, At
    <2> QED BY <1>0, <1>1, <2>1, <2>2 DEF Same
  <1>3. ASSUME NEW q \in Requests, MarkAttendance(q) PROVE FALSE
    <2>1. /\ Others(q) /\ Same(q, {"att"}) /\ UNCHANGED records
          /\ req'[q].writes = Changed(req'[q].row, req[q].att)
      BY <1>3, MarkEffect DEF LifeInv, Same, MarkAttendance, db
    <2>2. CASE q = r
      BY <1>1, <2>1, <2>2 DEF Changed, Same
    <2>3. CASE q # r
      <3>1. req'[r] = req[r] /\ Marked(r)
        BY <1>1, <2>1, <2>3 DEF Others, Marked, HoldsRecords, HoldsLesson, At
      <3> QED BY <1>0, <1>1, <2>1, <3>1
    <2> QED BY <2>2, <2>3
  <1>4. ASSUME UNCHANGED <<req, records>> PROVE FALSE
    BY <1>0, <1>1, <1>4 DEF Marked, HoldsRecords, HoldsLesson, At
  <1>5. PICK o \in Requests : Commit(o)
    <2>1. PICK q \in Requests : KeepsRows(q) \/ MarkAttendance(q) \/ Commit(q)
      BY <1>4, RowsCases
    <2> QED BY <1>2, <1>3, <2>1
  <1>6. /\ req'[o] = Idle /\ Others(o)
        /\ \A l \in Lessons : status'[l] = IF l = req[o].fresh THEN "active"
                                           ELSE IF l = req[o].on THEN "ended" ELSE status[l]
        /\ req[o].on \in MaybeLesson
        /\ req[o].on = req[o].fresh => req[o].on = NoLesson
    BY <1>5, CommitEffect
  <1>7. o # r
    BY <1>1, <1>6 DEF Idle, Marked, HoldsRecords, HoldsLesson, At
  <1>8. req'[r] = req[r] /\ Marked(r)
    BY <1>1, <1>6, <1>7 DEF Others, Marked, HoldsRecords, HoldsLesson, At
  <1>9. req[o].on # NoLesson
    BY <1>0, <1>1, <1>5, <1>8, CommitRecords
  <1>10. req[o].on \in Lessons /\ status'[req[o].on] = "ended" /\ status[req[o].on] # "none"
    BY <1>6, <1>9 DEF MaybeLesson, LifeInv, Stages
  <1>11. req[r].on \in Lessons /\ status[req[r].on] # "none"
    BY <1>8 DEF Marked, HoldsRecords, HoldsLesson, At, LifeInv, Stages, TypeOK, Request, MaybeLesson
  <1>12. status[req[r].on] = "active"
    <2>1. req[o].fresh # NoLesson => status[req[o].fresh] = "none"
      BY DEF LifeInv, FreshRow
    <2> QED BY <1>6, <1>8, <1>11, <2>1, LessonAssumption DEF LessonAssumption
  <1>13. req[o].on # req[r].on
    BY <1>8, <1>10
  <1>14. status[req[o].on] = "ended"
    <2>1. status[req[o].on] \in {"none", "active", "ended"}
      BY <1>10 DEF LifeInv, TypeOK
    <2> QED BY <1>10, <1>11, <1>12, <1>13, <2>1 DEF LifeInv, OneActiveLesson, ActiveRows
  <1>15. Closes(o)
    BY <1>5, <1>6 DEF Closes, Commit, Idle
  <1> QED BY <1>7, <1>13, <1>14, <1>15

(* The register says what the summary says when a lesson ends, unless the   *)
(* record its finaliser found right was rewritten meanwhile, which only a   *)
(* late finaliser of an earlier lesson does (finalize_lesson), for any      *)
(* number of pupils and of finalisers in flight.                            *)
THEOREM RegisterHolds == Spec => RegisterMatchesSummary
  <1> DEFINE Matches ==
        /\ \A l \in Lessons, s \in Students :
             status[l] = "active" /\ status'[l] = "ended" =>
               \/ \E i \in DOMAIN records'[s] :
                    records'[s][i] = "present" <=> summary'[l][s] >= PresentBeats
               \/ \E r \in Requests : Closes(r) /\ req[r].on = l /\ Overtaken(r, s)
        /\ \A r \in Requests, s \in Students :
             ~Overtaken(r, s) /\ Overtaken(r, s)' /\ status'[req'[r].on] = "active" =>
               \E o \in Requests \ {r} : Closes(o) /\ req[o].on # req[r].on
                                         /\ status[req[o].on] = "ended"
  <1>1. Init => RowsStand
    BY DEF Init, RowsStand, Marked, HoldsRecords, HoldsLesson, At, Idle
  <1>2. LifeInv /\ RowsStand /\ [Next]_vars => RowsStand'
    BY RowsStep
  <1>3. LifeInv /\ RowsStand /\ [Next]_vars => [Matches]_vars
    BY EndingMatches, OvertakenBy
  <1> QED BY LifeInvHolds, <1>1, <1>2, <1>3, PTL DEF Spec, RegisterMatchesSummary
=============================================================================
