------------------------------ MODULE LiveLesson ------------------------------
(***************************************************************************)
(* The life of one student group's live lessons                            *)
(* (backend/app/live_lessons/service.py, router.py, realtime.py).          *)
(*                                                                         *)
(* A lesson is a row in PostgreSQL; attendance and the teacher's sign of   *)
(* life are Redis keys (the pupils' active_lesson pointers, which nothing  *)
(* here reads, are left out).  Every request runs in one database          *)
(* transaction (db/session.py get_db): its Redis writes are visible at     *)
(* once, its row writes only when the handler has returned and the session *)
(* commits.  A request that fails in between is rolled back in PostgreSQL  *)
(* and nowhere else.                                                       *)
(*                                                                         *)
(* A request is a sequence of steps, cut wherever the handler awaits Redis *)
(* or PostgreSQL and another request can change what it has read.          *)
(***************************************************************************)
EXTENDS Naturals, Sequences

CONSTANTS
  Lessons,        (* ids of live_lessons rows this group may ever have       *)
  Students,       (* members of the group                                    *)
  Requests,       (* requests that may be in flight at the same time         *)
  Teacher,        (* the lesson's teacher                                    *)
  NoLesson,
  PresentBeats,   (* ATTENDANCE_PRESENT_SECONDS / HEARTBEAT_SECONDS          *)
  MaxBeats,       (* bound: beats of one pupil before they stop coming       *)
  MaxRows,        (* bound: attendance rows per pupil for the day            *)
  MaxRestarts,    (* bound: losses of the Redis data                         *)
  MaxAborts       (* bound: requests that fail half way                      *)

ASSUME LessonAssumption ==
  /\ NoLesson \notin Lessons
  /\ Teacher \notin Students
  /\ {PresentBeats, MaxBeats, MaxRows, MaxRestarts, MaxAborts} \subseteq Nat
  /\ PresentBeats > 0

VARIABLES
  (* PostgreSQL, committed rows *)
  status,         (* LiveLesson.status; "none" while the row does not exist  *)
  summary,        (* attendance in LiveLesson.summary, counted in beats      *)
  records,        (* AttendanceRecord rows of (pupil, course, today)         *)
  (* Redis *)
  seen,           (* lessons whose teacher_seen key exists                   *)
  grace,          (* lessons whose teacher_grace key exists                  *)
  beats,          (* the attendance hash of each lesson                      *)
  (* requests in flight *)
  req,
  (* history and bounds *)
  earned,         (* beats acknowledged before a finaliser read them         *)
  phase,          (* what has happened to a lesson's attendance hash         *)
  restarts,
  aborts

db      == <<status, summary, records>>
redis   == <<seen, grace, beats>>
history == <<earned, phase, restarts, aborts>>
vars    == <<db, redis, req, history>>

Endpoints == {"start", "end", "active", "beat"}
Steps     == {"idle", "seen", "grace", "snapshot", "mark", "write", "lock", "wipe",
              "insert", "seed", "commit", "beat"}
People    == Students \cup {Teacher}
MaybeLesson == Lessons \cup {NoLesson}

NoBeats    == [s \in Students |-> 0]

(* Mutants: the threshold excludes its own value; a late mark.              *)
Verdict_Strict(n) == IF n > PresentBeats THEN "present" ELSE "absent"
Verdict_Late(n)   == IF n >= PresentBeats THEN "present" ELSE "late"

Verdict(n) == IF n >= PresentBeats THEN "present" ELSE "absent"
ActiveRows == {l \in Lessons : status[l] = "active"}

(* A request: the endpoint, its next step, the lesson row it has loaded,    *)
(* its caller, the attendance it has read, the attendance row it has found  *)
(* for each pupil (0 for none), the pupils whose row it inserts or changes, *)
(* and the lesson row it has inserted.                                      *)
Request == [pc: Steps, endpoint: Endpoints, on: MaybeLesson, who: People,
            att: [Students -> Nat], row: [Students -> Nat],
            writes: SUBSET Students, fresh: MaybeLesson]

Idle == [pc |-> "idle", endpoint |-> "end", on |-> NoLesson, who |-> Teacher,
         att |-> NoBeats, row |-> NoBeats, writes |-> {}, fresh |-> NoLesson]

Init ==
  /\ status = [l \in Lessons |-> "none"]
  /\ summary = [l \in Lessons |-> NoBeats]
  /\ records = [s \in Students |-> <<>>]
  /\ seen = {}
  /\ grace = {}
  /\ beats = [l \in Lessons |-> NoBeats]
  /\ req = [r \in Requests |-> Idle]
  /\ earned = [l \in Lessons |-> NoBeats]
  /\ phase = [l \in Lessons |-> "open"]
  /\ restarts = 0
  /\ aborts = 0

-----------------------------------------------------------------------------
(* Arrival: the endpoint authorises the caller and loads the lesson row.    *)

Arrive(r, endpoint, l, u, step) ==
  /\ req[r].pc = "idle"
  /\ req' = [req EXCEPT ![r] = [Idle EXCEPT !.pc = step, !.endpoint = endpoint,
                                            !.on = l, !.who = u]]
  /\ UNCHANGED <<db, redis, history>>

(* Bound: a start arrives only while a row id is left, and fails if another *)
(* start has used the last one meanwhile.                                   *)
SpareRow == \E l \in Lessons : status[l] = "none"

(* POST /live-lessons: look for the group's active lesson first.            *)
RequestStart(r) ==
  /\ SpareRow
  /\ \/ ActiveRows = {} /\ Arrive(r, "start", NoLesson, Teacher, "insert")
     \/ \E l \in ActiveRows : Arrive(r, "start", l, Teacher, "seen")

(* POST /live-lessons/{id}/end: finalises a lesson it has read as active.   *)
RequestEnd(r) == \E l \in ActiveRows : Arrive(r, "end", l, Teacher, "snapshot")

(* GET /live-lessons/{id}: an end too, if the lesson proves abandoned.      *)
RequestState(r) == \E l \in ActiveRows : Arrive(r, "end", l, Teacher, "seen")

(* GET /live-lessons/active for a pupil: probes the teacher, never ends.    *)
RequestActive(r) == \E l \in ActiveRows : Arrive(r, "active", l, Teacher, "seen")

(* POST /live-lessons/{id}/heartbeat.                                       *)
RequestBeat(r) ==
  \E l \in ActiveRows, u \in People :
    /\ u \in Students => beats[l][u] < MaxBeats
    /\ Arrive(r, "beat", l, u, "beat")

-----------------------------------------------------------------------------
At(r, step)   == req[r].pc = step
Goto(r, step) == req' = [req EXCEPT ![r].pc = step]
Finish(r)     == req' = [req EXCEPT ![r] = Idle]

(* teacher_stale: two reads, between which the teacher may beat.            *)
ProbeSeen(r) ==
  /\ At(r, "seen")
  /\ IF req[r].on \in seen THEN Finish(r) ELSE Goto(r, "grace")
  /\ UNCHANGED <<db, redis, history>>

ProbeGrace(r) ==
  /\ At(r, "grace")
  /\ grace' = grace \cup {req[r].on}
  /\ IF req[r].on \in grace /\ req[r].endpoint # "active"
     THEN Goto(r, "snapshot") ELSE Finish(r)
  /\ UNCHANGED <<db, seen, beats, history>>

-----------------------------------------------------------------------------
(* finalize_lesson                                                          *)

(* Mutant: the first beat announces the pupil and is not counted.           *)
Attendance_SkipFirst(l) ==
  [s \in Students |-> IF beats[l][s] > 0 THEN beats[l][s] - 1 ELSE 0]

(* hgetall of the attendance hash.                                          *)
Attendance(l) == beats[l]

Snapshot(r) ==
  /\ At(r, "snapshot")
  /\ req' = [req EXCEPT ![r].pc = "mark", ![r].att = Attendance(req[r].on)]
  /\ phase' = [phase EXCEPT ![req[r].on] =
                 IF @ \in {"open", "snapped"} THEN "snapped" ELSE "spoiled"]
  /\ UNCHANGED <<db, redis, earned, restarts, aborts>>

(* Mutant: the lesson is read FOR SHARE before it is updated, and each of   *)
(* two finalisers waits for the other to let go.                            *)
HoldsLesson_Shared(r) ==
  req[r].on # NoLesson /\ req[r].pc \in {"lock", "wipe", "insert", "seed", "commit"}

(* A finaliser holds the attendance rows it has written and the lesson row  *)
(* it has flushed as ended until its transaction closes.                    *)
HoldsLesson(r)  == req[r].on # NoLesson /\ req[r].pc \in {"wipe", "insert", "seed", "commit"}
HoldsRecords(r) == HoldsLesson(r) \/ At(r, "lock")

(* Mutant: a record that is there is taken for right.                       *)
Changed_Missing(row, att) == {s \in Students : row[s] = 0}

(* Assigning `existing.status` the value it was read with marks nothing as  *)
(* changed: no UPDATE follows, so no row lock is taken and none waited for. *)
Changed(row, att) ==
  {s \in Students : row[s] = 0 \/ records[s][row[s]] # Verdict(att[s])}

(* Select today's record of every member (all in one step here).  The       *)
(* select sees committed rows; of several, scalar() takes any.              *)
MarkAttendance(r) ==
  /\ At(r, "mark")
  /\ \E row \in [Students -> 0..MaxRows] :
       /\ \A s \in Students :
            row[s] \in (IF records[s] = <<>> THEN {0} ELSE DOMAIN records[s])
       /\ req' = [req EXCEPT ![r].pc = "write", ![r].row = row,
                             ![r].writes = Changed(row, req[r].att)]
  /\ UNCHANGED <<db, redis, history>>

SameRecord(r, o) ==
  \E s \in req[r].writes \cap req[o].writes : req[r].row[s] = req[o].row[s] /\ req[r].row[s] # 0

(* The session flushes what has changed before its next query.  An UPDATE   *)
(* waits for another transaction's update of the same row.                  *)
FlushAttendance(r) ==
  /\ At(r, "write")
  /\ \A o \in Requests \ {r} : HoldsRecords(o) => ~SameRecord(r, o)
  /\ Goto(r, "lock")
  /\ UNCHANGED <<db, redis, history>>

(* The next query flushes summary, status and ended_at: an UPDATE of the    *)
(* lesson row, which waits for another finaliser of the same lesson.        *)
LockLesson(r) ==
  /\ At(r, "lock")
  /\ \A o \in Requests \ {r} : HoldsLesson(o) => req[o].on # req[r].on
  /\ Goto(r, "wipe")
  /\ UNCHANGED <<db, redis, history>>

(* lesson_ended is published and the lesson's keys are deleted.             *)
Wipe(r) ==
  /\ At(r, "wipe")
  /\ beats' = [beats EXCEPT ![req[r].on] = NoBeats]
  /\ seen' = seen \ {req[r].on}
  /\ grace' = grace \ {req[r].on}
  /\ phase' = [phase EXCEPT ![req[r].on] = IF @ = "spoiled" THEN @ ELSE "wiped"]
  /\ Goto(r, IF req[r].endpoint = "start" THEN "insert" ELSE "commit")
  /\ UNCHANGED <<db, earned, restarts, aborts>>

-----------------------------------------------------------------------------
(* start_lesson, once no live lesson stands in the way                      *)

(* Mutants: no partial unique index; a start that revives the group's last  *)
(* lesson.                                                                  *)
IndexFree_NoIndex(r) == TRUE
Insertable_Revive(l) == status[l] # "active"

(* uq_live_lessons_active_group allows one active row per group.  Flushing   *)
(* a second one waits for a transaction that has inserted one or is ending  *)
(* the committed one, then fails if a committed one remains.                *)
IndexSettled(r) ==
  \A o \in Requests \ {r} :
    req[o].fresh = NoLesson /\ ~(HoldsLesson(o) /\ req[o].on \in ActiveRows)

IndexFree(r) == ActiveRows \subseteq {req[r].on}

Insertable(l) == status[l] = "none"

(* A new row has a new id; which one does not matter, so the model takes    *)
(* the ids in a fixed order.                                                *)
NewLesson == CHOOSE l \in Lessons : Insertable(l)

InsertLesson(r) ==
  /\ At(r, "insert")
  /\ IndexSettled(r) /\ IndexFree(r)
  /\ \E l \in Lessons : Insertable(l)
  /\ req' = [req EXCEPT ![r].pc = "seed", ![r].fresh = NewLesson]
  /\ UNCHANGED <<db, redis, history>>

RefuseLesson(r) ==
  /\ At(r, "insert")
  /\ IndexSettled(r)
  /\ ~IndexFree(r) \/ ~SpareRow
  /\ Finish(r)
  /\ UNCHANGED <<db, redis, history>>

(* Scene and teacher_seen are written before the row is committed.          *)
SeedRedis(r) ==
  /\ At(r, "seed")
  /\ seen' = seen \cup {req[r].fresh}
  /\ Goto(r, "commit")
  /\ UNCHANGED <<db, grace, beats, history>>

-----------------------------------------------------------------------------
(* get_db: commit when the handler has returned, roll back when it failed.  *)

Written(rows, i, v) == IF i = 0 THEN Append(rows, v) ELSE [rows EXCEPT ![i] = v]

Commit(r) ==
  LET q == req[r] IN
  /\ At(r, "commit")
  /\ status' = [l \in Lessons |-> IF l = q.fresh THEN "active"
                                  ELSE IF l = q.on THEN "ended" ELSE status[l]]
  /\ summary' = [l \in Lessons |-> IF l = q.on THEN q.att ELSE summary[l]]
  /\ records' = [s \in Students |->
                   IF s \in q.writes
                   THEN Written(records[s], q.row[s], Verdict(q.att[s]))
                   ELSE records[s]]
  /\ \A s \in Students : Len(records'[s]) <= MaxRows
  /\ Finish(r)
  /\ UNCHANGED <<redis, history>>

(* An exception anywhere in the handler or the end of the process: a media  *)
(* server that does not answer, a deadlock victim, a deploy.                *)
Abort(r) ==
  /\ req[r].pc # "idle"
  /\ aborts < MaxAborts
  /\ aborts' = aborts + 1
  /\ Finish(r)
  /\ UNCHANGED <<db, redis, earned, phase, restarts>>

-----------------------------------------------------------------------------
(* heartbeat: the lesson was active when its row was read; Redis is written *)
(* without looking again.                                                   *)

BeatTeacher(r) ==
  /\ At(r, "beat") /\ req[r].who = Teacher
  /\ seen' = seen \cup {req[r].on}
  /\ Finish(r)
  /\ UNCHANGED <<db, grace, beats, history>>

BeatStudent(r) ==
  LET l == req[r].on
      s == req[r].who IN
  /\ At(r, "beat") /\ s \in Students
  /\ beats' = [beats EXCEPT ![l][s] = @ + 1]
  /\ earned' = IF phase[l] = "open" THEN [earned EXCEPT ![l][s] = @ + 1] ELSE earned
  /\ Finish(r)
  /\ UNCHANGED <<db, seen, grace, phase, restarts, aborts>>

-----------------------------------------------------------------------------
(* The clock and the data store.  teacher_seen lives for 600 s and an open  *)
(* console renews it every 5 s: it runs out when the console has been       *)
(* closed or cut off for that long, which may be at any time.               *)

SeenExpires == \E l \in seen :
  /\ seen' = seen \ {l}
  /\ UNCHANGED <<db, grace, beats, req, history>>

GraceExpires == \E l \in grace :
  /\ grace' = grace \ {l}
  /\ UNCHANGED <<db, seen, beats, req, history>>

(* A restart of Redis loses every key (teacher_stale's comment).            *)
RedisRestart ==
  /\ restarts < MaxRestarts
  /\ restarts' = restarts + 1
  /\ seen' = {}
  /\ grace' = {}
  /\ beats' = [l \in Lessons |-> NoBeats]
  /\ phase' = [l \in Lessons |-> IF phase[l] = "spoiled" THEN "spoiled" ELSE "wiped"]
  /\ UNCHANGED <<db, req, earned, aborts>>

-----------------------------------------------------------------------------
Arrivals(r) == \/ RequestStart(r) \/ RequestEnd(r) \/ RequestState(r)
               \/ RequestActive(r) \/ RequestBeat(r)

Handle(r) == \/ ProbeSeen(r) \/ ProbeGrace(r)
             \/ Snapshot(r) \/ MarkAttendance(r) \/ FlushAttendance(r)
             \/ LockLesson(r) \/ Wipe(r)
             \/ InsertLesson(r) \/ RefuseLesson(r) \/ SeedRedis(r) \/ Commit(r)
             \/ BeatTeacher(r) \/ BeatStudent(r)

Environment == SeenExpires \/ GraceExpires \/ RedisRestart

Next == \/ \E r \in Requests : Arrivals(r) \/ Handle(r) \/ Abort(r)
        \/ Environment

Spec == Init /\ [][Next]_vars

(* The event loop runs every handler to its end.                            *)
FairSpec == Spec /\ \A r \in Requests : WF_vars(Handle(r))
-----------------------------------------------------------------------------
(* Properties                                                               *)

(* Every variable has its type.                                             *)
TypeOK ==
  /\ status \in [Lessons -> {"none", "active", "ended"}]
  /\ summary \in [Lessons -> [Students -> Nat]]
  /\ records \in [Students -> Seq({"present", "absent"})]
  /\ seen \subseteq Lessons /\ grace \subseteq Lessons
  /\ beats \in [Lessons -> [Students -> Nat]]
  /\ req \in [Requests -> Request]
  /\ earned \in [Lessons -> [Students -> Nat]]
  /\ phase \in [Lessons -> {"open", "snapped", "wiped", "spoiled"}]
  /\ restarts \in Nat /\ aborts \in Nat

(* However starts, ends and lazy auto-ends of a group interleave, the group *)
(* has at most one active lesson: what `existing` in start_lesson, the lazy *)
(* end in the state endpoint and both /active queries rely on.              *)
OneActiveLesson == \A l, m \in ActiveRows : l = m

(* No late commit of a stale handler brings an ended lesson back.           *)
EndedIsFinal ==
  [][\A l \in Lessons : status[l] = "ended" => status'[l] = "ended"]_vars

(* A beat acknowledged before a finaliser read the attendance hash is in    *)
(* the summary of the ended lesson, unless a finaliser read the hash after  *)
(* it had been deleted (a second finaliser, a failed one, a Redis restart). *)
AttendanceKept ==
  \A l \in Lessons : status[l] = "ended" /\ phase[l] # "spoiled" =>
    \A s \in Students : summary[l][s] >= earned[l][s]

(* r found the pupil's record as it wanted it, so it writes nothing, and    *)
(* the record says something else by now.                                   *)
Overtaken(r, s) ==
  /\ HoldsRecords(r) \/ At(r, "write")
  /\ s \notin req[r].writes
  /\ records[s][req[r].row[s]] # Verdict(req[r].att[s])

Closes(r) == At(r, "commit") /\ req'[r].pc = "idle"

(* The register says what the summary says: the transaction that ends a     *)
(* lesson leaves every member a record with the verdict of its summary,     *)
(* unless the record it found right was rewritten before it committed.      *)
(* While its lesson is active only one thing can do that: the commit of a   *)
(* late finaliser of an earlier lesson, which had already ended.            *)
RegisterMatchesSummary ==
  [][/\ \A l \in Lessons, s \in Students :
          status[l] = "active" /\ status'[l] = "ended" =>
            \/ \E i \in DOMAIN records'[s] :
                 records'[s][i] = "present" <=> summary'[l][s] >= PresentBeats
            \/ \E r \in Requests : Closes(r) /\ req[r].on = l /\ Overtaken(r, s)
     /\ \A r \in Requests, s \in Students :
          ~Overtaken(r, s) /\ Overtaken(r, s)' /\ status'[req'[r].on] = "active" =>
            \E o \in Requests \ {r} : Closes(o) /\ req[o].on # req[r].on
                                      /\ status[req[o].on] = "ended"]_vars

(* Starts wait on the unique index for each other's rows and for the end of *)
(* the lesson in the way; finalisers of one lesson, takeovers among them,   *)
(* wait for its row, and finalisers of any lessons for the attendance rows  *)
(* they change.  No request waits forever.                                  *)
EveryRequestFinishes ==
  \A r \in Requests : req[r].pc # "idle" ~> req[r].pc = "idle"

(* The rows of a group's lessons behave as one lesson at a time.            *)
Group == INSTANCE GroupLesson WITH
  current  <- IF ActiveRows = {} THEN NoLesson ELSE CHOOSE l \in ActiveRows : TRUE,
  finished <- {l \in Lessons : status[l] = "ended"}
ImplementsGroupLesson == Group!GroupSpec
=============================================================================
