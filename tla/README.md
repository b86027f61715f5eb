# Verification of the LMS in TLA+

TLA+ models of the parts of this learning management system where requests,
jobs, browser tabs and two stores (PostgreSQL and Redis) act on the same state, the
TLC runs that check them on small instances, and the theorems TLAPS proves of
them for every instance. Paths below are relative to the repository.

## 1. Inventory

The backend (`backend/app`, FastAPI, one uvicorn worker per `backend/Dockerfile:20`)
serves a Next.js frontend (`frontend/src`). State lives in PostgreSQL, in Redis
(presence, scenes, publish/subscribe), on disk (uploads, recordings) and in
LiveKit (media rooms). Handlers are coroutines of one event loop: another
handler may run at every `await`. A request has one database transaction,
committed after the handler returns (`db/session.py:16-23`); what it writes to
Redis, to disk or to LiveKit is visible at once and is never rolled back.
APScheduler runs the cron jobs in the same process, one instance of a job at a time.

| Part | State | Operations | Hard because |
|---|---|---|---|
| Live lessons `live_lessons/` | lesson row, attendance rows; Redis: `teacher_seen`, `teacher_grace`, attendance hash, `active_lesson` keys | start (takes over a stale lesson), end, lazy end by any page load, heartbeats | two finalisers of one lesson, late handlers, Redis lost at a deploy, row and index waits |
| Lesson channel `live_lessons/realtime.py`, `frontend/src/hooks/use-lesson-channel.ts` | row scene, Redis scene, hands; per page: stream, cache, scene | change scene, raise hand, end; open, drop, reconnect, refetch | publish/subscribe without history, announce before commit, cached answers |
| Recordings `recording/`, `scheduler.py` | row (status, link, retention, sharing), file | init, upload, complete, share, delete, sweep, purge, account erasure | minutes between a read and a write, file and row change in different steps |
| Progress `progress/`, `certificates/`, `gamification/`, submit in `exercises/` | submissions, lesson_progress, enrollment, certificate, streak row | submit (with completion hook), complete a lesson | read-then-write under READ COMMITTED, opposite lock orders, swallowed failures |
| Lesson content `courses/`, `exercises/`, `frontend/src/lib/lessons/`, the lesson editor and the course page | lesson document (pages of blocks), exercise library; per page: its copy, a debounce timer, requests | load, edit, autosave, create and attach, place, delete an exercise | the whole document is written back by each page, two server statements without a lock, two requests for one gesture |
| Sign-in of a browser `lib/api-client.ts`, `stores/auth-store.ts`, `auth/` | cookies shared by tabs, refresh token rows, calls waiting in each tab | call, refresh (rotation), retry after a wake, login, logout | tabs do not see each other's refresh, answers set cookies when they arrive, answers get lost |
| Robot levels `exercises/robot_sim.py`, `robot_service.py`, `frontend/src/components/game/` | level, trace; page: player, loops asleep, requests, picture | run, play, step, pause, reset, edit | rules and picture in two languages, requests and loops nobody cancels |
| Attempts, quizzes, file submissions, peer review | submissions | submit, grade | limits checked before the insert |
| Live media `live_media/`, `frontend/src/components/live/` | LiveKit rooms, breakout rows, removed set in Redis; per page: grant, connection, index of its group | token, remove, split, gather, close, enter, leave; share | token requests racing an end, a removal or a split; groups replaced row by row in overlapping transactions; rooms and announcements ahead of the commit |
| Accounts `auth/` (the rest) | users, consent tokens | register, consent, erase | mails and deletions across all parts |
| Billing `billing/`, `donations/`, `metered_billing/` | subscriptions, invoices | checkout, webhooks | late and repeated webhooks |
| Courses, curriculum, learning paths, journal, schedule, attendance, calendar | rows edited by a teacher | create, edit, publish, mark | first marks of one day at once |
| CRM, waitlist, feedback, notifications, mail, webhooks, integrations | rows, queued mail | edit, remind, award | mail before commit |
| Graders, mathematics, knowledge, tutor, analytics, admin, SCORM, sites, export | mostly none | functions and queries | breadth rather than interleaving |

How they interact: a start writes the lesson row, announces it and seeds Redis;
pages hear announcements over SSE and read rows with GETs; heartbeats feed
attendance, which the end of the lesson turns into the register; the end closes
media rooms; a submission reaches the teacher's panel through Redis and closes
its lesson through the progress service, which issues the certificate and pays
XP; erasing an account deletes rows across all parts.

What makes each of the eight modelled parts correct:

- live lessons: a group has one lesson at a time, an ended one stays ended, no
  acknowledged attendance is lost, the register agrees with the summary, a
  teacher who is there is not declared gone, every request ends;
- channel: who listens comes to show what was announced last, who reconnects
  learns the row, hands fall with the scene they were raised for;
- recordings: a link has its bytes, no handler undoes another's write, what is
  ready is dated, abandoned uploads close;
- progress: a solved lesson is closed, a certificate is earned, the percent
  and the XP are never more than what was done, every request ends;
- lesson content: what an editor at rest shows is what is stored, no writer drops
  a block it was given, an exercise is shown once and exists, positions are closed up;
- sign-in: the cookie a browser is left with is one the server honours, a tab does
  not sign itself out, every call is settled, signed out means signed out;
- robot levels: the picture is the world the program leaves, one playback drives
  the page and it is the one of the loaded run, the page comes to rest;
- live media: the groups of a lesson are one split's, a removed pupil and everybody
  after the end get no new way in, every request of the teacher is answered.

`PROJECT.json` lists every component with its status and every hazard at its line.

## 2. Modules

| Module | Models | Checked by | Proved in |
|---|---|---|---|
| `LiveLesson` | the life of a group's lessons in `live_lessons/service.py`, `router.py` | `MCLiveLesson` | `LiveLessonProofs` |
| `GroupLesson` | the abstract promise: one lesson at a time | refinement from `LiveLesson` | `LiveLessonProofs` |
| `LessonChannel` | scene, hands and end over Redis and SSE to the pages | `MCLessonChannel` | `LessonChannelProofs` |
| `Recording` | rows and bytes of recordings, requests and cron jobs | `MCRecording` | `RecordingProofs` |
| `CourseProgress` | submissions, lesson completion, percent, certificate, XP | `MCCourseProgress` | `CourseProgressProofs` |
| `LessonEditor` | the editor, the panel of the course page and the library over stored lessons | `MCLessonEditor` | `LessonEditorProofs` |
| `AuthSessions` | tabs, cookies, refresh token rotation, login and logout | `MCAuthSessions` | `AuthSessionsProofs` |
| `RobotLevel` | the rules of a 2D level, the verdict, the picture of a trace (operators only) | through `RobotPlayer` | `RobotPlayerProofs` |
| `LiveMedia` | rooms, token requests, removal, breakout groups, the media part of the end | `MCLiveMedia` | `LiveMediaProofs` |
| `RobotPlayer` | the page that runs a program and its playback; extends `RobotLevel` | `MCRobotPlayer` | `RobotPlayerProofs` |

In `LiveLesson`, `LessonChannel`, `Recording`, `CourseProgress` and `LiveMedia` a request is
a slot holding the handler's next step and the values it has read; in `LessonEditor`,
`AuthSessions` and `RobotPlayer` it is a record with a state in a set of those under way. One action is the code between two points at which another
actor can change what the handler has seen. Commit is an action, and so is the
failure of a request half way, which undoes rows and nothing else.

**LiveLesson.** `status`, `summary`, `records` are committed rows; `seen`,
`grace`, `beats` are Redis keys.
`RequestStart ... SeedRedis` is `start_lesson`, `ProbeSeen` and `ProbeGrace` are
`teacher_stale`, `Snapshot`, `MarkAttendance`, `FlushAttendance`, `LockLesson`, `Wipe` are
`finalize_lesson`. `MarkAttendance` selects today's records and settles which of them
change (`writes`): a record that says already what it is assigned gives no UPDATE, so it
takes no lock, waits for nobody and is not written at `Commit`. The row locks of updates
and the partial unique index `uq_live_lessons_active_group` are waits. Keys may expire at
any time, since a console can be closed or cut off for as long as a key lives. The lesson
has a course, so attendance is written; the link to a class session, the notifications
and the pupils' `active_lesson` pointers, which nothing modelled here reads, are left out.

**LessonChannel.** A scene change writes Redis, clears hands, publishes and
commits the row (`StoreScene`, `ClearHands`, `AnnounceScene`, `CommitScene`); an
end publishes and deletes the keys before its commit. A page opens with a GET
and a stream; the stream is authorised, then subscribed, then opened. The cache
of TanStack Query is external: it keeps its object when the answer is equal, and
drops unused data. One end is in flight at a time (the button is disabled).
GET failures, polls, boards, follow mode, the scene log and the teacher's own
panel are left out.

**Recording.** Two clocks that only move forward (`old`, the retention) stand
for dates. SQLAlchemy updates only the columns a handler assigned, and fails the
request when the row has gone. Listing and download read only and are left out.

**CourseProgress.** Rows belong to one pupil, so the module follows one pupil of
one course, enrolled from the start, on one day. The transaction's own writes
(`wrote`) are visible to it alone until `Commit`. `WaitsFor` is PostgreSQL's
waiting for a row or a unique key, `Deadlock` its victim, `Collide` an insert that
finds the key committed; both end in a rollback of everything the request wrote,
because the session raises at the next statement whatever the handler swallows.
XP is 25 for every exercise (15 and 50 differ in nothing a property sees), and
the percent is kept as the number of lessons it stands for (rounding to one
decimal loses none below a thousand lessons). Badges and their notifications,
written while the streak row is held, enrolling, video progress and answers that
do not pass are left out. An answer that does not pass adds an attempt alone.

**LessonEditor.** `saved` and `library` are rows; `doc`, `timers`, `load` are the
browser's. An editor loads the lesson and its exercises by separate GETs, adopts
exercises no block shows, and from then on writes its whole document 1200 ms
after the last change (`triggerSave`, `Fire`). Every writer of a lesson is cut on the
server where another may come between, and each works on what it read:

- a PUT reads the row and checks the exercises its blocks name (`check_blocks`), and
  later writes the columns whose values are not the ones it read (`update_lesson`,
  `Dirty`). The read and the check are one step: an exercise that exists at the check
  existed at the read, and the row read decides no more than which columns are dirty;
- a creation by the editor inserts the exercise and reads the lesson (`read_lesson`), and later
  writes the whole content back with one more block (`create_exercise`). The inserted
  row refers to the lesson, so PostgreSQL holds the lesson row `FOR KEY SHARE`, which keeps a
  deletion's `FOR UPDATE` out until the creation commits, and no save. The panel's
  creation names no lesson and writes none;
- a deletion looks for the lessons that hold the exercise in the snapshot of its SELECT
  (`lessons_holding`), and then locks them, clears them as they are under the lock, deletes the row and
  commits (`delete_exercise`). From the locks to the commit is one step: what was found
  cannot be touched meanwhile, and what happens to other lessons can as well happen before.
  The search and the check that the exercise exists are one step too.

The name of a new exercise is one not used before; two creations that compute one
display id end as a creation that is refused (`CreateLost`). The library page of another
teacher deletes exercises too (`LibraryDelete`, for the page `Catalogue`). The panel of the
course page writes the lesson as of its last fetch (`addExerciseToPage`,
`placeExistingInPage`); its fetch is one step, read and arrival. Left out: the
save indicator and its timeout, the list of detached exercises, page numbers,
assignment blocks, duration, and the exercise's own configuration panel. A
page is opened once: a second visit is another element of `Editors`. `Unset` stands in
place of the exercise in a block whose type is not picked yet. The rows to begin with are
any that show no exercise twice and name none that does not exist (`StoredAssumption`).

**AuthSessions.** One browser, one account, several tabs. The access and the
refresh token of an answer have one number; `jar` holds the cookies, `row` the
refresh tokens, `valid` the access tokens that have not run out. A call carries the
cookies of the moment it is sent; an answer sets cookies when it arrives. A 401 starts
the tab's refresh or joins the one it has (`Unauthorized`); the server checks and
rotates in two steps (`CheckToken`, `Rotate`); a call whose answer is lost is sent
again a bounded number of times (`WakeRetry`; the sleep before it is part of the
step). Register and demo login are logins. Left out: closing a tab, the event
stream's own authentication, a wrong password. A request commits with its
last statement.

**RobotLevel, RobotPlayer.** `perform` is one command of `World`; the sandbox and
the server run the same rules, so `run` performs a program, then performs the
record of it, and returns frames and verdict. `stateAt` is the picture the browser
draws from frames alone. A program is a sequence of commands: sensors, `if` and
`while` only choose which commands are attempted. `RobotPlayer` is the page: a
press of Run or Step sends the program, an answer is loaded into the player, a
playback is an element of `loops` that wakes, shows a frame or ends. The constant
function `answers` holds the server's answer to each program, so that TLC computes
it once; `OneByOne` is a fold whose arguments TLC evaluates once. Left out: the
trail, stars, sizes, hints, leaving the page, the speed slider (a wake may come at any time),
seeking, the block and Python editors, wording of failures, win expressions
nested deeper than two. The 3D twin (`world-3d-exercise.tsx`) uses the same
player with the same calls.

**LiveMedia.** Pupils are numbered in the order of `group_member_ids`, so that the
chunks of `create_breakouts` are intervals and a group is known by the request that
wrote it and its index (`Rows`). `act` holds the teacher's requests, `ask` the token
requests. `groups` and `status` are committed rows; what a request has deleted or
written before its commit (`deleted`, `added`) others see only as a wait
(`Delete`, `Waits`) or a refusal (`Collides`, the constraint
`uq_breakout_lesson_index`). Rooms are closed and made one by one, in the order of the
index, before the commit; `media_breakouts_changed` goes out before it too. `Press`
is the button with the check of the lesson's status, the only statement before the
next await. Only the token for a room is asked for step by step: lesson, removal, group, capacity
(any answer), room and signature. `call`, `page` and `inbox` are the pupil's browser:
the grant it holds, the index the lesson page shows, the announcements on their way.
LiveKit is external: a room exists from its creation until it is deleted or found
empty, nobody makes one by entering it (`livekit/livekit.yaml`, `auto_create` off), the
browsers hear of a deletion later (`dropped`). A new grant replaces the connection
of the old one: that `LiveKitRoom` reconnects when its token changes is the library's behaviour,
assumed from the comment at `call-provider.tsx:113-115`, and no property rests on it. A room
that emptied by itself matters only to who enters it, so it is dropped there
(`EnterRefused`). `Reopen` is leaving the lesson page for another one and coming back. Pupils
outside `Callers` have no page open and matter as members of groups. Left out: the
teacher's own call, screen share and the floor, moving a pupil between groups, the
figures of capacity, revoking a publisher, a failed request of the media server other than a room's creation.

## 3. Runs

| Run | Shows |
|---|---|
| `LiveLesson_interleave` | two requests over two lessons: one active lesson, the register agrees with the summary unless an earlier lesson's late finaliser rewrote a record, `GroupLesson` implemented, every request finishes whatever index or row it waits for |
| `LiveLesson_faults` | two requests over two lessons with one Redis loss and one failed request: attendance is still kept |
| `LessonChannel_follow` | two scene changes that overlap or follow each other, or one with a dropped stream or a failed request, and an end, against a page that opens and is left: mirrors at rest, hands fall, listeners follow, reconnects refetch, the end arrives |
| `Recording_calls` | two requests, both jobs, an erasure and a failure: links have bytes, nothing is lost, uploads close |
| `CourseProgress_overlap` | four requests of a pupil, two at a time, statement by statement: solved lessons close, certificates are earned, percent and XP are never too high and exact without overlap, deadlocks are resolved |
| `CourseProgress_hook` | violation: a submission loses its work to its completion hook |
| `LessonEditor_autosave` | an editor, a panel and the library over two lessons, two acts, or one and a lost request or failed load: stored pages are sound, rest means stored, saves drop nothing they saw, a dangling reference needs a write of the lesson that overlapped the deletion |
| `AuthSessions_tabs` | two tabs refresh, sign in and sign out across each other, tokens run out, an answer is lost: the cookie stays usable, no tab refuses itself, every call is settled |
| `AuthSessions_logout` | violation: a logout with a run-out access token signs nobody out |
| `RobotPlayer_play` | five programs, one edit, four presses, answers in any order: the picture is the world, one playback drives, the page comes to rest |
| `RobotPlayer_cut` | violation: an old playback that wakes stops the new one |
| `LiveMedia_calls` | three splits, gatherings, ends and removals, two at a time, against a pupil who joins, follows and leaves: the groups are one split's, doors stay shut, every request is answered |

Each violation run checks one sentence of the repository that the code does not
keep; `findings` in `PROJECT.json` quotes the sentence and gives the line.
Deadlock checking is off where the system may stop: the bounds run out, nobody
sends another request, every lesson is over.

**Bounds.** On the server two requests in flight, because every hazard found is between two;
a third could only wait behind them for the same row (the theorems have no such
bound). Two lessons are enough for a takeover, one pupil for attendance since
pupils share no key. `MaxBeats` is past the threshold `PresentBeats`. One lesson page, as
pages do not affect each other except through hands. Two scenes and two turns
(`MaxTurns`, shared by scene changes, drops and failed requests): two changes may overlap
or be a change and its return, one change may meet a drop or a failure. `MaxRows` is 2, so that two
finalisers may each add a record for the same day. One recording, as handlers and jobs touch one
recording at a time (a purge batch fails as a whole, which an abort models).
A course of two lessons, one with two exercises: the last exercise, the last
lesson and a lesson closed by the button all occur, four calls include all of
them and a repetition. In `LessonEditor` a teacher acts twice, in any two of the
places, beside what loading and timers do by themselves: a race needs one act
against another. One of the two exercises there are at first is in the library alone, so
that the panel or the picker places it while the library deletes it. A creation that puts back a block
whose exercise was deleted needs a third act, a save that drops the block before the
deletion looks for it; the model has it and the theorem covers it, this run
does not reach it. A lost request or a failed load takes the place of one of the two acts
(`MaxTurns`): with two acts and a loss as well the run is three times as long, and the theorems of all
five properties cover it. The lesson of the old format is there because its refusal and its
conversion differ. Two tabs, three calls and five pairs let both tabs refresh
with a login or logout between; one wake retry stands for the code's count. The board has a wall,
edges, an item, two goals, a mark and a number; its programs win, paint, bump,
are refused and run out of steps; four presses are two runs and two of step,
pause or reset in any order. In `LiveMedia` a class of two in groups of one: two groups, so
that a split is replaced in part if it can be; three requests of the teacher let a third find what two that
overlapped have left; one pupil with a page and one token request under way, since pupils share
only the rooms and a room is empty or not. Bounds are constants named `Max...` and appear in guards
only, except `MAX_WAKE_RETRIES`, which is the code's.

**Fairness.** The event loop runs a handler that can run (`WF` of its steps);
PostgreSQL detects deadlocks; the cron jobs fire; time passes; a browser connects,
receives, retries, settles a request (with an answer or an error) and fires a
timer. A request of the teacher in
`LiveMedia` goes on unless the lock of another transaction holds it up (`WF` of `Teaching`). No person is obliged to do anything: no fairness on
requests being sent, on beats, on uploads finishing, on buttons. Liveness is stated with the
escapes the code has (the page is left, the request fails, a playback held on pause).

## 4. Proofs

For every value of the constants that meets the named assumptions.

- `LiveLessonProofs`: `TypeCorrect`, `AtMostOneLesson`, `EndedStaysEnded`,
  `BeatsAreKept`, `GroupRefinement`, `RegisterHolds`. `OneActiveLesson` is not inductive: a start
  holds an uncommitted row that becomes active later. `LifeInv` adds that at most
  one request holds such a row, that no other lesson but the one it takes over is
  active meanwhile, and that its status is still "none". `BeatsAreKept` rests on
  `Carried`: an acknowledged beat is in the hash, or with a finaliser past its
  read, or in the summary. `RegisterHolds` rests on `RowsStand`: the register rows a finaliser
  has chosen stay where they were, since rows are added and never taken away, and on what a
late finaliser is: a request still on a lesson whose row has ended. A record found right and left alone may be
rewritten before its finaliser commits; the theorem says that only such a late finaliser of
another lesson can do that while the lesson is active.
- `LessonChannelProofs`: `TypeCorrect`, `HandsFall`, `MirrorHolds`. `MirrorInv` says
  that as long as there was neither overlap nor failure at most one request is in
  flight, row and key agree at rest, and otherwise the request carries the
  scene it has stored and not committed.
- `RecordingProofs`: `TypeCorrect`, `NothingLost`, `ReadyDated`, `LinksHaveBytes`.
  `DatedInv` adds that a completion in flight has seen a link; `LinkInv` that
  behind an upload about to write its link the bytes are there, or whoever
  removed them is about to remove the row or has.
- `CourseProgressProofs`: `TypeCorrect`, `SolvedClose`, `CertificateHolds`,
  `PercentHolds`, `XpHolds`, `SerialHolds`. The invariant `IInv` says of a request what it carries:
  which lesson it is about and that its lesson_progress row is written
  (`Located`); that a submission past its award holds the streak row
  (`Awarded`), which one request holds at a time (`OneStreak`); that it leaves its
  lesson open only with an exercise unsolved (`Unsolved`), which stays true
  because nobody else can commit a submission meanwhile; that the lessons it
  counted are done (`Counted`); that the XP it read is covered (`Paid`).
  `SerialHolds` adds `SerialInv`: while no two requests have overlapped, at most one is
  in flight, what is committed is exact, and the request carries exactly the difference:
  the XP to add (`ExactXp`) and the columns to write (`ExactColumns`) as they follow from
  rows nobody else has touched (`Untouched`).
- `AuthSessionsProofs`: `Types`, `CookiesStayUsable`, `TabsShareOneRefresh`. The
  inductive invariant adds to the two properties that a pair in an answer under way
  is known to nobody else (`AnswersAreFresh`, `AnswersDiffer`), that a tab waits for
  one refresh at a time (`SingleFlight`), and that a cookie some tab rotated waits
  for the answer to that rotation (`CookieWaits`). Steps that touch calls alone are
  `Quiet`; the five that spend or bring a token have a lemma each.
- `RobotPlayerProofs`: `OneDriver`, `TypeCorrect`, `DrawnHolds`, `ReplayAgrees`. For
  `OneDriver`: two loops never have one generation, none is
  ahead of the player, and the loop of the player's generation belongs to the loaded
  trace; a load raises the generation past all of them. `DrawnHolds` has two halves.
  `Faithful` says of a program, whatever its commands, that the world after the first n
  frames is the one `stateAt` draws from those frames; it is proved by induction over the
  program, one command of `perform` at a time (`IsDrawn`: position, direction, floor,
  marks and numbers of the world are on the picture). `PageInv` says that what the page
  holds is what a program's answer was: the loaded trace is an answer, the drawn
  grid is its picture after the frames shown. `ReplayAgrees` compares the two runs of the rules:
  what stops a program is either not recorded, and the replay ends before it, or recorded,
  and refused at the same place again.
- `LessonEditorProofs`: `TypeCorrect`, `PagesSound`, `DanglingHolds`, `RestHolds`, `SavesHold`.
  The first part gives every operation of the editor, the panel and the server one
  description: which blocks are kept, which are new, which are gone (`Edited`, `PagesCome`).
  `TypeOK` alone is not inductive: `adoptDetachedExercises` and `sorted` keep the form of a
  document because what was stored has its blocks in their positions (`Types`).
  `StoredPagesAreSound` is not inductive either, because a document waits in a page, a timer, a save, a
  panel's creation or a load before it is stored: `SoundDocs` says of all of them that they
  show an exercise once and that a block is named after an act or an exercise that has already been, so
  that new names are new; `SoundCreations` says that an exercise just created is in neither
  the document that asked for it nor another creation, because the answer will put it there.
  `DanglingHolds` adds `ToWrite`: what a save that passed its check or a creation that has
  read will write names exercises that live or that were deleted behind its back; and
  `Searched`: a lesson that holds an exercise which a deletion is about to remove and has not
  found was written behind the back of its search. `RestHolds` adds `Rest`: an editor has one timer, which carries its document; without
  a timer its newest save carries it; no save has a number above `newest`. `SavesHold`
  adds `Holds` (what an editor has held is in its document, timer and saves, or was removed)
  and `OneSave`, which tells the write of one save from every other step.
- `LiveMediaProofs`: `TypeCorrect`, `OneSplit`, `DoorsShut`. `GroupsAreOneSplit` is
  not inductive: a commit deletes and writes what its request decided on earlier. `IInv`
  adds that what a request has read is one whole split, that it has deleted everything
  committed or nothing, one request at a time, and that whoever has written rows
  has deleted whatever is committed (`Clean`). The argument rests on
  `FirstIndex`: a split that makes a group makes group 1, so two splits always meet at
  the unique constraint, also when their sizes differ. Two splits share no row (`OneWriter`), so a
  deletion takes all or nothing. `DoorsShut` follows from the types, one lemma
  per kind of actor.

`EndedStaysEnded`, `ReadyDated` and `ReplayAgrees` are proved and no run checks them.

Assumed: only the `ASSUME`s of the modules, which TLC evaluates on every run (for
`CourseProgress`: finitely many lessons, at least one, exercises stand in lessons; for
`RobotLevel`: the start is on a free cell of the board, items and goals are on the board and not on a
wall; for `RobotPlayer`: a program is a sequence of commands; for `LessonEditor`:
the stored lessons to begin with are sound).

Induction over data. The library's induction theorems take an operator, which the
provers cannot instantiate. `Induction` in `RobotPlayerProofs` and `LessonEditorProofs` is
the same principle for a set of numbers, proved from the well-foundedness of `<`; what a
recursive function computes (`OneByOne`, `Kept`, `FlattenSeq`) follows from it by taking
the set of the lengths for which it holds.

Every invariant and action property of a passing run is stated by a theorem. Only
model-checked: the liveness properties, whose fairness is out of the prover's reach
(`EveryRequestFinishes` of three modules, `AbandonedUploadsClose`, `ListenersShowTheScene`,
`ReconnectRefetches`, `EndReachesListeners`, `CallsSettle`, `PageComesToRest`).

## 5. Known behaviour without a run

Read in the code while modelling; no sentence of the repository is contradicted
by a run of its own here.

Live lessons and channel:

- A finaliser neither writes nor locks a record that already says what it would say
  (`service.py:165-166`), so a late finaliser of an earlier lesson may change the record
  under it: the summary then says absent and the register present. `RegisterMatchesSummary`
  has this case as its one escape, and says that it is the only one.
- Two finalisers may insert two attendance rows for a pupil and day; the properties
  speak of some row. The second overwrites the stored summary (`service.py:228`).
- An end that fails after deleting the Redis keys loses the attendance; the
  retry marks the class absent.
- After a Redis restart two page loads between heartbeats declare a present
  teacher gone (`service.py:53-61`).
- The refetch a page makes at `lesson_ended` may read the row before its commit.
- A page dropped when the lesson ends gets 409 for ever and never shows the end.
- Overlapping scene changes may leave row and Redis with different scenes.
- The announcement precedes the commit: a page that reads the row before the commit and
  subscribes after the announcement keeps the old scene. `ListenersShowTheScene` speaks of pages that listen.
- A change between the GET and the subscription never arrives (`live.ts:295`), and
  an answer equal to the cached one leaves the scene in between on the page
  (`use-lesson-channel.ts:54`).

Recordings and progress:

- The sweep writes `failed` over a completion that committed after its read.
- Erasing an account removes recording rows, not files; so does a deletion during
  an upload (`router.py:258`, `:278`). An upload never completed keeps bytes
  without a date (`service.py:115`). A purge does not see a renewed retention.
- Expired rows and their files go only in the daily purge; until then the link of
  one that expired still works.
- An upload holds its body in memory and a pooled connection until it ends.
- Overlapping completions may leave the percent one lesson short until the next.
- Completing a lesson again pays its XP again; exercises solved before enrolling
  leave the lesson open.

Lesson content:

- `deleteBlock` of the editor deletes the exercise of the block, from every lesson that
  shows it, although requirement FR-006 of `specs/030-exercise-library` has the exercise stay when
  a block goes.
- Opening a lesson saves it again 1.2 s later, so an old tab may overwrite a new one.
- A failed load sets `initialLoadRef` in `finally`; the next edit writes a blank
  document over the lesson (`page.tsx:230-239`).
- Two saves of a page may be applied in either order. Between the check and the
  write an exercise may go and leave a block that names nothing; every later save
  of that document is refused.
- `create_exercise` rewrites the lesson it read without a lock (`exercises/service.py:198-204`): a save
  stored between its read and its write is lost, and a block whose exercise was deleted
  meanwhile may come back.
- A deletion locks and clears the lessons that held the exercise when it looked. A save of another
  lesson that checked before and writes after leaves a block that names nothing.
- The panel is enabled before its refetch arrives; a second placement then starts
  from the old content and drops the first. On a lesson of the old type it replaces
  the content.

Sign-in:

- Two tabs that refresh with one cookie: the second is refused and shows the login
  page although the session lives; when both read the row before either rotates, two pairs live.
- A refresh answer that arrives after a logout sets its cookies again; a logout
  that is retried after a new login ends the new session.
- A lost answer to a refresh leaves the browser with a spent cookie; a refresh is
  not retried as other calls are.

Robot levels:

- Dropping an item on a goal and taking it up draws bare floor there; the verdict
  still counts the goal.
- The answer to a Step that arrives while a program plays ends the playback without
  `onEnd`, and the buttons keep saying that it runs.
- Reset does not withdraw a request: its answer is still loaded and played. An
  older answer may replace a newer one.
- After a reset, Step walks the old frames without a result, so a winning run ends
  without its panel; after a win and an edit, Submit sends the edited program.

Live media:

- Gathering and splitting close the old rooms first. Whoever was inside is
  disconnected, `onDisconnected` is `doLeave`, and the announcement finds no call to move:
  the pupil presses the button again. `specs/003-live-lesson-video`, story 4, has every
  pupil return to the main room without doing anything.
- A token request past its check makes the room again after the end has closed it,
  and is granted; so is one that checks between the closing and the commit. The
  comment at `live_lessons/service.py:194` speaks of rooms that end with the lesson. Story 1 of
  `specs/003-live-lesson-video` has nobody enter again. A request past its check when the
  pupil is removed is granted likewise, against FR-003 and SC-006 of the same document. What
  `DoorsStayShut` says is that there are no other ways in.
- A split that read the lesson before its end writes groups and rooms of an ended lesson.
- The announcement precedes the commit, so a breakout token asked for at once gets 404.
- After a second split that leaves a pupil's index as it was the page does not ask
  again; a grant from before may enter the room of another group with that index.
- `eject` disconnects from the main room only: who is in a breakout room stays there.
- The ceiling of the host is counted up to two seconds ago and may be passed.
- The removed pupils are in Redis alone, although the docstring of
  `live_media/service.py` calls its state recoverable from PostgreSQL.
- `fetchBreakouts` has no caller: a page opened during a split does not know its group.

## 6. Not modelled

Graders, algebra, analytics, imports and exports are functions or
queries without shared state; the graders are candidates for bounded checks. Pure
presentation, translations (a fifth of the source), configuration and editing of
single rows are left aside. The sandbox is process isolation. The largest part of the
source by lines is React markup, texts and forms over one row: no property
of the project would be about it. `PROJECT.json` gives the reason part by part.

## 7. Plan

Done: `LiveLesson` with `GroupLesson`, `Recording`, `LessonChannel`, `CourseProgress`,
`AuthSessions`, `LessonEditor`, `RobotLevel` with `RobotPlayer`, `LiveMedia`.

Next, in order:

1. `Subscriptions`: the billing webhook under late, repeated and reordered delivery,
   against an abstract subscription that follows the provider's last state.
2. `ExerciseAttempts`: the attempt limit, the exhaustion row, attempt numbers.
3. `Reminders`: the sweep of the CRM with mail queued before commit.
4. Screen share and the floor, added to `LiveMedia`; its composition with the lesson rows
   of `LiveLesson`.
5. Polls and boards of a live lesson, added to `LessonChannel`; registration and
   parental consent, added to `AuthSessions`.
6. Sensors and branching programs, and the 3D world, added to `RobotLevel`.

Theorems to add: the refinement of `Subscriptions`, and an abstract
specification of course progress with `CourseProgress` shown to implement it.
