---------------------------- MODULE LessonChannel ----------------------------
(***************************************************************************)
(* What the screens of a class show: the scene the teacher chooses goes to *)
(* the row in PostgreSQL, to Redis, and over a publish/subscribe channel   *)
(* and an event stream to the pages of the pupils and the projector        *)
(* (backend/app/live_lessons, frontend/src/hooks/use-lesson-channel.ts).   *)
(*                                                                         *)
(* The channel keeps no history: who is not subscribed misses what is      *)
(* announced.  A page starts from a GET of the row, listens to its stream, *)
(* and asks for the row again when the stream comes back after a drop.     *)
(* The cache of the page keeps the answer it has if a new one is equal to  *)
(* it, and then nothing on the page changes.                               *)
(***************************************************************************)
EXTENDS Naturals, Sequences, FiniteSets

CONSTANTS
  Pages,         \* screens of the class, each of one pupil
  Requests,      \* slots for the requests that change the scene or end
  Scenes, Blank, \* what a scene may be, and what a lesson begins with
  None,          \* no key in Redis, no data in a cache
  MaxTurns       \* bound: scene changes asked for, streams that break and
                 \* requests that fail half way, all together

ASSUME BlankAssumption == Blank \in Scenes
ASSUME NoneAssumption == None \notin Scenes
ASSUME BoundAssumption == MaxTurns \in Nat

VARIABLES
  lesson,     (* the committed row                                         *)
  mirror,     (* the scene key in Redis                                    *)
  hands,      (* the signals hash in Redis: pupils with a hand up          *)
  request,    (* requests in flight                                        *)
  stream,     (* the event stream of each page, as the server has it       *)
  queue,      (* what a stream has still to deliver                        *)
  page,       (* what each page holds                                      *)
  fetch,      (* the GET of each page                                      *)
  changes, drops, failures,
  overlapped  (* auxiliary: two requests have been in flight together      *)

server == <<lesson, mirror, hands, request, changes, failures, overlapped>>
client == <<stream, queue, page, fetch, drops>>
vars   == <<server, client>>

Statuses == {"active", "ended"}
Lesson   == [status: Statuses, scene: Scenes]

Phases   == {"idle", "store", "clear", "announce", "commit",
             "farewell", "forget", "close"}
(* `seen' is the scene of the row as loaded, `standing' (auxiliary) the    *)
(* hands up since a scene change was asked for.                            *)
Request  == [phase: Phases, scene: Scenes, seen: Scenes, standing: SUBSET Pages]
NoRequest == [phase |-> "idle", scene |-> Blank, seen |-> Blank, standing |-> {}]

Over     == "lesson_ended"
Events   == Scenes \cup {Over}
Streams  == {"none", "authorised", "subscribed"}

Page     == [view: {"away", "live", "over"}, opened: BOOLEAN, dropped: BOOLEAN,
             scene: Scenes \cup {None}, data: Lesson \cup {None}]
Closed   == [view |-> "away", opened |-> FALSE, dropped |-> FALSE,
             scene |-> None, data |-> None]

Fetch    == [phase: {"none", "asked"}, got: {None}] \cup [phase: {"answered"}, got: Lesson]
NoFetch  == [phase |-> "none", got |-> None]
Asked    == [phase |-> "asked", got |-> None]

Init ==
  /\ lesson = [status |-> "active", scene |-> Blank]
  /\ mirror = Blank
  /\ hands = {}
  /\ request = [r \in Requests |-> NoRequest]
  /\ stream = [p \in Pages |-> "none"]
  /\ queue = [p \in Pages |-> <<>>]
  /\ page = [p \in Pages |-> Closed]
  /\ fetch = [p \in Pages |-> NoFetch]
  /\ changes = 0 /\ drops = 0 /\ failures = 0
  /\ overlapped = FALSE

(***************************************************************************)
(* The teacher's requests                                                  *)
(***************************************************************************)
Turns == changes + drops + failures

Busy == {r \in Requests : request[r].phase # "idle"}
Goto(r, phase) == request' = [request EXCEPT ![r].phase = phase]

(* Both handlers load the row and refuse a lesson that has ended.          *)
Ask(r, phase, s) ==
  /\ request[r].phase = "idle"
  /\ lesson.status = "active"
  /\ request' = [request EXCEPT ![r] = [phase |-> phase, scene |-> s,
                                        seen |-> lesson.scene,
                                        standing |-> IF phase = "store" THEN hands ELSE {}]]
  /\ overlapped' = (overlapped \/ Busy # {})
  /\ UNCHANGED <<lesson, mirror, hands, failures, client>>

(* PATCH /scene: Redis first, ...                                          *)
AskScene(r, s) ==
  /\ Turns < MaxTurns
  /\ changes' = changes + 1
  /\ Ask(r, "store", s)

StoreScene(r) ==
  /\ request[r].phase = "store"
  /\ mirror' = request[r].scene
  /\ Goto(r, "clear")
  /\ UNCHANGED <<lesson, hands, changes, failures, overlapped, client>>

(* Mutant: hands stay up when the scene is the one already shown.          *)
ClearHands_NewSceneOnly(r) ==
  /\ request[r].phase = "clear"
  /\ hands' = IF request[r].scene = request[r].seen THEN hands ELSE {}
  /\ Goto(r, "announce")
  /\ UNCHANGED <<lesson, mirror, changes, failures, overlapped, client>>

(* ... raised hands go down with the old scene, ...                        *)
ClearHands(r) ==
  /\ request[r].phase = "clear"
  /\ hands' = {}
  /\ Goto(r, "announce")
  /\ UNCHANGED <<lesson, mirror, changes, failures, overlapped, client>>

(* Mutant: a stream that has something still to deliver takes no more.     *)
Broadcast_Full(e) ==
  queue' = [p \in Pages |-> IF stream[p] = "subscribed" /\ queue[p] = <<>>
                            THEN <<e>> ELSE queue[p]]

Broadcast(e) ==
  queue' = [p \in Pages |-> IF stream[p] = "subscribed"
                            THEN Append(queue[p], e) ELSE queue[p]]

(* ... the class is told, ...                                              *)
AnnounceScene(r) ==
  /\ request[r].phase = "announce"
  /\ Broadcast(request[r].scene)
  /\ Goto(r, "commit")
  /\ UNCHANGED <<lesson, mirror, hands, changes, failures, overlapped,
                 stream, page, fetch, drops>>

(* Mutants: the row keeps a scene changed in place, which the session does *)
(* not see; the word for the end is not the column's.                      *)
Written_InPlace(q) == lesson
Ended_Closed(row) == [row EXCEPT !.status = "closed"]

(* The session writes the column if it differs from what it has loaded.    *)
Written(q) == IF q.scene = q.seen THEN lesson ELSE [lesson EXCEPT !.scene = q.scene]
Ended(row) == [row EXCEPT !.status = "ended"]

(* ... and only then is the row written.                                   *)
CommitScene(r) ==
  /\ request[r].phase = "commit"
  /\ lesson' = Written(request[r])
  /\ request' = [request EXCEPT ![r] = NoRequest]
  /\ UNCHANGED <<mirror, hands, changes, failures, overlapped, client>>

(* POST /end, once the summary is made: the class is told, the keys are    *)
(* deleted, the row is written.  Bound: one at a time; LiveLesson has the  *)
(* summary and the ends that race.                                         *)
Ending == {"farewell", "forget", "close"}

AskEnd(r) ==
  /\ \A o \in Requests : request[o].phase \notin Ending
  /\ Ask(r, "farewell", lesson.scene)
  /\ UNCHANGED changes

(* Mutant: the keys go and nobody is told.                                 *)
AnnounceEnd_Silent(r) ==
  /\ request[r].phase = "farewell"
  /\ Goto(r, "forget")
  /\ UNCHANGED <<lesson, mirror, hands, changes, failures, overlapped, client>>

AnnounceEnd(r) ==
  /\ request[r].phase = "farewell"
  /\ Broadcast(Over)
  /\ Goto(r, "forget")
  /\ UNCHANGED <<lesson, mirror, hands, changes, failures, overlapped,
                 stream, page, fetch, drops>>

DeleteKeys(r) ==
  /\ request[r].phase = "forget"
  /\ mirror' = None
  /\ hands' = {}
  /\ Goto(r, "close")
  /\ UNCHANGED <<lesson, changes, failures, overlapped, client>>

CommitEnd(r) ==
  /\ request[r].phase = "close"
  /\ lesson' = Ended(lesson)
  /\ request' = [request EXCEPT ![r] = NoRequest]
  /\ UNCHANGED <<mirror, hands, changes, failures, overlapped, client>>

(* A request fails: the row stays as it was, Redis and the class do not.   *)
FailRequest(r) ==
  /\ r \in Busy
  /\ Turns < MaxTurns
  /\ failures' = failures + 1
  /\ request' = [request EXCEPT ![r] = NoRequest]
  /\ UNCHANGED <<lesson, mirror, hands, changes, overlapped, client>>

(* POST and DELETE /signals from the signal bar of a page.  Only raising   *)
(* looks at the lesson's status.                                           *)
RaiseHand(p) ==
  /\ page[p].view = "live" /\ lesson.status = "active"
  /\ hands' = hands \cup {p}
  /\ request' = [r \in Requests |-> [request[r] EXCEPT !.standing = @ \ {p}]]
  /\ UNCHANGED <<lesson, mirror, changes, failures, overlapped, client>>

LowerHand(p) ==
  /\ page[p].view = "live"
  /\ hands' = hands \ {p}
  /\ UNCHANGED <<lesson, mirror, request, changes, failures, overlapped, client>>

(***************************************************************************)
(* The pages                                                               *)
(***************************************************************************)
Live(p) == page[p].view = "live"

(* A page is mounted: it starts from the cached answer, which is never     *)
(* stale, or asks for one, and connects.                                   *)
OpenPage(p) ==
  /\ page[p].view = "away"
  /\ LET d == page[p].data IN
     /\ page' = [page EXCEPT ![p].view = IF d # None /\ d.status = "ended"
                                         THEN "over" ELSE "live",
                             ![p].scene = IF d # None THEN d.scene ELSE None]
     /\ fetch' = IF d = None /\ fetch[p] = NoFetch
                 THEN [fetch EXCEPT ![p] = Asked] ELSE fetch
  /\ UNCHANGED <<server, stream, queue, drops>>

Disconnect(p) ==
  /\ stream' = [stream EXCEPT ![p] = "none"]
  /\ queue' = [queue EXCEPT ![p] = <<>>]

(* It is left for another: the cache stays, for a while.                   *)
LeavePage(p) ==
  /\ page[p].view # "away"
  /\ page' = [page EXCEPT ![p] = [Closed EXCEPT !.data = page[p].data]]
  /\ Disconnect(p)
  /\ UNCHANGED <<server, fetch, drops>>

ForgetData(p) ==
  /\ page[p].view = "away" /\ page[p].data # None /\ fetch[p] = NoFetch
  /\ page' = [page EXCEPT ![p].data = None]
  /\ UNCHANGED <<server, stream, queue, fetch, drops>>

(* GET /events, with the row of an active lesson ...                       *)
Authorise(p) ==
  /\ Live(p) /\ stream[p] = "none" /\ lesson.status = "active"
  /\ stream' = [stream EXCEPT ![p] = "authorised"]
  /\ UNCHANGED <<server, queue, page, fetch, drops>>

(* ... or 409, which the browser takes for a drop.                         *)
Refuse(p) ==
  /\ Live(p) /\ stream[p] = "none" /\ lesson.status = "ended"
  /\ page' = [page EXCEPT ![p].dropped = TRUE]
  /\ UNCHANGED <<server, stream, queue, fetch, drops>>

(* The generator subscribes when the body of the answer begins ...         *)
Subscribe(p) ==
  /\ stream[p] = "authorised"
  /\ stream' = [stream EXCEPT ![p] = "subscribed"]
  /\ UNCHANGED <<server, queue, page, fetch, drops>>

(* A new GET takes the place of one in flight, unless the cache is empty   *)
(* and the one in flight is to fill it.                                    *)
Refetch(p) ==
  fetch' = IF page[p].data = None /\ fetch[p] # NoFetch
           THEN fetch ELSE [fetch EXCEPT ![p] = Asked]

(* Mutant: the drop is forgotten as soon as the browser reconnects.        *)
OnOpen_Forgetful(p) ==
  /\ stream[p] # "none" /\ ~page[p].opened
  /\ page' = [page EXCEPT ![p].opened = TRUE, ![p].dropped = FALSE]
  /\ UNCHANGED <<server, stream, queue, fetch, drops>>

(* ... and the browser knows of the stream when the headers arrive.        *)
OnOpen(p) ==
  /\ stream[p] # "none" /\ ~page[p].opened
  /\ page' = [page EXCEPT ![p].opened = TRUE]
  /\ IF page[p].dropped THEN Refetch(p) ELSE UNCHANGED fetch
  /\ UNCHANGED <<server, stream, queue, drops>>

DeliverScene(p) ==
  /\ page[p].opened /\ queue[p] # <<>> /\ Head(queue[p]) # Over
  /\ page' = [page EXCEPT ![p].scene = Head(queue[p])]
  /\ queue' = [queue EXCEPT ![p] = Tail(@)]
  /\ UNCHANGED <<server, stream, fetch, drops>>

(* The end closes the stream on both sides, and the page asks for the      *)
(* final row.                                                              *)
DeliverEnd(p) ==
  /\ page[p].opened /\ queue[p] # <<>> /\ Head(queue[p]) = Over
  /\ page' = [page EXCEPT ![p].view = "over", ![p].opened = FALSE]
  /\ Disconnect(p)
  /\ Refetch(p)
  /\ UNCHANGED <<server, drops>>

(* The connection breaks: onerror closes it and connects again.            *)
DropStream(p) ==
  /\ stream[p] # "none"
  /\ Turns < MaxTurns
  /\ drops' = drops + 1
  /\ page' = [page EXCEPT ![p].opened = FALSE, ![p].dropped = TRUE]
  /\ Disconnect(p)
  /\ UNCHANGED <<server, fetch>>

(* GET of the lesson: the row is read, and later the answer arrives.       *)
ReadRow(p) ==
  /\ fetch[p].phase = "asked"
  /\ fetch' = [fetch EXCEPT ![p] = [phase |-> "answered", got |-> lesson]]
  /\ UNCHANGED <<server, stream, queue, page, drops>>

(* An answer equal to the cached one is not news to the page; the signal,  *)
(* the poll and the boards it also carries may differ or not.              *)
LandAnswer(p) ==
  /\ fetch[p].phase = "answered"
  /\ fetch' = [fetch EXCEPT ![p] = NoFetch]
  /\ \E differs \in BOOLEAN :
     LET d == fetch[p].got
         news == Live(p) /\ (d # page[p].data \/ differs)
         over == news /\ d.status = "ended" IN
     /\ page' = [page EXCEPT ![p].data = d,
                             ![p].scene = IF news THEN d.scene ELSE @,
                             ![p].view = IF over THEN "over" ELSE @,
                             ![p].opened = IF over THEN FALSE ELSE @]
     /\ IF over THEN Disconnect(p) ELSE UNCHANGED <<stream, queue>>
  /\ UNCHANGED <<server, drops>>

Proceed(r) ==
  \/ StoreScene(r) \/ ClearHands(r) \/ AnnounceScene(r) \/ CommitScene(r)
  \/ AnnounceEnd(r) \/ DeleteKeys(r) \/ CommitEnd(r)

Connection(p) ==
  \/ Authorise(p) \/ Refuse(p) \/ Subscribe(p) \/ OnOpen(p)
  \/ DeliverScene(p) \/ DeliverEnd(p) \/ ReadRow(p) \/ LandAnswer(p)

Next ==
  \/ \E r \in Requests : \/ AskEnd(r) \/ Proceed(r) \/ FailRequest(r)
                         \/ \E s \in Scenes : AskScene(r, s)
  \/ \E p \in Pages : \/ RaiseHand(p) \/ LowerHand(p)
                      \/ OpenPage(p) \/ LeavePage(p) \/ ForgetData(p)
                      \/ Connection(p) \/ DropStream(p)

Spec == Init /\ [][Next]_vars

(* Requests that have begun run to their end, browsers connect, streams    *)
(* deliver and GETs are answered.  Nothing obliges a person to do anything.*)
FairSpec ==
  /\ Spec
  /\ \A r \in Requests : WF_vars(Proceed(r))
  /\ \A p \in Pages :
       /\ WF_vars(Authorise(p)) /\ WF_vars(Subscribe(p)) /\ WF_vars(OnOpen(p))
       /\ WF_vars(DeliverScene(p) \/ DeliverEnd(p))
       /\ WF_vars(ReadRow(p)) /\ WF_vars(LandAnswer(p))

(***************************************************************************)
(* Properties                                                              *)
(***************************************************************************)
(* The type of every variable: the row, the requests and the pages have    *)
(* the shapes the models and the hooks give them.                          *)
TypeOK ==
  /\ lesson \in Lesson
  /\ mirror \in Scenes \cup {None}
  /\ hands \subseteq Pages
  /\ request \in [Requests -> Request]
  /\ stream \in [Pages -> Streams]
  /\ queue \in [Pages -> Seq(Events)]
  /\ page \in [Pages -> Page]
  /\ fetch \in [Pages -> Fetch]
  /\ changes \in Nat /\ drops \in Nat /\ failures \in Nat
  /\ overlapped \in BOOLEAN

(* The row mirrors the scene key of Redis (models.py:51) as long as the    *)
(* teacher waits for each answer and nothing fails half way: at rest, the  *)
(* two agree, although set_scene writes one before and the other after the *)
(* class is told.                                                          *)
SerialMirror ==
  ~overlapped /\ failures = 0 /\ Busy = {} /\ lesson.status = "active"
     => mirror = lesson.scene

(* "a new scene makes raised hands stale - clear them for everyone"        *)
(* (service.py:336): once the class has been told of a scene, a hand that  *)
(* is up was raised after the teacher asked for it, whatever other         *)
(* requests and pupils did in between.                                     *)
HandsFallWithTheScene ==
  \A r \in Requests :
    request[r].phase \in {"announce", "commit"} => request[r].standing \cap hands = {}

(* A page that listens: its stream is open on both sides and no answer is  *)
(* on its way to it.                                                       *)
Listening(p) ==
  Live(p) /\ page[p].opened /\ stream[p] = "subscribed" /\ fetch[p] = NoFetch

(* No scene change is in flight and none will be asked for.                *)
Settled == Turns = MaxTurns /\ Busy = {}

(* r is about to announce its scene, nothing will be announced after it,   *)
(* and whatever else is in flight has been announced before.               *)
LastAnnouncement(r) ==
  /\ Turns = MaxTurns
  /\ request[r].phase = "announce"
  /\ \A o \in Busy \ {r} : request[o].phase = "commit"

(* The announcements reach a page that listens in the order they are made, *)
(* overlapping scene changes included: when the last is about to be made   *)
(* the page may still have earlier ones to receive, and it comes to show   *)
(* the last with nothing left to receive, unless it stops listening        *)
(* (publish, subscribe, lesson_events_endpoint, useLessonChannel).         *)
ListenersShowTheScene ==
  \A p \in Pages, s \in Scenes :
    (Listening(p) /\ \E r \in Requests : LastAnnouncement(r) /\ request[r].scene = s)
      ~> ((page[p].scene = s /\ queue[p] = <<>>) \/ ~Listening(p))

(* A page whose stream has dropped learns the row as it is, once nothing   *)
(* changes it any more, unless the page is left or the lesson has ended    *)
(* (useLessonChannel refetches on reopening).                              *)
DroppedPage(p) == Live(p) /\ page[p].dropped /\ stream[p] = "none" /\ page[p].data # None
ReconnectRefetches ==
  \A p \in Pages :
    (Settled /\ DroppedPage(p))
      ~> \/ page[p].data # None /\ page[p].data.scene = lesson.scene
         \/ ~Live(p) \/ lesson.status = "ended"

(* Nobody who listens stays in a lesson that is over: when the end is      *)
(* about to be announced, a page that listens comes to show it or stops    *)
(* listening (finalize_lesson, the generator's break, lesson_ended).       *)
EndReachesListeners ==
  \A p \in Pages :
    (Listening(p) /\ \E r \in Requests : request[r].phase = "farewell")
      ~> (~Listening(p) \/ failures > 0)
=============================================================================
