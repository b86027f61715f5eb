------------------------- MODULE LessonChannelProofs -------------------------
(***************************************************************************)
(* Theorems about LessonChannel, for any number of pages, of requests in   *)
(* flight, of scenes, and with no bound reached: the state is well typed,  *)
(* hands fall with the scene, and a teacher who waits for each answer has  *)
(* a row that mirrors Redis.                                               *)
(***************************************************************************)
EXTENDS LessonChannel, TLAPS

LEMMA NoRequestType == NoRequest \in Request
BY BlankAssumption DEF NoRequest, Request, Phases

(* A phase can be changed without disturbing the rest of a request.        *)
LEMMA GotoType ==
  ASSUME NEW r \in Requests, NEW f \in Phases,
         request \in [Requests -> Request], Goto(r, f)
  PROVE  request' \in [Requests -> Request]
<1>1. [request[r] EXCEPT !.phase = f] \in Request
  BY DEF Request
<1> QED
  BY <1>1 DEF Goto

(* What an announcement puts in the queues is an event.                    *)
LEMMA BroadcastType ==
  ASSUME NEW e \in Events, queue \in [Pages -> Seq(Events)], Broadcast(e)
  PROVE  queue' \in [Pages -> Seq(Events)]
BY DEF Broadcast

LEMMA DisconnectType ==
  ASSUME NEW p \in Pages, stream \in [Pages -> Streams],
         queue \in [Pages -> Seq(Events)], Disconnect(p)
  PROVE  /\ stream' \in [Pages -> Streams]
         /\ queue' \in [Pages -> Seq(Events)]
BY DEF Disconnect, Streams

LEMMA RefetchType ==
  ASSUME NEW p \in Pages, fetch \in [Pages -> Fetch], Refetch(p)
  PROVE  fetch' \in [Pages -> Fetch]
BY DEF Refetch, Fetch, Asked

LEMMA TypeInit == Init => TypeOK
<1> SUFFICES ASSUME Init PROVE TypeOK
  OBVIOUS
<1>1. request \in [Requests -> Request]
  BY NoRequestType DEF Init
<1>2. page \in [Pages -> Page]
  BY DEF Init, Closed, Page
<1>3. fetch \in [Pages -> Fetch]
  BY DEF Init, NoFetch, Fetch
<1>4. queue \in [Pages -> Seq(Events)] /\ stream \in [Pages -> Streams]
  BY DEF Init, Streams
<1> QED
  BY <1>1, <1>2, <1>3, <1>4, BlankAssumption DEF Init, TypeOK, Lesson, Statuses

(* A request that begins.                                                  *)
LEMMA AskType ==
  ASSUME TypeOK, NEW r \in Requests, NEW f \in Phases, NEW s \in Scenes,
         Ask(r, f, s), changes' \in Nat
  PROVE  TypeOK'
<1>1. request' \in [Requests -> Request]
  <2>1. [phase |-> f, scene |-> s, seen |-> lesson.scene,
         standing |-> IF f = "store" THEN hands ELSE {}] \in Request
    BY DEF TypeOK, Lesson, Request
  <2> QED
    BY <2>1 DEF Ask, TypeOK
<1> QED
  BY <1>1 DEF Ask, TypeOK, client

(* What the requests do to the row, to Redis and to the class.             *)
LEMMA TypeServer ==
  ASSUME TypeOK, NEW r \in Requests,
         \/ Proceed(r) \/ FailRequest(r) \/ AskEnd(r)
         \/ \E s \in Scenes : AskScene(r, s)
  PROVE  TypeOK'
<1>1. CASE StoreScene(r)
  <2>1. request' \in [Requests -> Request]
    BY <1>1, GotoType DEF StoreScene, TypeOK, Phases
  <2>2. request[r].scene \in Scenes
    BY DEF TypeOK, Request
  <2> QED
    BY <1>1, <2>1, <2>2 DEF StoreScene, TypeOK, client
<1>2. CASE ClearHands(r)
  <2>1. request' \in [Requests -> Request]
    BY <1>2, GotoType DEF ClearHands, TypeOK, Phases
  <2> QED
    BY <1>2, <2>1 DEF ClearHands, TypeOK, client
<1>3. CASE AnnounceScene(r)
  <2>1. request' \in [Requests -> Request]
    BY <1>3, GotoType DEF AnnounceScene, TypeOK, Phases
  <2>2. request[r].scene \in Events
    BY DEF TypeOK, Request, Events
  <2>3. queue' \in [Pages -> Seq(Events)]
    BY <1>3, <2>2, BroadcastType DEF AnnounceScene, TypeOK
  <2> QED
    BY <1>3, <2>1, <2>3 DEF AnnounceScene, TypeOK
<1>4. CASE CommitScene(r)
  <2>1. request' \in [Requests -> Request]
    BY <1>4, NoRequestType DEF CommitScene, TypeOK
  <2>2. lesson' \in Lesson
    BY <1>4 DEF CommitScene, Written, TypeOK, Lesson, Request
  <2> QED
    BY <1>4, <2>1, <2>2 DEF CommitScene, TypeOK, client
<1>5. CASE AnnounceEnd(r)
  <2>1. request' \in [Requests -> Request]
    BY <1>5, GotoType DEF AnnounceEnd, TypeOK, Phases
  <2>2. queue' \in [Pages -> Seq(Events)]
    BY <1>5, BroadcastType DEF AnnounceEnd, TypeOK, Events
  <2> QED
    BY <1>5, <2>1, <2>2 DEF AnnounceEnd, TypeOK
<1>6. CASE DeleteKeys(r)
  <2>1. request' \in [Requests -> Request]
    BY <1>6, GotoType DEF DeleteKeys, TypeOK, Phases
  <2> QED
    BY <1>6, <2>1 DEF DeleteKeys, TypeOK, client
<1>7. CASE CommitEnd(r)
  <2>1. request' \in [Requests -> Request]
    BY <1>7, NoRequestType DEF CommitEnd, TypeOK
  <2>2. lesson' \in Lesson
    BY <1>7 DEF CommitEnd, Ended, TypeOK, Lesson, Statuses
  <2> QED
    BY <1>7, <2>1, <2>2 DEF CommitEnd, TypeOK, client
<1>8. CASE FailRequest(r)
  <2>1. request' \in [Requests -> Request]
    BY <1>8, NoRequestType DEF FailRequest, TypeOK
  <2> QED
    BY <1>8, <2>1 DEF FailRequest, TypeOK, client
<1>9. CASE AskEnd(r)
  <2>1. lesson.scene \in Scenes
    BY DEF TypeOK, Lesson
  <2> QED
    BY <1>9, <2>1, AskType DEF AskEnd, TypeOK, Phases
<1>10. ASSUME NEW s \in Scenes, AskScene(r, s) PROVE TypeOK'
  <2>1. changes' \in Nat
    BY <1>10 DEF AskScene, TypeOK
  <2> QED
    BY <1>10, <2>1, AskType DEF AskScene, Phases
<1> QED
  BY <1>1, <1>2, <1>3, <1>4, <1>5, <1>6, <1>7, <1>8, <1>9, <1>10 DEF Proceed

(* What the pages and their streams do.                                    *)
LEMMA TypeClient ==
  ASSUME TypeOK, NEW p \in Pages,
         \/ RaiseHand(p) \/ LowerHand(p)
         \/ OpenPage(p) \/ LeavePage(p) \/ ForgetData(p)
         \/ Connection(p) \/ DropStream(p)
  PROVE  TypeOK'
<1> USE DEF server, client
<1>0. page[p] \in Page /\ fetch[p] \in Fetch
  BY DEF TypeOK
<1>1. CASE RaiseHand(p)
  <2>1. \A r \in Requests : [request[r] EXCEPT !.standing = @ \ {p}] \in Request
    BY DEF TypeOK, Request
  <2>2. request' \in [Requests -> Request]
    BY <1>1, <2>1 DEF RaiseHand
  <2> QED
    BY <1>1, <2>2 DEF RaiseHand, TypeOK
<1>2. CASE LowerHand(p)
  BY <1>2 DEF LowerHand, TypeOK
<1>3. CASE OpenPage(p)
  <2>1. fetch' \in [Pages -> Fetch]
    BY <1>3 DEF OpenPage, TypeOK, Fetch, Asked
  <2>2. page' \in [Pages -> Page]
    BY <1>0, <1>3 DEF OpenPage, TypeOK, Page, Lesson
  <2> QED
    BY <1>3, <2>1, <2>2 DEF OpenPage, TypeOK
<1>4. CASE LeavePage(p)
  <2>1. [Closed EXCEPT !.data = page[p].data] \in Page
    BY <1>0 DEF Closed, Page
  <2>2. page' \in [Pages -> Page]
    BY <1>4, <2>1 DEF LeavePage, TypeOK
  <2> QED
    BY <1>4, <2>2, DisconnectType DEF LeavePage, TypeOK
<1>5. CASE ForgetData(p)
  <2>1. page' \in [Pages -> Page]
    BY <1>0, <1>5 DEF ForgetData, TypeOK, Page
  <2> QED
    BY <1>5, <2>1 DEF ForgetData, TypeOK
<1>6. CASE Authorise(p)
  BY <1>6 DEF Authorise, TypeOK, Streams
<1>7. CASE Refuse(p)
  <2>1. page' \in [Pages -> Page]
    BY <1>0, <1>7 DEF Refuse, TypeOK, Page
  <2> QED
    BY <1>7, <2>1 DEF Refuse, TypeOK
<1>8. CASE Subscribe(p)
  BY <1>8 DEF Subscribe, TypeOK, Streams
<1>9. CASE OnOpen(p)
  <2>1. page' \in [Pages -> Page]
    BY <1>0, <1>9 DEF OnOpen, TypeOK, Page
  <2>2. fetch' \in [Pages -> Fetch]
    BY <1>9, RefetchType DEF OnOpen, TypeOK
  <2> QED
    BY <1>9, <2>1, <2>2 DEF OnOpen, TypeOK
<1>10. CASE DeliverScene(p)
  <2>1. queue[p] \in Seq(Events) /\ queue[p] # <<>>
    BY <1>10 DEF DeliverScene, TypeOK
  <2>2. Head(queue[p]) \in Scenes
    BY <1>10, <2>1 DEF DeliverScene, Events
  <2>3. page' \in [Pages -> Page]
    BY <1>0, <1>10, <2>2 DEF DeliverScene, TypeOK, Page
  <2>4. queue' \in [Pages -> Seq(Events)]
    BY <1>10, <2>1 DEF DeliverScene, TypeOK
  <2> QED
    BY <1>10, <2>3, <2>4 DEF DeliverScene, TypeOK
<1>11. CASE DeliverEnd(p)
  <2>1. page' \in [Pages -> Page]
    BY <1>0, <1>11 DEF DeliverEnd, TypeOK, Page
  <2>2. fetch' \in [Pages -> Fetch]
    BY <1>11, RefetchType DEF DeliverEnd, TypeOK
  <2> QED
    BY <1>11, <2>1, <2>2, DisconnectType DEF DeliverEnd, TypeOK
<1>12. CASE ReadRow(p)
  <2>1. fetch' \in [Pages -> Fetch]
    BY <1>12 DEF ReadRow, TypeOK, Fetch
  <2> QED
    BY <1>12, <2>1 DEF ReadRow, TypeOK
<1>13. CASE LandAnswer(p)
  <2>1. fetch' \in [Pages -> Fetch]
    BY <1>13 DEF LandAnswer, TypeOK, Fetch, NoFetch
  <2>2. fetch[p].got \in Lesson
    BY <1>0, <1>13 DEF LandAnswer, Fetch
  <2>3. page' \in [Pages -> Page]
    <3> DEFINE P(news, over) ==
          [page EXCEPT ![p].data = fetch[p].got,
                       ![p].scene = IF news THEN fetch[p].got.scene ELSE @,
                       ![p].view = IF over THEN "over" ELSE @,
                       ![p].opened = IF over THEN FALSE ELSE @]
    <3>1. \A news, over \in BOOLEAN : P(news, over) \in [Pages -> Page]
      BY <1>0, <2>2 DEF TypeOK, Page, Lesson
    <3>2. PICK differs \in BOOLEAN :
            LET news == Live(p) /\ (fetch[p].got # page[p].data \/ differs)
                over == news /\ fetch[p].got.status = "ended" IN
            page' = P(news, over)
      BY <1>13 DEF LandAnswer
    <3> QED
      BY <3>1, <3>2
  <2>4. /\ stream' \in [Pages -> Streams]
        /\ queue' \in [Pages -> Seq(Events)]
    BY <1>13, DisconnectType DEF LandAnswer, TypeOK
  <2> QED
    BY <1>13, <2>1, <2>3, <2>4 DEF LandAnswer, TypeOK
<1>14. CASE DropStream(p)
  <2>1. page' \in [Pages -> Page]
    BY <1>0, <1>14 DEF DropStream, TypeOK, Page
  <2>2. /\ stream' \in [Pages -> Streams]
        /\ queue' \in [Pages -> Seq(Events)]
    BY <1>14, DisconnectType DEF DropStream, TypeOK
  <2>3. drops' \in Nat
    BY <1>14 DEF DropStream, TypeOK
  <2> QED
    BY <1>14, <2>1, <2>2, <2>3 DEF DropStream, TypeOK
<1> QED
  BY <1>1, <1>2, <1>3, <1>4, <1>5, <1>6, <1>7, <1>8, <1>9, <1>10, <1>11, <1>12,
     <1>13, <1>14 DEF Connection

(* Every reachable state has the shape the models and hooks give it.       *)
THEOREM TypeCorrect == Spec => []TypeOK
<1>1. TypeOK /\ [Next]_vars => TypeOK'
  <2> SUFFICES ASSUME TypeOK, [Next]_vars PROVE TypeOK'
    OBVIOUS
  <2>1. CASE UNCHANGED vars
    BY <2>1 DEF TypeOK, vars, server, client
  <2> QED
    BY <2>1, TypeServer, TypeClient DEF Next
<1> QED
  BY TypeInit, <1>1, PTL DEF Spec

(***************************************************************************)
(* Hands: once its hands are cleared, a request's standing ones are down,  *)
(* and a hand raised again is no longer one of them.                       *)
(***************************************************************************)
(* A step of the pages leaves the requests alone and raises no hand.       *)
LEMMA PagesLeaveRequests ==
  ASSUME NEW p \in Pages,
         \/ OpenPage(p) \/ LeavePage(p) \/ ForgetData(p)
         \/ Connection(p) \/ DropStream(p)
  PROVE  UNCHANGED server
BY DEF OpenPage, LeavePage, ForgetData, Connection, Authorise, Refuse, Subscribe,
       OnOpen, DeliverScene, DeliverEnd, ReadRow, LandAnswer, DropStream

LEMMA HandsStep ==
  ASSUME TypeOK, HandsFallWithTheScene, [Next]_vars
  PROVE  HandsFallWithTheScene'
<1> USE DEF HandsFallWithTheScene
<1>1. CASE UNCHANGED server
  BY <1>1 DEF server
<1>2. ASSUME NEW r \in Requests,
             \/ StoreScene(r) \/ AnnounceScene(r) \/ CommitScene(r)
             \/ AnnounceEnd(r) \/ CommitEnd(r) \/ FailRequest(r)
      PROVE  HandsFallWithTheScene'
  <2>1. hands' = hands
    BY <1>2 DEF StoreScene, AnnounceScene, CommitScene, AnnounceEnd, CommitEnd, FailRequest
  <2>2. ASSUME NEW q \in Requests, request'[q].phase \in {"announce", "commit"}
        PROVE  /\ request[q].phase \in {"announce", "commit"}
               /\ request'[q].standing = request[q].standing
    <3>1. CASE q # r
      BY <1>2, <2>2, <3>1 DEF StoreScene, AnnounceScene, CommitScene, AnnounceEnd,
                              CommitEnd, FailRequest, Goto, TypeOK
    <3>2. CASE q = r /\ AnnounceScene(r)
      BY <3>2 DEF AnnounceScene, Goto, TypeOK, Request
    <3>3. CASE q = r /\ (StoreScene(r) \/ AnnounceEnd(r))
      BY <2>2, <3>3 DEF StoreScene, AnnounceEnd, Goto, TypeOK, Request
    <3>4. CASE q = r /\ (CommitScene(r) \/ CommitEnd(r) \/ FailRequest(r))
      BY <2>2, <3>4 DEF CommitScene, CommitEnd, FailRequest, NoRequest, TypeOK
    <3> QED
      BY <1>2, <3>1, <3>2, <3>3, <3>4
  <2> QED
    BY <2>1, <2>2
<1>3. ASSUME NEW r \in Requests, ClearHands(r) \/ DeleteKeys(r)
      PROVE  HandsFallWithTheScene'
  BY <1>3 DEF ClearHands, DeleteKeys
<1>4. ASSUME NEW r \in Requests, NEW f \in {"store", "farewell"}, NEW s, Ask(r, f, s)
      PROVE  HandsFallWithTheScene'
  BY <1>4 DEF Ask, TypeOK, Request
<1>5. ASSUME NEW p \in Pages, RaiseHand(p)
      PROVE  HandsFallWithTheScene'
  <2>1. \A q \in Requests : /\ request'[q].phase = request[q].phase
                            /\ request'[q].standing = request[q].standing \ {p}
    BY <1>5 DEF RaiseHand, TypeOK, Request
  <2>2. hands' = hands \cup {p}
    BY <1>5 DEF RaiseHand
  <2> QED
    BY <2>1, <2>2
<1>6. ASSUME NEW p \in Pages, LowerHand(p)
      PROVE  HandsFallWithTheScene'
  BY <1>6 DEF LowerHand
<1>7. ASSUME NEW r \in Requests, \/ AskEnd(r) \/ \E s \in Scenes : AskScene(r, s)
      PROVE  HandsFallWithTheScene'
  BY <1>7, <1>4 DEF AskEnd, AskScene
<1>8. CASE UNCHANGED vars
  BY <1>8, <1>1 DEF vars
<1> QED
  BY <1>1, <1>2, <1>3, <1>5, <1>6, <1>7, <1>8, PagesLeaveRequests DEF Next, Proceed

(* A hand that is up when the class is told of a scene was raised after    *)
(* the teacher asked for it (set_scene), however requests interleave.      *)
THEOREM HandsFall == Spec => []HandsFallWithTheScene
<1>1. Init => HandsFallWithTheScene
  BY DEF Init, NoRequest, HandsFallWithTheScene
<1>2. TypeOK /\ HandsFallWithTheScene /\ [Next]_vars => HandsFallWithTheScene'
  BY HandsStep
<1> QED
  BY <1>1, <1>2, TypeCorrect, PTL DEF Spec

(***************************************************************************)
(* The mirror.  SerialMirror says nothing of the states in which a request *)
(* is under way; the invariant adds that such a request is alone and how   *)
(* far it has come.                                                        *)
(***************************************************************************)
Calm == ~overlapped /\ failures = 0

Alone == \A r, q \in Busy : r = q

(* The row still has the scene the request has loaded, and Redis the old   *)
(* scene or the new one.                                                   *)
Progress(r) ==
  /\ request[r].phase \in {"store", "clear", "announce", "commit"} =>
       request[r].seen = lesson.scene
  /\ request[r].phase = "store" => mirror = lesson.scene
  /\ request[r].phase \in {"clear", "announce", "commit"} => mirror = request[r].scene

AtRest == Busy = {} /\ lesson.status = "active" => mirror = lesson.scene

MirrorInv == Calm => Alone /\ AtRest /\ \A r \in Busy :
                       Progress(r) /\ (request[r].phase = "farewell" => mirror = lesson.scene)

LEMMA MirrorInit == Init => MirrorInv
BY DEF Init, NoRequest, MirrorInv, Alone, AtRest, Busy

(* A step within a request: the only one under way.                        *)
LEMMA MirrorProceed ==
  ASSUME TypeOK, MirrorInv, NEW r \in Requests, Proceed(r)
  PROVE  MirrorInv'
<1> SUFFICES ASSUME Calm' PROVE (Alone /\ AtRest /\ \A q \in Busy :
       Progress(q) /\ (request[q].phase = "farewell" => mirror = lesson.scene))'
  BY DEF MirrorInv
<1>1. Calm
  BY DEF Calm, Proceed, StoreScene, ClearHands, AnnounceScene, CommitScene,
         AnnounceEnd, DeleteKeys, CommitEnd
<1>2. r \in Busy
  BY DEF Busy, Proceed, StoreScene, ClearHands, AnnounceScene, CommitScene,
         AnnounceEnd, DeleteKeys, CommitEnd
<1>3. \A q \in Requests \ {r} : request[q].phase = "idle"
  BY <1>1, <1>2 DEF MirrorInv, Alone, Busy
<1>4. Progress(r) /\ (request[r].phase = "farewell" => mirror = lesson.scene)
  BY <1>1, <1>2 DEF MirrorInv
<1>5. \A q \in Requests \ {r} : request'[q].phase = "idle"
  BY <1>3 DEF Proceed, StoreScene, ClearHands, AnnounceScene, CommitScene,
              AnnounceEnd, DeleteKeys, CommitEnd, Goto, TypeOK
<1>6. Busy' \subseteq {r}
  BY <1>5 DEF Busy
<1>7. CASE StoreScene(r)
  <2>1. request'[r] = [request[r] EXCEPT !.phase = "clear"]
    BY <1>7 DEF StoreScene, Goto, TypeOK
  <2>2. request[r] \in Request
    BY DEF TypeOK
  <2> QED
    BY <1>4, <1>6, <1>7, <2>1, <2>2
       DEF StoreScene, Progress, Alone, AtRest, Busy, Request
<1>8. CASE ClearHands(r) \/ AnnounceScene(r)
  <2>1. PICK f \in {"announce", "commit"} : request'[r] = [request[r] EXCEPT !.phase = f]
    BY <1>8 DEF ClearHands, AnnounceScene, Goto, TypeOK
  <2>2. request[r] \in Request
    BY DEF TypeOK
  <2> QED
    BY <1>4, <1>6, <1>8, <2>1, <2>2
       DEF ClearHands, AnnounceScene, Progress, Alone, AtRest, Busy, Request
<1>9. CASE CommitScene(r)
  <2>1. request'[r].phase = "idle"
    BY <1>9 DEF CommitScene, NoRequest, TypeOK
  <2>2. Busy' = {}
    BY <1>6, <2>1 DEF Busy
  <2>3. mirror' = lesson'.scene
    BY <1>4, <1>9 DEF CommitScene, Written, Progress, TypeOK, Lesson, Request
  <2> QED
    BY <2>2, <2>3 DEF Alone, AtRest
<1>10. CASE AnnounceEnd(r) \/ DeleteKeys(r)
  <2>1. PICK f \in {"forget", "close"} : request'[r] = [request[r] EXCEPT !.phase = f]
    BY <1>10 DEF AnnounceEnd, DeleteKeys, Goto, TypeOK
  <2>2. request[r] \in Request
    BY DEF TypeOK
  <2> QED
    BY <1>6, <2>1, <2>2 DEF Progress, Alone, AtRest, Busy, Request
<1>11. CASE CommitEnd(r)
  <2>1. request'[r].phase = "idle"
    BY <1>11 DEF CommitEnd, NoRequest, TypeOK
  <2>2. Busy' = {}
    BY <1>6, <2>1 DEF Busy
  <2>3. lesson'.status = "ended"
    BY <1>11 DEF CommitEnd, Ended, TypeOK, Lesson
  <2> QED
    BY <2>2, <2>3 DEF Alone, AtRest
<1> QED
  BY <1>7, <1>8, <1>9, <1>10, <1>11 DEF Proceed

(* A request that begins while the state is calm is alone, and finds row   *)
(* and Redis in agreement.                                                 *)
LEMMA MirrorAsk ==
  ASSUME TypeOK, MirrorInv, NEW r \in Requests, NEW f \in {"store", "farewell"},
         NEW s, Ask(r, f, s)
  PROVE  MirrorInv'
<1> SUFFICES ASSUME Calm' PROVE (Alone /\ AtRest /\ \A q \in Busy :
       Progress(q) /\ (request[q].phase = "farewell" => mirror = lesson.scene))'
  BY DEF MirrorInv
<1>1. Calm /\ Busy = {}
  BY DEF Calm, Ask, TypeOK
<1>2. mirror = lesson.scene
  BY <1>1 DEF MirrorInv, AtRest, Ask
<1>3. request'[r].phase = f /\ request'[r].seen = lesson.scene
  BY DEF Ask, TypeOK
<1>4. Busy' = {r}
  BY <1>1, <1>3 DEF Busy, Ask, TypeOK
<1> QED
  BY <1>2, <1>3, <1>4 DEF Alone, AtRest, Progress, Ask

LEMMA MirrorStep ==
  ASSUME TypeOK, MirrorInv, [Next]_vars
  PROVE  MirrorInv'
<1>1. CASE UNCHANGED server
  BY <1>1 DEF server, MirrorInv, Calm, Alone, AtRest, Progress, Busy
<1>2. ASSUME NEW r \in Requests, FailRequest(r) PROVE MirrorInv'
  BY <1>2 DEF FailRequest, MirrorInv, Calm, TypeOK
<1>3. ASSUME NEW r \in Requests, \/ AskEnd(r) \/ \E s \in Scenes : AskScene(r, s)
      PROVE  MirrorInv'
  BY <1>3, MirrorAsk DEF AskEnd, AskScene
<1>4. ASSUME NEW p \in Pages, RaiseHand(p) \/ LowerHand(p) PROVE MirrorInv'
  <2>1. \A r \in Requests : /\ request'[r].phase = request[r].phase
                            /\ request'[r].seen = request[r].seen
                            /\ request'[r].scene = request[r].scene
    BY <1>4 DEF RaiseHand, LowerHand, TypeOK, Request
  <2>2. UNCHANGED <<lesson, mirror, failures, overlapped>>
    BY <1>4 DEF RaiseHand, LowerHand
  <2> QED
    BY <2>1, <2>2 DEF MirrorInv, Calm, Alone, AtRest, Progress, Busy
<1>5. CASE UNCHANGED vars
  BY <1>5, <1>1 DEF vars
<1> QED
  BY <1>1, <1>2, <1>3, <1>4, <1>5, MirrorProceed, PagesLeaveRequests DEF Next

(* A teacher who waits for each answer has a row that mirrors Redis at     *)
(* rest (models.py:51), as long as no request fails half way.              *)
THEOREM MirrorHolds == Spec => []SerialMirror
<1>1. TypeOK /\ MirrorInv /\ [Next]_vars => MirrorInv'
  BY MirrorStep
<1>2. MirrorInv => SerialMirror
  BY DEF MirrorInv, SerialMirror, Calm, AtRest
<1> QED
  BY MirrorInit, <1>1, <1>2, TypeCorrect, PTL DEF Spec
=============================================================================
