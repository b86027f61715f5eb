----------------------------- MODULE LiveMedia -----------------------------
(***************************************************************************)
(* The call of one live lesson: its rooms on the media server, the tickets *)
(* that let people in, the removal of somebody, the breakout groups and    *)
(* what the end of the lesson closes.                                      *)
(*                                                                         *)
(*   live_media/router.py, live_media/service.py, live_media/models.py     *)
(*   live_lessons/service.py (the part of finalize_lesson that is media)   *)
(*   components/live/call-provider.tsx, components/live/media-stage.tsx,   *)
(*   lesson/[lessonId]/page.tsx (the split and what the page makes of it)  *)
(*                                                                         *)
(* A request runs from one await to the next.  Its rows are visible to     *)
(* others from its commit on, and hold their locks until then.  The media  *)
(* server is modelled by what the code asks of it: rooms that are created, *)
(* deleted and dropped when empty, and people who are connected to one.    *)
(* A new grant replaces the connection of the old one.                     *)
(***************************************************************************)
EXTENDS Integers, Sequences, FiniteSets

CONSTANTS
  ClassSize,   \* how many pupils the group has
  Sizes,       \* the group sizes a teacher may ask for
  Callers,     \* the pupils who have the page of the lesson open
  MaxActs,     \* bound: requests of the teacher
  MaxAtOnce,   \* bound: requests of the teacher under way at a time
  MaxAsks,     \* bound: token requests under way at a time
  Kinds        \* bound: which of the teacher's requests are made

ASSUME ClassAssumption ==
  ClassSize \in Nat /\ Sizes \subseteq Nat /\ Callers \subseteq 1 .. ClassSize
ASSUME BoundsAssumption ==
  /\ MaxActs \in Nat /\ MaxAtOnce \in Nat /\ MaxAsks \in Nat
  /\ Kinds \subseteq {"split", "gather", "end", "remove"}

\* In the order of group_member_ids, which asks for none: one for any.
Pupils == 1 .. ClassSize
Main == 0
Rooms == 0 .. ClassSize        \* the main room and one for each group's index
Out == -1

Acts == 1 .. MaxActs
Asks == 1 .. MaxAsks

-----------------------------------------------------------------------------
(* Groups of at most `size' pupils, numbered from 1.                       *)

AtLeastOne(size) == IF size < 1 THEN 1 ELSE size
GroupOf(size, p) == ((p - 1) \div AtLeastOne(size)) + 1
Indices(size) == {GroupOf(size, p) : p \in Pupils}

\* A row is known by the request that wrote it and its index; its members
\* follow from the size that request asked for.
Rows == [by : Acts, index : Rooms \ {Main}]

VARIABLES
  status,    \* live_lessons.status, committed: "active" or "ended"
  groups,    \* the committed rows of live_breakout_groups
  removed,   \* lesson:{id}:media:removed
  act,       \* the teacher's requests
  ask,       \* the token requests
  rooms,     \* the rooms that were created and not deleted since
  seat,      \* pupil -> the room they are connected to, or Out
  dropped,   \* pupils whose browser has yet to hear that it was disconnected
  call,      \* pupil -> the room of the grant their browser holds, or Out
  page,      \* pupil -> breakoutIndex of the lesson page, Main for null
  inbox      \* pupil -> media_breakouts_changed on their way to the page

vars == <<status, groups, removed, act, ask, rooms, seat, dropped, call, page, inbox>>
media == <<rooms, seat, dropped>>
browsers == <<call, page, inbox>>
lesson == <<status, groups, removed>>

NoAct == [kind |-> "none", st |-> "free", who |-> 0, size |-> 0,
          seen |-> {}, todo |-> {}, deleted |-> {}, added |-> {}]
NoAsk == [st |-> "free", who |-> 0, room |-> Main]

Init ==
  /\ status = "active" /\ groups = {} /\ removed = {}
  /\ act = [a \in Acts |-> NoAct]
  /\ ask = [k \in Asks |-> NoAsk]
  /\ rooms = {} /\ seat = [p \in Pupils |-> Out] /\ dropped = {}
  /\ call = [p \in Pupils |-> Out]
  /\ page = [p \in Pupils |-> Main]
  /\ inbox = [p \in Pupils |-> <<>>]

-----------------------------------------------------------------------------
(* The media server.                                                       *)

\* Everybody in these rooms is put out; their browsers hear of it later.
Disconnect(ps) ==
  /\ seat' = [p \in Pupils |-> IF p \in ps THEN Out ELSE seat[p]]
  /\ dropped' = dropped \cup ps

Inside(i) == {p \in Pupils : seat[p] = i}

ensure_room(i) == rooms' = rooms \cup {i} /\ UNCHANGED <<seat, dropped>>
close_room(i) == rooms' = rooms \ {i} /\ Disconnect(Inside(i))

-----------------------------------------------------------------------------
(* The teacher's requests.                                                 *)

\* a goes on to step st, with the other changes of that step in it.
To(a, r, st) == act' = [act EXCEPT ![a] = [r EXCEPT !.st = st]]

\* The request is answered and its transaction over: the locks are free.
Finish(a) == act' = [act EXCEPT ![a] = [NoAct EXCEPT !.st = "done", !.size = act[a].size]]

\* A request of the teacher that finds the lesson active
\* (_lesson_a_teacher_runs, and the same check in the end of the lesson); the
\* others are refused and change nothing.
Press(a, kind, who, size) ==
  /\ act[a].st = "free" /\ \A b \in Acts : b < a => act[b].st # "free"
  /\ Cardinality({b \in Acts : act[b].st \notin {"free", "done"}}) < MaxAtOnce
  /\ status = "active" /\ kind \in Kinds
  /\ act' = [act EXCEPT ![a] =
               [NoAct EXCEPT !.kind = kind, !.st = "loaded", !.who = who, !.size = size]]
  /\ UNCHANGED <<lesson, ask, media, browsers>>

\* eject: the removal is remembered first, the disconnect follows.
mark_removed(a) ==
  /\ act[a].st = "loaded" /\ act[a].kind = "remove"
  /\ removed' = removed \cup {act[a].who}
  /\ To(a, act[a], "marked")
  /\ UNCHANGED <<status, groups, ask, media, browsers>>

Kick(a) ==
  /\ act[a].st = "marked"
  /\ Disconnect({act[a].who} \cap Inside(Main))
  /\ Finish(a)
  /\ UNCHANGED <<lesson, ask, rooms, browsers>>

-----------------------------------------------------------------------------
(* Splitting, gathering and ending: delete_breakouts in all three.         *)

\* Requests that have read the groups and not committed.
Open == {a \in Acts : act[a].st \in {"closing", "inserting", "ensuring", "announcing",
                                     "main", "committing"}}

\* list_breakouts.  The end has set the status by then: the query writes it
\* first and so waits for another end to commit.
list_breakouts(a) ==
  /\ act[a].st = "loaded" /\ act[a].kind # "remove"
  /\ act[a].kind = "end" => ~\E b \in Open : act[b].kind = "end"
  /\ To(a, [act[a] EXCEPT !.seen = groups, !.todo = {g.index : g \in groups}], "closing")
  /\ UNCHANGED <<lesson, ask, media, browsers>>

\* The rooms are taken in the order of the index.
First(todo) == {i \in todo : \A j \in todo : i <= j}

Close(a) ==
  /\ act[a].st = "closing"
  /\ \E i \in First(act[a].todo) :
       /\ close_room(i)
       /\ To(a, [act[a] EXCEPT !.todo = @ \ {i}], "closing")
  /\ UNCHANGED <<lesson, ask, browsers>>

After(kind) == CASE kind = "split" -> "inserting" [] kind = "gather" -> "announcing"
                 [] OTHER -> "main"

\* The flush of delete_breakouts: a row another transaction is deleting is
\* waited for, and one that is gone by then is passed over.
Delete(a) ==
  /\ act[a].st = "closing" /\ act[a].todo = {}
  /\ \A b \in Open \ {a} : act[b].deleted \cap act[a].seen = {}
  /\ To(a, [act[a] EXCEPT !.deleted = act[a].seen \cap groups], After(act[a].kind))
  /\ UNCHANGED <<lesson, ask, media, browsers>>

NewRows(a) == [by : {a}, index : Indices(act[a].size)]

\* Rows with an index of the new ones.
Same(a, rows) == {g \in rows : g.index \in Indices(act[a].size)}

\* mutants: the row of the lesson is locked by whoever reads the groups; no
\* unique constraint
WaitsForReaders(a) == Open \ {a} # {}
NeverCollides(a) == FALSE

\* uq_breakout_lesson_index: an index somebody is writing or deleting is waited
\* for, a committed one is refused.
Waits(a) == \E b \in Open \ {a} : Same(a, act[b].added \cup act[b].deleted) # {}
Collides(a) == Same(a, groups \ act[a].deleted) # {}

Insert(a) ==
  /\ act[a].st = "inserting" /\ ~Waits(a) /\ ~Collides(a)
  /\ To(a, [act[a] EXCEPT !.added = NewRows(a), !.todo = Indices(act[a].size)], "ensuring")
  /\ UNCHANGED <<lesson, ask, media, browsers>>

Collide(a) ==
  /\ act[a].st = "inserting" /\ ~Waits(a) /\ Collides(a)
  /\ Finish(a)
  /\ UNCHANGED <<lesson, ask, media, browsers>>

Ensure(a) ==
  /\ act[a].st = "ensuring" /\ act[a].todo # {}
  /\ \E i \in First(act[a].todo) :
       /\ ensure_room(i)
       /\ To(a, [act[a] EXCEPT !.todo = @ \ {i}], "ensuring")
  /\ UNCHANGED <<lesson, ask, browsers>>

\* create_room is the one call of the media server whose failure is raised.
EnsureFails(a) ==
  /\ act[a].st = "ensuring" /\ act[a].todo # {}
  /\ Finish(a)
  /\ UNCHANGED <<lesson, ask, media, browsers>>

\* media_breakouts_changed, published before the commit.
IndexIn(a, p) == IF act[a].kind = "split" THEN GroupOf(act[a].size, p) ELSE Main

Announce(a) ==
  /\ \/ act[a].st = "announcing"
     \/ act[a].st = "ensuring" /\ act[a].todo = {}
  /\ inbox' = [p \in Pupils |-> IF p \in Callers THEN Append(inbox[p], IndexIn(a, p)) ELSE <<>>]
  /\ To(a, act[a], "committing")
  /\ UNCHANGED <<lesson, ask, media, call, page>>

CloseMain(a) ==
  /\ act[a].st = "main"
  /\ close_room(Main)
  /\ To(a, act[a], "committing")
  /\ UNCHANGED <<lesson, ask, browsers>>

Commit(a) ==
  /\ act[a].st = "committing"
  /\ groups' = (groups \ act[a].deleted) \cup act[a].added
  /\ status' = IF act[a].kind = "end" THEN "ended" ELSE status
  /\ Finish(a)
  /\ UNCHANGED <<removed, ask, media, browsers>>

-----------------------------------------------------------------------------
(* issue_token and issue_breakout_token.                                   *)

Goes(k, st) == ask' = [ask EXCEPT ![k].st = st]
Answered(k) == ask' = [ask EXCEPT ![k] = NoAsk]
PassIf(k, ok, st) == IF ok THEN Goes(k, st) ELSE Answered(k)

\* mutant: the status is not looked at
CheckNothing(k) ==
  /\ ask[k].st = "asked"
  /\ Goes(k, "loaded")
  /\ UNCHANGED <<lesson, act, media, browsers>>

CheckLesson(k) ==
  /\ ask[k].st = "asked"
  /\ PassIf(k, status = "active", "loaded")
  /\ UNCHANGED <<lesson, act, media, browsers>>

is_removed(k) ==
  /\ ask[k].st = "loaded"
  /\ PassIf(k, ask[k].who \notin removed, "cleared")
  /\ UNCHANGED <<lesson, act, media, browsers>>

\* A group they are not in does not exist as far as they are concerned.
InGroup(k) ==
  \E g \in groups : g.index = ask[k].room /\ GroupOf(act[g.by].size, ask[k].who) = ask[k].room

FindGroup(k) ==
  /\ ask[k].st = "cleared"
  /\ PassIf(k, ask[k].room = Main \/ InGroup(k), "found")
  /\ UNCHANGED <<lesson, act, media, browsers>>

\* The host is full, or the media server fails.
NoCapacity(k) ==
  /\ ask[k].st = "found"
  /\ Answered(k)
  /\ UNCHANGED <<lesson, act, media, browsers>>

Sign(k) ==
  /\ ask[k].st = "found"
  /\ ensure_room(ask[k].room)
  /\ Goes(k, "granted")
  /\ UNCHANGED <<lesson, act, browsers>>

-----------------------------------------------------------------------------
(* The browser of a pupil.                                                 *)

Free == {k \in Asks : ask[k].st = "free" /\ \A l \in Asks : l < k => ask[l].st # "free"}
Pending(p) == {k \in Asks : ask[k].who = p}

Fetch(p, i) ==
  \E k \in Free : ask' = [ask EXCEPT ![k] = [st |-> "asked", who |-> p, room |-> i]]

\* The button, disabled while a grant is being fetched.
Join(p) ==
  /\ call[p] = Out /\ Pending(p) = {}
  /\ Fetch(p, page[p])
  /\ UNCHANGED <<lesson, act, media, browsers>>

\* onSuccess: the grant is put in the place of the one before.
Answer(k) ==
  /\ ask[k].st = "granted"
  /\ LET p == ask[k].who IN
       /\ call' = [call EXCEPT ![p] = ask[k].room]
       /\ seat' = [seat EXCEPT ![p] = Out]
       /\ dropped' = dropped \ {p}
  /\ Answered(k)
  /\ UNCHANGED <<lesson, act, rooms, page, inbox>>

\* mutant: rooms are created by whoever enters them (auto_create)
EnterAnyway(p) ==
  /\ call[p] # Out /\ seat[p] = Out /\ p \notin dropped
  /\ seat' = [seat EXCEPT ![p] = call[p]]
  /\ UNCHANGED <<lesson, act, ask, rooms, dropped, browsers>>

\* The room is connected to if it exists: nobody can make one by entering it.
Enter(p) ==
  /\ call[p] # Out /\ seat[p] = Out /\ p \notin dropped
  /\ call[p] \in rooms
  /\ seat' = [seat EXCEPT ![p] = call[p]]
  /\ UNCHANGED <<lesson, act, ask, rooms, dropped, browsers>>

\* doLeave: the grant and the lesson are forgotten.
doLeave(p) == call' = [call EXCEPT ![p] = Out] /\ UNCHANGED <<page, inbox>>

\* The room was deleted; or it was empty for EMPTY_ROOM_TIMEOUT_SECONDS and the
\* media server has dropped it, which nobody notices before.
EnterRefused(p) ==
  /\ call[p] # Out /\ seat[p] = Out /\ p \notin dropped
  /\ Inside(call[p]) = {}
  /\ rooms' = rooms \ {call[p]}
  /\ doLeave(p)
  /\ UNCHANGED <<lesson, act, ask, seat, dropped>>

onDisconnected(p) ==
  /\ p \in dropped
  /\ doLeave(p)
  /\ dropped' = dropped \ {p}
  /\ UNCHANGED <<lesson, act, ask, rooms, seat>>

Leave(p) ==
  /\ call[p] # Out /\ p \notin dropped
  /\ doLeave(p)
  /\ seat' = [seat EXCEPT ![p] = Out]
  /\ UNCHANGED <<lesson, act, ask, rooms, dropped>>

\* "Follow the teacher between rooms, but only once already in one": the page
\* shows index i now, and a call that is on asks for that room.
Follow(p, i) ==
  /\ page' = [page EXCEPT ![p] = i]
  /\ IF call[p] \notin {Out, i} THEN Fetch(p, i) ELSE UNCHANGED ask

\* The effect runs when the index changes.
onMediaBreakoutsChanged(p) ==
  /\ inbox[p] # <<>>
  /\ inbox' = [inbox EXCEPT ![p] = Tail(@)]
  /\ IF Head(inbox[p]) = page[p] THEN UNCHANGED <<page, ask>> ELSE Follow(p, Head(inbox[p]))
  /\ UNCHANGED <<lesson, act, media, call>>

\* The lesson page is left, the call going on beside another one, and opened
\* again: it starts from the main room and has missed what was announced.
Reopen(p) ==
  /\ page[p] # Main \/ inbox[p] # <<>> \/ call[p] \notin {Out, Main}
  /\ inbox' = [inbox EXCEPT ![p] = <<>>]
  /\ Follow(p, Main)
  /\ UNCHANGED <<lesson, act, media, call>>

-----------------------------------------------------------------------------
Teaching(a) ==
  \/ mark_removed(a) \/ Kick(a)
  \/ list_breakouts(a) \/ Close(a) \/ Delete(a)
  \/ Insert(a) \/ Collide(a) \/ Ensure(a) \/ EnsureFails(a)
  \/ Announce(a) \/ CloseMain(a) \/ Commit(a)

Granting(k) ==
  CheckLesson(k) \/ is_removed(k) \/ FindGroup(k) \/ NoCapacity(k) \/ Sign(k) \/ Answer(k)

Calling(p) ==
  \/ Join(p) \/ Enter(p) \/ EnterRefused(p) \/ onDisconnected(p) \/ Leave(p)
  \/ onMediaBreakoutsChanged(p) \/ Reopen(p)

Pressing(a) ==
  \/ \E size \in Sizes : Press(a, "split", 0, size)
  \/ \E kind \in {"gather", "end"} : Press(a, kind, 0, 0)
  \/ \E p \in Pupils : Press(a, "remove", p, 0)

Next ==
  \/ \E a \in Acts : Pressing(a) \/ Teaching(a)
  \/ \E k \in Asks : Granting(k)
  \/ \E p \in Callers : Calling(p)

Spec == Init /\ [][Next]_vars

\* A request of the teacher that can go on does: nothing but the lock of another
\* transaction holds it up.
FairSpec == Spec /\ \A a \in Acts : WF_vars(Teaching(a))

-----------------------------------------------------------------------------
(* Properties.                                                             *)

Places == Rooms \cup {Out}

Requests == [kind : {"none", "split", "gather", "end", "remove"},
             st : {"free", "loaded", "marked", "closing", "inserting", "ensuring",
                   "announcing", "main", "committing", "done"},
             who : Pupils \cup {0}, size : Sizes \cup {0}, seen : SUBSET Rows,
             todo : SUBSET Rooms, deleted : SUBSET Rows, added : SUBSET Rows]
ActType == {r \in Requests : r.kind = "remove" => r.who \in Pupils}
AskType == [st : {"free", "asked", "loaded", "cleared", "found", "granted"},
            who : Pupils \cup {0}, room : Rooms]

\* The rows, requests, rooms and browsers have the shapes the models and the
\* hooks give them, and a seat is in a room that exists.
TypeOK ==
  /\ status \in {"active", "ended"} /\ groups \subseteq Rows /\ removed \subseteq Pupils
  /\ act \in [Acts -> ActType] /\ ask \in [Asks -> AskType]
  /\ rooms \subseteq Rooms /\ seat \in [Pupils -> rooms \cup {Out}] /\ dropped \subseteq Pupils
  /\ call \in [Pupils -> Places] /\ page \in [Pupils -> Rooms]
  /\ inbox \in [Pupils -> Seq(Rooms)]

\* "Existing groups are replaced rather than added to": whatever splits, gathers
\* and ends overlap, the groups of a lesson are one split's, all of them, so
\* that every pupil is in exactly one.
GroupsAreOneSplit ==
  groups = {} \/ \E a \in Acts : groups = NewRows(a)

\* The token requests of p that are past the check that would refuse them now.
Past(p) ==
  {k \in Asks : /\ ask[k].who = p
                /\ \/ ask[k].st \in {"cleared", "found", "granted"}
                   \/ ask[k].st = "loaded" /\ p \notin removed}

\* Somebody who was removed, and everybody once the lesson has ended, gets no
\* new way in: of the requests that were past their check some may still be
\* granted, a grant comes from one of them, and a seat from a grant.
DoorsStayShut ==
  [][\A p \in Pupils : p \in removed \/ status = "ended" =>
       /\ Past(p)' \subseteq Past(p)
       /\ call'[p] \in {call[p], Out} \cup {ask[k].room : k \in Past(p)}
       /\ seat'[p] \in {seat[p], Out, call[p]}]_vars

\* Every split, gathering, end and removal is answered in the end, whatever
\* rows they wait for.
EveryRequestFinishes == <>[](\A a \in Acts : act[a].st \in {"free", "done"})

=============================================================================
