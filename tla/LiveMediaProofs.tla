-------------------------- MODULE LiveMediaProofs --------------------------
(* Proofs about LiveMedia, for every class, every set of group sizes and any  *)
(* number of requests at a time.                                              *)
EXTENDS LiveMedia, TLAPS

-----------------------------------------------------------------------------
(* Chunks of a class: their numbers, and that the first is always there.      *)

LEMMA Quotient ==
  ASSUME NEW n \in Nat, n >= 1, NEW x \in Nat
  PROVE  x \div n \in 0 .. x
  OBVIOUS

LEMMA ZeroQuotient ==
  ASSUME NEW n \in Nat, n >= 1
  PROVE  0 \div n = 0
  OBVIOUS

\* Every pupil is in a group, whose number is at most the size of the class.
LEMMA GroupNumbers ==
  ASSUME NEW size \in Sizes \cup {0}, NEW p \in Pupils
  PROVE  GroupOf(size, p) \in Rooms \ {Main}
  <1>1. ClassSize \in Nat /\ size \in Nat /\ p \in 1 .. ClassSize
    BY ClassAssumption DEF Pupils
  <1>2. AtLeastOne(size) \in Nat /\ AtLeastOne(size) >= 1 /\ p - 1 \in Nat
    BY <1>1 DEF AtLeastOne
  <1>3. (p - 1) \div AtLeastOne(size) \in 0 .. (p - 1)
    BY <1>2, Quotient
  <1> QED
    BY <1>1, <1>3 DEF GroupOf, Rooms, Main

LEMMA IndexNumbers ==
  ASSUME NEW size \in Sizes \cup {0}
  PROVE  Indices(size) \subseteq Rooms \ {Main}
  BY GroupNumbers DEF Indices

\* A split that makes a group makes group 1.
LEMMA FirstIndex ==
  ASSUME NEW size \in Sizes \cup {0}, Indices(size) # {}
  PROVE  1 \in Indices(size)
  <1>1. ClassSize \in Nat /\ size \in Nat
    BY ClassAssumption
  <1>2. PICK p : p \in Pupils
    BY DEF Indices
  <1>3. 1 \in Pupils
    BY <1>1, <1>2 DEF Pupils
  <1>4. AtLeastOne(size) \in Nat /\ AtLeastOne(size) >= 1
    BY <1>1 DEF AtLeastOne
  <1>5. GroupOf(size, 1) = 1
    BY <1>4, ZeroQuotient DEF GroupOf
  <1> QED
    BY <1>3, <1>5 DEF Indices

-----------------------------------------------------------------------------
(* Types.                                                                     *)

LEMMA NewRowsType ==
  ASSUME TypeOK, NEW a \in Acts
  PROVE  NewRows(a) \in SUBSET Rows
  <1>1. act[a].size \in Sizes \cup {0}
    BY DEF TypeOK, ActType, Requests
  <1> QED
    BY <1>1, IndexNumbers DEF NewRows, Rows

LEMMA InitTypes == Init => TypeOK
  <1> SUFFICES ASSUME Init PROVE TypeOK
    OBVIOUS
  <1>1. NoAct \in ActType /\ NoAsk \in AskType
    BY ClassAssumption DEF NoAct, NoAsk, ActType, Requests, AskType, Rooms, Main
  <1>2. \A p \in Pupils : inbox[p] \in Seq(Rooms)
    BY DEF Init
  <1>3. Main \in Rooms
    BY ClassAssumption DEF Rooms, Main
  <1> QED
    BY <1>1, <1>2, <1>3 DEF Init, TypeOK, Places

\* A request of the teacher in another step, with its other fields well typed.
LEMMA ToTypes ==
  ASSUME act \in [Acts -> ActType], NEW a \in Acts, NEW r \in ActType, NEW st, To(a, r, st),
         st \in {"loaded", "marked", "closing", "inserting", "ensuring", "announcing",
                 "main", "committing", "done"}
  PROVE  act' \in [Acts -> ActType]
  <1>1. [r EXCEPT !.st = st] \in ActType
    BY DEF ActType, Requests
  <1> QED
    BY <1>1 DEF To

LEMMA FinishTypes ==
  ASSUME act \in [Acts -> ActType], NEW a \in Acts, Finish(a)
  PROVE  act' \in [Acts -> ActType]
  <1>1. [NoAct EXCEPT !.st = "done", !.size = act[a].size] \in ActType
    BY DEF ActType, Requests, NoAct
  <1> QED
    BY <1>1 DEF Finish

LEMMA AskTypes ==
  ASSUME ask \in [Asks -> AskType], NEW k \in Asks,
         NEW st \in {"loaded", "cleared", "found", "granted"}, NEW ok \in BOOLEAN,
         PassIf(k, ok, st) \/ Goes(k, st) \/ Answered(k)
  PROVE  ask' \in [Asks -> AskType]
  <1>1. NoAsk \in AskType
    BY ClassAssumption DEF NoAsk, AskType, Rooms, Main
  <1>2. [ask[k] EXCEPT !.st = st] \in AskType
    BY DEF AskType
  <1> QED
    BY <1>1, <1>2 DEF PassIf, Goes, Answered

LEMMA FetchTypes ==
  ASSUME ask \in [Asks -> AskType], NEW p \in Pupils, NEW i \in Rooms, Fetch(p, i)
  PROVE  ask' \in [Asks -> AskType]
  <1>1. PICK k \in Free : ask' = [ask EXCEPT ![k] = [st |-> "asked", who |-> p, room |-> i]]
    BY DEF Fetch
  <1>2. [st |-> "asked", who |-> p, room |-> i] \in AskType
    BY DEF AskType
  <1> QED
    BY <1>1, <1>2 DEF Free

\* What the media server keeps.
MediaOK ==
  rooms \subseteq Rooms /\ seat \in [Pupils -> rooms \cup {Out}] /\ dropped \subseteq Pupils

LEMMA CloseTypes ==
  ASSUME MediaOK, NEW i \in Rooms, close_room(i)
  PROVE  MediaOK'
  BY DEF MediaOK, close_room, Disconnect, Inside

LEMMA EnsureTypes ==
  ASSUME MediaOK, NEW i \in Rooms, ensure_room(i)
  PROVE  MediaOK'
  BY DEF MediaOK, ensure_room

LEMMA Rooms0 == Main \in Rooms /\ Out \notin Rooms
  BY ClassAssumption DEF Rooms, Main, Out

\* A request of the teacher goes on, and the groups with it.
LEMMA DisconnectTypes ==
  ASSUME MediaOK, NEW ps \in SUBSET Pupils, Disconnect(ps), rooms' = rooms
  PROVE  MediaOK'
  BY DEF MediaOK, Disconnect

\* The parts of TypeOK one by one.
LEMMA TypeParts ==
  ASSUME status' \in {"active", "ended"}, groups' \subseteq Rows, removed' \subseteq Pupils,
         act' \in [Acts -> ActType], ask' \in [Asks -> AskType], MediaOK',
         call' \in [Pupils -> Places], page' \in [Pupils -> Rooms],
         inbox' \in [Pupils -> Seq(Rooms)]
  PROVE  TypeOK'
  BY DEF TypeOK, MediaOK

LEMMA TypeFacts ==
  ASSUME TypeOK
  PROVE  /\ status \in {"active", "ended"} /\ groups \subseteq Rows /\ removed \subseteq Pupils
         /\ act \in [Acts -> ActType] /\ ask \in [Asks -> AskType] /\ MediaOK
         /\ call \in [Pupils -> Places] /\ page \in [Pupils -> Rooms]
         /\ inbox \in [Pupils -> Seq(Rooms)]
  BY DEF TypeOK, MediaOK

LEMMA MediaKept == ASSUME MediaOK, UNCHANGED media PROVE MediaOK'
  BY DEF MediaOK, media

\* A request of the teacher goes on, and the groups with it.
LEMMA TeachingTypes ==
  ASSUME TypeOK, NEW a \in Acts, Teaching(a)
  PROVE  TypeOK'
  <1> USE TypeFacts
  <1>1. act[a] \in ActType /\ act[a] \in Requests
    BY DEF ActType
  <1>2. CASE mark_removed(a)
    <2>1. act[a].who \in Pupils
      BY <1>1, <1>2 DEF ActType, mark_removed
    <2>2. act' \in [Acts -> ActType]
      BY <1>1, <1>2, ToTypes DEF mark_removed
    <2> QED
      BY <1>2, <2>1, <2>2, MediaKept, TypeParts DEF mark_removed, browsers
  <1>3. CASE Kick(a)
    <2>1. act' \in [Acts -> ActType]
      BY <1>3, FinishTypes DEF Kick
    <2>2. {act[a].who} \cap Inside(Main) \in SUBSET Pupils
      BY DEF Inside
    <2>3. MediaOK'
      BY <1>3, <2>2, DisconnectTypes DEF Kick
    <2> QED
      BY <1>3, <2>1, <2>3, TypeParts DEF Kick, lesson, browsers
  <1>4. CASE list_breakouts(a)
    <2>1. {g.index : g \in groups} \in SUBSET Rooms
      BY DEF Rows
    <2>2. [act[a] EXCEPT !.seen = groups, !.todo = {g.index : g \in groups}] \in ActType
      BY <1>1, <2>1 DEF ActType, Requests
    <2>3. act' \in [Acts -> ActType]
      BY <1>4, <2>2, ToTypes DEF list_breakouts
    <2> QED
      BY <1>4, <2>3, MediaKept, TypeParts DEF list_breakouts, lesson, browsers
  <1>5. CASE Close(a)
    <2>1. PICK i \in First(act[a].todo) :
            close_room(i) /\ To(a, [act[a] EXCEPT !.todo = @ \ {i}], "closing")
      BY <1>5 DEF Close
    <2>2. i \in Rooms
      BY <1>1 DEF First, Requests
    <2>3. [act[a] EXCEPT !.todo = @ \ {i}] \in ActType
      BY <1>1 DEF ActType, Requests
    <2>4. act' \in [Acts -> ActType]
      BY <2>1, <2>3, ToTypes
    <2>5. MediaOK'
      BY <2>1, <2>2, CloseTypes
    <2> QED
      BY <1>5, <2>4, <2>5, TypeParts DEF Close, lesson, browsers
  <1>6. CASE Delete(a)
    <2>1. [act[a] EXCEPT !.deleted = act[a].seen \cap groups] \in ActType
      BY <1>1 DEF ActType, Requests
    <2>2. After(act[a].kind) \in {"inserting", "announcing", "main"}
      BY DEF After
    <2>3. act' \in [Acts -> ActType]
      BY <1>6, <2>1, <2>2, ToTypes DEF Delete
    <2> QED
      BY <1>6, <2>3, MediaKept, TypeParts DEF Delete, lesson, browsers
  <1>7. CASE Insert(a)
    <2>1. Indices(act[a].size) \in SUBSET Rooms
      BY <1>1, IndexNumbers DEF Requests
    <2>2. [act[a] EXCEPT !.added = NewRows(a), !.todo = Indices(act[a].size)] \in ActType
      BY <1>1, <2>1, NewRowsType DEF ActType, Requests
    <2>3. act' \in [Acts -> ActType]
      BY <1>7, <2>2, ToTypes DEF Insert
    <2> QED
      BY <1>7, <2>3, MediaKept, TypeParts DEF Insert, lesson, browsers
  <1>8. CASE Collide(a)
    BY <1>8, FinishTypes, MediaKept, TypeParts DEF Collide, lesson, browsers
  <1>9. CASE Ensure(a)
    <2>1. PICK i \in First(act[a].todo) :
            ensure_room(i) /\ To(a, [act[a] EXCEPT !.todo = @ \ {i}], "ensuring")
      BY <1>9 DEF Ensure
    <2>2. i \in Rooms
      BY <1>1 DEF First, Requests
    <2>3. [act[a] EXCEPT !.todo = @ \ {i}] \in ActType
      BY <1>1 DEF ActType, Requests
    <2>4. act' \in [Acts -> ActType]
      BY <2>1, <2>3, ToTypes
    <2>5. MediaOK'
      BY <2>1, <2>2, EnsureTypes
    <2> QED
      BY <1>9, <2>4, <2>5, TypeParts DEF Ensure, lesson, browsers
  <1>10. CASE EnsureFails(a)
    BY <1>10, FinishTypes, MediaKept, TypeParts DEF EnsureFails, lesson, browsers
  <1>11. CASE Announce(a)
    <2>1. \A p \in Pupils : IndexIn(a, p) \in Rooms
      BY <1>1, GroupNumbers, Rooms0 DEF IndexIn, Requests
    <2>2. \A p \in Pupils : Append(inbox[p], IndexIn(a, p)) \in Seq(Rooms)
      BY <2>1
    <2>3. inbox' \in [Pupils -> Seq(Rooms)]
      BY <1>11, <2>2 DEF Announce
    <2>4. act' \in [Acts -> ActType]
      BY <1>1, <1>11, ToTypes DEF Announce
    <2> QED
      BY <1>11, <2>3, <2>4, MediaKept, TypeParts DEF Announce, lesson
  <1>12. CASE CloseMain(a)
    <2>1. act' \in [Acts -> ActType]
      BY <1>1, <1>12, ToTypes DEF CloseMain
    <2>2. MediaOK'
      BY <1>12, Rooms0, CloseTypes DEF CloseMain
    <2> QED
      BY <1>12, <2>1, <2>2, TypeParts DEF CloseMain, lesson, browsers
  <1>13. CASE Commit(a)
    <2>1. groups' \subseteq Rows
      BY <1>1, <1>13 DEF Commit, Requests
    <2>2. act' \in [Acts -> ActType]
      BY <1>13, FinishTypes DEF Commit
    <2> QED
      BY <1>13, <2>1, <2>2, MediaKept, TypeParts DEF Commit, browsers
  <1> QED
    BY <1>2, <1>3, <1>4, <1>5, <1>6, <1>7, <1>8, <1>9, <1>10, <1>11, <1>12, <1>13 DEF Teaching

\* A token request goes on.
LEMMA GrantingTypes ==
  ASSUME TypeOK, NEW k \in Asks, Granting(k)
  PROVE  TypeOK'
  <1> USE TypeFacts
  <1>1. ask[k] \in AskType
    OBVIOUS
  <1>2. CASE CheckLesson(k)
    <2>1. ask' \in [Asks -> AskType]
      BY <1>2, AskTypes DEF CheckLesson
    <2> QED
      BY <1>2, <2>1, MediaKept, TypeParts DEF CheckLesson, lesson, browsers
  <1>3. CASE is_removed(k)
    <2>1. ask' \in [Asks -> AskType]
      BY <1>3, AskTypes DEF is_removed
    <2> QED
      BY <1>3, <2>1, MediaKept, TypeParts DEF is_removed, lesson, browsers
  <1>4. CASE FindGroup(k)
    <2>1. (ask[k].room = Main \/ InGroup(k)) \in BOOLEAN
      OBVIOUS
    <2>2. ask' \in [Asks -> AskType]
      BY <1>4, <2>1, AskTypes DEF FindGroup
    <2> QED
      BY <1>4, <2>2, MediaKept, TypeParts DEF FindGroup, lesson, browsers
  <1>5. CASE NoCapacity(k)
    <2>1. ask' \in [Asks -> AskType]
      BY <1>5, AskTypes DEF NoCapacity
    <2> QED
      BY <1>5, <2>1, MediaKept, TypeParts DEF NoCapacity, lesson, browsers
  <1>6. CASE Sign(k)
    <2>1. ask' \in [Asks -> AskType]
      BY <1>6, AskTypes DEF Sign
    <2>2. MediaOK'
      BY <1>1, <1>6, EnsureTypes DEF Sign, AskType
    <2> QED
      BY <1>6, <2>1, <2>2, TypeParts DEF Sign, lesson, browsers
  <1>7. CASE Answer(k)
    <2>1. ask' \in [Asks -> AskType]
      BY <1>7, AskTypes DEF Answer
    <2>2. call' \in [Pupils -> Places]
      BY <1>1, <1>7 DEF Answer, AskType, Places
    <2>3. MediaOK'
      BY <1>7 DEF Answer, MediaOK
    <2> QED
      BY <1>7, <2>1, <2>2, <2>3, TypeParts DEF Answer, lesson
  <1> QED
    BY <1>2, <1>3, <1>4, <1>5, <1>6, <1>7 DEF Granting

\* A pupil's browser does something.
LEMMA FollowTypes ==
  ASSUME TypeOK, NEW p \in Pupils, NEW i \in Rooms, Follow(p, i)
  PROVE  page' \in [Pupils -> Rooms] /\ ask' \in [Asks -> AskType]
  <1>1. page' \in [Pupils -> Rooms]
    BY TypeFacts DEF Follow
  <1>2. ask' \in [Asks -> AskType]
    BY TypeFacts, FetchTypes DEF Follow
  <1> QED
    BY <1>1, <1>2

LEMMA CallingTypes ==
  ASSUME TypeOK, NEW p \in Pupils, Calling(p)
  PROVE  TypeOK'
  <1> USE TypeFacts
  <1>1. CASE Join(p)
    <2>1. ask' \in [Asks -> AskType]
      BY <1>1, FetchTypes DEF Join
    <2> QED
      BY <1>1, <2>1, MediaKept, TypeParts DEF Join, lesson, browsers
  <1>2. CASE Enter(p)
    <2>1. MediaOK'
      BY <1>2 DEF Enter, MediaOK
    <2> QED
      BY <1>2, <2>1, TypeParts DEF Enter, lesson, browsers
  <1>3. CASE EnterRefused(p)
    <2>1. MediaOK'
      BY <1>3 DEF EnterRefused, MediaOK, Inside
    <2>2. call' \in [Pupils -> Places]
      BY <1>3 DEF EnterRefused, doLeave, Places
    <2> QED
      BY <1>3, <2>1, <2>2, TypeParts DEF EnterRefused, doLeave, lesson
  <1>4. CASE onDisconnected(p)
    <2>1. MediaOK'
      BY <1>4 DEF onDisconnected, MediaOK
    <2>2. call' \in [Pupils -> Places]
      BY <1>4 DEF onDisconnected, doLeave, Places
    <2> QED
      BY <1>4, <2>1, <2>2, TypeParts DEF onDisconnected, doLeave, lesson
  <1>5. CASE Leave(p)
    <2>1. MediaOK'
      BY <1>5 DEF Leave, MediaOK
    <2>2. call' \in [Pupils -> Places]
      BY <1>5 DEF Leave, doLeave, Places
    <2> QED
      BY <1>5, <2>1, <2>2, TypeParts DEF Leave, doLeave, lesson
  <1>6. CASE onMediaBreakoutsChanged(p)
    <2>1. inbox[p] \in Seq(Rooms) /\ inbox[p] # <<>>
      BY <1>6 DEF onMediaBreakoutsChanged
    <2>2. Head(inbox[p]) \in Rooms /\ Tail(inbox[p]) \in Seq(Rooms)
      BY <2>1
    <2>3. inbox' \in [Pupils -> Seq(Rooms)]
      BY <1>6, <2>2 DEF onMediaBreakoutsChanged
    <2>4. page' \in [Pupils -> Rooms] /\ ask' \in [Asks -> AskType]
      BY <1>6, <2>2, FollowTypes DEF onMediaBreakoutsChanged
    <2> QED
      BY <1>6, <2>3, <2>4, MediaKept, TypeParts DEF onMediaBreakoutsChanged, lesson
  <1>7. CASE Reopen(p)
    <2>1. inbox' \in [Pupils -> Seq(Rooms)]
      BY <1>7 DEF Reopen
    <2>2. page' \in [Pupils -> Rooms] /\ ask' \in [Asks -> AskType]
      BY <1>7, FollowTypes, Rooms0 DEF Reopen
    <2> QED
      BY <1>7, <2>1, <2>2, MediaKept, TypeParts DEF Reopen, lesson
  <1> QED
    BY <1>1, <1>2, <1>3, <1>4, <1>5, <1>6, <1>7 DEF Calling

LEMMA PressTypes ==
  ASSUME TypeOK, NEW a \in Acts, Pressing(a)
  PROVE  TypeOK'
  <1>1. PICK kind \in {"split", "gather", "end", "remove"}, who \in Pupils \cup {0},
             size \in Sizes \cup {0} :
          (kind = "remove" => who \in Pupils) /\ Press(a, kind, who, size)
    BY DEF Pressing
  <1>2. [NoAct EXCEPT !.kind = kind, !.st = "loaded", !.who = who, !.size = size] \in ActType
    BY <1>1 DEF ActType, Requests, NoAct
  <1>3. act' \in [Acts -> ActType]
    BY <1>1, <1>2, TypeFacts DEF Press
  <1> QED
    BY <1>1, <1>3, TypeFacts, MediaKept, TypeParts DEF Press, lesson, browsers

LEMMA TypeStep == TypeOK /\ [Next]_vars => TypeOK'
  <1> SUFFICES ASSUME TypeOK, [Next]_vars PROVE TypeOK'
    OBVIOUS
  <1>1. CASE UNCHANGED vars
    BY <1>1 DEF vars, TypeOK
  <1>2. ASSUME NEW p \in Callers, Calling(p) PROVE TypeOK'
    BY <1>2, CallingTypes, ClassAssumption DEF Pupils
  <1> QED
    BY <1>1, <1>2, TeachingTypes, PressTypes, GrantingTypes DEF Next

\* The rows, requests, rooms and browsers keep their shapes, and nobody is in a
\* room that does not exist.
THEOREM TypeCorrect == Spec => []TypeOK
  BY InitTypes, TypeStep, PTL DEF Spec

-----------------------------------------------------------------------------
(* The groups are one split's.  A request deletes all it read or nothing, one *)
(* at a time, and whoever has written rows deletes whatever is committed: the *)
(* commit replaces one whole set of groups by another.                        *)

RowsOf(a, size) == [by : {a}, index : Indices(size)]

\* The rows of one split, all of them, or none.
Whole(requests, rows) ==
  rows = {} \/ \E a \in Acts : requests[a].st # "free" /\ rows = RowsOf(a, requests[a].size)

OpenSteps == {"closing", "inserting", "ensuring", "announcing", "main", "committing"}

\* What a request with record r holds while the others are those of `requests'.
Clean(a, r) ==
  /\ r.deleted \in {{}, groups} /\ r.added \in {{}, RowsOf(a, r.size)}
  /\ r.added # {} => groups \ r.deleted = {}
  /\ r.st \notin OpenSteps => r.deleted = {} /\ r.added = {}
  /\ r.st = "closing" => r.added = {}

IInv ==
  /\ TypeOK
  /\ Whole(act, groups) /\ \A a \in Acts : Whole(act, act[a].seen)
  /\ \A a \in Acts : Clean(a, act[a])
  /\ \A a, b \in Acts : act[a].deleted # {} /\ act[b].deleted # {} => a = b
  /\ \A a, b \in Acts : act[a].added # {} /\ act[b].added # {} => a = b

\* Two splits share no row.
LEMMA OneWriter ==
  ASSUME NEW S, NEW T, Whole(act, S), Whole(act, T)
  PROVE  S \cap T \in {{}, S} /\ (S \cap T # {} => S = T)
  <1>1. CASE S = {} \/ T = {}
    BY <1>1
  <1>2. ASSUME NEW a \in Acts, NEW b \in Acts,
               S = RowsOf(a, act[a].size), T = RowsOf(b, act[b].size)
        PROVE  S \cap T \in {{}, S} /\ (S \cap T # {} => S = T)
    <2>1. CASE a = b
      BY <1>2, <2>1
    <2>2. CASE a # b
      <3>1. \A x \in S : x.by = a
        BY <1>2 DEF RowsOf
      <3>2. \A x \in T : x.by = b
        BY <1>2 DEF RowsOf
      <3> QED
        BY <2>2, <3>1, <3>2
    <2> QED
      BY <2>1, <2>2
  <1> QED
    BY <1>1, <1>2 DEF Whole

\* A set of groups that is not empty has a group 1.
LEMMA HasFirst ==
  ASSUME TypeOK, NEW a \in Acts, RowsOf(a, act[a].size) # {}
  PROVE  1 \in Indices(act[a].size) /\ \E g \in RowsOf(a, act[a].size) : g.index = 1
  <1>1. act[a].size \in Sizes \cup {0}
    BY DEF TypeOK, ActType, Requests
  <1>2. Indices(act[a].size) # {}
    BY DEF RowsOf
  <1>3. 1 \in Indices(act[a].size)
    BY <1>1, <1>2, FirstIndex
  <1>4. [by |-> a, index |-> 1] \in RowsOf(a, act[a].size)
    BY <1>3 DEF RowsOf
  <1> QED
    BY <1>3, <1>4

\* Whole sets stay whole when a request goes on with the size it was made with.
LEMMA WholeKept ==
  ASSUME act \in [Acts -> ActType], NEW a \in Acts, NEW r, act' = [act EXCEPT ![a] = r],
         r.st # "free", act[a].st # "free" => r.size = act[a].size, NEW S, Whole(act, S)
  PROVE  Whole(act', S)
  BY DEF Whole

\* A request goes on to record r.
LEMMA StepInv ==
  ASSUME IInv, TypeOK', groups' = groups, NEW a \in Acts, NEW r, act' = [act EXCEPT ![a] = r],
         r.st # "free", act[a].st # "free" => r.size = act[a].size, Whole(act, r.seen),
         Clean(a, r),
         r.deleted # {} => \A b \in Acts \ {a} : act[b].deleted = {},
         r.added # {} => \A b \in Acts \ {a} : act[b].added = {}
  PROVE  IInv'
  <1>1. act \in [Acts -> ActType] /\ act'[a] = r /\ \A b \in Acts \ {a} : act'[b] = act[b]
    BY DEF IInv, TypeOK
  <1>2. Whole(act', groups) /\ Whole(act', r.seen) /\ \A b \in Acts : Whole(act', act[b].seen)
    BY <1>1, WholeKept DEF IInv
  <1>3. \A b \in Acts : Whole(act', act'[b].seen)
    BY <1>1, <1>2
  <1>4. \A b \in Acts : Clean(b, act'[b])
    BY <1>1 DEF IInv
  <1>5. \A b, c \in Acts : act'[b].deleted # {} /\ act'[c].deleted # {} => b = c
    BY <1>1 DEF IInv
  <1>6. \A b, c \in Acts : act'[b].added # {} /\ act'[c].added # {} => b = c
    BY <1>1 DEF IInv
  <1>7. \A b \in Acts : Clean(b, act[b])' <=> Clean(b, act'[b])
    BY DEF Clean
  <1> QED
    BY <1>2, <1>3, <1>4, <1>5, <1>6, <1>7 DEF IInv

\* It goes on with what it had.
LEMMA PlainInv ==
  ASSUME IInv, TypeOK', groups' = groups, NEW a \in Acts, NEW r, act' = [act EXCEPT ![a] = r],
         act[a].st # "free", r.st \in OpenSteps, r.st = "closing" => act[a].st = "closing",
         r.size = act[a].size, r.seen = act[a].seen, r.deleted = act[a].deleted,
         r.added = act[a].added
  PROVE  IInv'
  <1>1. Whole(act, r.seen) /\ r.st # "free"
    BY DEF IInv, OpenSteps
  <1>2. Clean(a, r)
    BY DEF IInv, Clean
  <1>3. /\ r.deleted # {} => \A b \in Acts \ {a} : act[b].deleted = {}
        /\ r.added # {} => \A b \in Acts \ {a} : act[b].added = {}
    BY DEF IInv
  <1> QED
    BY <1>1, <1>2, <1>3, StepInv

\* It holds nothing any more, or nothing yet.
LEMMA EmptyInv ==
  ASSUME IInv, TypeOK', groups' = groups, NEW a \in Acts, NEW r, act' = [act EXCEPT ![a] = r],
         r.st # "free", act[a].st # "free" => r.size = act[a].size,
         r.deleted = {}, r.added = {}, r.seen \in {{}, groups, act[a].seen}
  PROVE  IInv'
  <1>1. Whole(act, r.seen)
    BY DEF IInv, Whole
  <1>2. Clean(a, r)
    BY DEF Clean
  <1> QED
    BY <1>1, <1>2, StepInv

\* A request deletes what it read, if that is still there.
LEMMA DeleteInv ==
  ASSUME IInv, TypeOK', NEW a \in Acts, Delete(a)
  PROVE  IInv'
  <1> DEFINE gone == act[a].seen \cap groups
             r == [act[a] EXCEPT !.deleted = gone, !.st = After(act[a].kind)]
  <1>1. /\ act[a] \in Requests /\ act[a].st = "closing" /\ groups' = groups
        /\ act' = [act EXCEPT ![a] = r]
    BY DEF Delete, To, lesson, IInv, TypeOK, ActType
  <1>2. /\ r.deleted = gone /\ r.added = act[a].added /\ r.size = act[a].size
        /\ r.seen = act[a].seen /\ r.st = After(act[a].kind)
    BY <1>1 DEF Requests
  <1>3. r.st \in {"inserting", "announcing", "main"}
    BY <1>2 DEF After
  <1>4. gone \in {{}, groups} /\ (gone # {} => act[a].seen = groups)
    BY OneWriter DEF IInv
  <1>5. act[a].added = {}
    BY <1>1 DEF IInv, Clean
  <1>6. Clean(a, r)
    BY <1>2, <1>3, <1>4, <1>5 DEF Clean, OpenSteps
  <1>7. ASSUME gone # {}, NEW b \in Acts \ {a} PROVE act[b].deleted = {}
    <2>1. b \in Open => act[b].deleted \cap act[a].seen = {}
      BY DEF Delete
    <2>2. act[b].deleted \in {{}, groups} /\ (b \notin Open => act[b].deleted = {})
      BY DEF IInv, Clean, Open, OpenSteps
    <2> QED
      BY <1>4, <1>7, <2>1, <2>2
  <1>8. Whole(act, r.seen)
    BY <1>2 DEF IInv
  <1> HIDE DEF r, gone
  <1> QED
    BY <1>1, <1>2, <1>3, <1>5, <1>6, <1>7, <1>8, StepInv

\* A split writes its rows when nobody else has written any, and what is
\* committed is about to be deleted by itself.
LEMMA InsertInv ==
  ASSUME IInv, TypeOK', NEW a \in Acts, Insert(a)
  PROVE  IInv'
  <1> DEFINE new == RowsOf(a, act[a].size)
             r == [act[a] EXCEPT !.added = new, !.todo = Indices(act[a].size), !.st = "ensuring"]
  <1>1. /\ act[a] \in Requests /\ act[a].st = "inserting" /\ groups' = groups
        /\ ~Waits(a) /\ ~Collides(a) /\ act' = [act EXCEPT ![a] = r] /\ TypeOK
    BY DEF Insert, To, lesson, IInv, TypeOK, ActType, NewRows, RowsOf
  <1>2. /\ r.added = new /\ r.deleted = act[a].deleted /\ r.size = act[a].size
        /\ r.seen = act[a].seen /\ r.st = "ensuring"
    BY <1>1 DEF Requests
  <1>3. new # {} => 1 \in Indices(act[a].size)
    BY <1>1, HasFirst
  <1>4. ASSUME new # {}, NEW b \in Acts \ {a} PROVE act[b].added = {}
    <2>1. act[b].added \in {{}, RowsOf(b, act[b].size)} /\ (b \notin Open => act[b].added = {})
      BY DEF IInv, Clean, Open, OpenSteps
    <2>2. CASE act[b].added # {}
      <3>1. PICK g \in act[b].added : g.index = 1
        BY <1>1, <2>1, <2>2, HasFirst
      <3>2. g \in Same(a, act[b].added \cup act[b].deleted)
        BY <1>3, <1>4, <3>1 DEF Same
      <3> QED
        BY <1>1, <2>1, <2>2, <3>2 DEF Waits
    <2> QED
      BY <2>2
  <1>5. ASSUME new # {} PROVE groups \ act[a].deleted = {}
    <2>1. act[a].deleted \in {{}, groups}
      BY DEF IInv, Clean
    <2>2. CASE groups # {} /\ act[a].deleted = {}
      <3>1. PICK b \in Acts : groups = RowsOf(b, act[b].size)
        BY <2>2 DEF IInv, Whole
      <3>2. PICK g \in groups : g.index = 1
        BY <1>1, <2>2, <3>1, HasFirst
      <3>3. g \in Same(a, groups \ act[a].deleted)
        BY <1>3, <1>5, <2>2, <3>2 DEF Same
      <3> QED
        BY <1>1, <3>3 DEF Collides
    <2> QED
      BY <2>1, <2>2
  <1>6. Clean(a, r)
    BY <1>2, <1>5 DEF IInv, Clean, OpenSteps
  <1>7. r.deleted # {} => \A b \in Acts \ {a} : act[b].deleted = {}
    BY <1>2 DEF IInv
  <1>8. Whole(act, r.seen)
    BY <1>2 DEF IInv
  <1> HIDE DEF r, new
  <1> QED
    BY <1>1, <1>2, <1>4, <1>6, <1>7, <1>8, StepInv

\* A commit puts one whole set of groups, or none, in the place of another.
LEMMA CommitInv ==
  ASSUME IInv, TypeOK', NEW a \in Acts, Commit(a)
  PROVE  IInv'
  <1> DEFINE r == [NoAct EXCEPT !.st = "done", !.size = act[a].size]
  <1>1. /\ act \in [Acts -> ActType] /\ act[a].st = "committing"
        /\ groups' = (groups \ act[a].deleted) \cup act[a].added
        /\ act' = [act EXCEPT ![a] = r]
    BY DEF Commit, Finish, IInv, TypeOK
  <1>2. /\ r.st = "done" /\ r.size = act[a].size /\ r.seen = {} /\ r.deleted = {}
        /\ r.added = {}
    BY DEF NoAct
  <1>3. act'[a] = r /\ \A b \in Acts \ {a} : act'[b] = act[b]
    BY <1>1
  <1> HIDE DEF r
  <1>4. \/ groups' = groups /\ act[a].deleted \in {{}, groups} /\ act[a].added = {}
        \/ groups' = {} /\ act[a].deleted = groups /\ act[a].added = {}
        \/ /\ groups' = act[a].added /\ act[a].added # {} /\ act[a].deleted = groups
           /\ act[a].added = RowsOf(a, act[a].size)
    BY <1>1 DEF IInv, Clean
  <1>5. Whole(act, groups')
    BY <1>1, <1>4 DEF IInv, Whole
  <1>6. Whole(act', groups') /\ Whole(act', {}) /\ \A b \in Acts : Whole(act', act[b].seen)
    BY <1>1, <1>2, <1>5, WholeKept DEF IInv, Whole
  <1>7. \A b \in Acts : Whole(act', act'[b].seen)
    BY <1>2, <1>3, <1>6
  <1>8. ASSUME NEW b \in Acts \ {a}
        PROVE  /\ act[b].deleted \in {{}, groups'}
               /\ act[b].added # {} => groups' \ act[b].deleted = {}
    <2>1. /\ act[b].deleted \in {{}, groups} /\ (act[b].added # {} => groups \ act[b].deleted = {})
          /\ act[a].deleted # {} => act[b].deleted = {}
          /\ act[a].added # {} => act[b].added = {}
      BY DEF IInv, Clean
    <2> QED
      BY <1>4, <2>1
  <1>9. \A b \in Acts : Clean(b, act[b])'
    <2>1. Clean(a, act[a])'
      BY <1>2, <1>3 DEF Clean, OpenSteps
    <2>2. ASSUME NEW b \in Acts \ {a} PROVE Clean(b, act[b])'
      BY <1>3, <1>8 DEF IInv, Clean
    <2> QED
      BY <2>1, <2>2
  <1>10. /\ \A b, c \in Acts : act'[b].deleted # {} /\ act'[c].deleted # {} => b = c
         /\ \A b, c \in Acts : act'[b].added # {} /\ act'[c].added # {} => b = c
    BY <1>2, <1>3 DEF IInv
  <1> QED
    BY <1>6, <1>7, <1>9, <1>10 DEF IInv

LEMMA TeachingInv ==
  ASSUME IInv, TypeOK', NEW a \in Acts, Teaching(a)
  PROVE  IInv'
  <1>1. act \in [Acts -> ActType] /\ act[a] \in Requests
    BY DEF IInv, TypeOK, ActType
  <1>2. CASE mark_removed(a)
    <2> DEFINE r == [act[a] EXCEPT !.st = "marked"]
    <2>1. act' = [act EXCEPT ![a] = r] /\ groups' = groups /\ act[a].st = "loaded"
      BY <1>2 DEF mark_removed, To
    <2>2. act[a].deleted = {} /\ act[a].added = {}
      BY <2>1 DEF IInv, Clean, OpenSteps
    <2>3. /\ r.st = "marked" /\ r.size = act[a].size /\ r.seen = act[a].seen
          /\ r.deleted = {} /\ r.added = {}
      BY <1>1, <2>2 DEF Requests
    <2> HIDE DEF r
    <2> QED
      BY <2>1, <2>3, EmptyInv
  <1>3. CASE Kick(a) \/ Collide(a) \/ EnsureFails(a)
    <2> DEFINE r == [NoAct EXCEPT !.st = "done", !.size = act[a].size]
    <2>1. act' = [act EXCEPT ![a] = r] /\ groups' = groups
      BY <1>3 DEF Kick, Collide, EnsureFails, Finish, lesson
    <2>2. /\ r.st = "done" /\ r.size = act[a].size /\ r.seen = {} /\ r.deleted = {}
          /\ r.added = {}
      BY DEF NoAct
    <2> HIDE DEF r
    <2> QED
      BY <2>1, <2>2, EmptyInv
  <1>4. CASE list_breakouts(a)
    <2> DEFINE r == [[act[a] EXCEPT !.seen = groups, !.todo = {g.index : g \in groups}]
                       EXCEPT !.st = "closing"]
    <2>1. act' = [act EXCEPT ![a] = r] /\ groups' = groups /\ act[a].st = "loaded"
      BY <1>4 DEF list_breakouts, To, lesson
    <2>2. act[a].deleted = {} /\ act[a].added = {}
      BY <2>1 DEF IInv, Clean, OpenSteps
    <2>3. /\ r.st = "closing" /\ r.size = act[a].size /\ r.seen = groups
          /\ r.deleted = {} /\ r.added = {}
      BY <1>1, <2>2 DEF Requests
    <2> HIDE DEF r
    <2> QED
      BY <2>1, <2>3, EmptyInv
  <1>5. CASE Close(a) \/ Ensure(a)
    <2>1. \E st \in {"closing", "ensuring"} : \E i \in First(act[a].todo) :
            /\ To(a, [act[a] EXCEPT !.todo = @ \ {i}], st)
            /\ act[a].st = st /\ groups' = groups
      <3>1. CASE Close(a)
        BY <3>1 DEF Close, lesson
      <3>2. CASE Ensure(a)
        BY <3>2 DEF Ensure, lesson
      <3> QED
        BY <1>5, <3>1, <3>2
    <2> PICK st \in {"closing", "ensuring"}, i \in First(act[a].todo) :
            /\ To(a, [act[a] EXCEPT !.todo = @ \ {i}], st)
            /\ act[a].st = st /\ groups' = groups
      BY <2>1
    <2> DEFINE r == [[act[a] EXCEPT !.todo = @ \ {i}] EXCEPT !.st = st]
    <2>2. act' = [act EXCEPT ![a] = r]
      BY <2>1 DEF To
    <2>3. /\ r.st = st /\ r.size = act[a].size /\ r.seen = act[a].seen
          /\ r.deleted = act[a].deleted /\ r.added = act[a].added
      BY <1>1 DEF Requests
    <2>4. st \in OpenSteps
      BY DEF OpenSteps
    <2> HIDE DEF r
    <2> QED
      BY <2>1, <2>2, <2>3, <2>4, PlainInv
  <1>6. CASE Announce(a) \/ CloseMain(a)
    <2> DEFINE r == [act[a] EXCEPT !.st = "committing"]
    <2>1. act' = [act EXCEPT ![a] = r] /\ groups' = groups /\ act[a].st # "free"
      BY <1>6 DEF Announce, CloseMain, To, lesson
    <2>2. /\ r.st = "committing" /\ r.size = act[a].size /\ r.seen = act[a].seen
          /\ r.deleted = act[a].deleted /\ r.added = act[a].added
      BY <1>1 DEF Requests
    <2> HIDE DEF r
    <2> QED
      BY <2>1, <2>2, PlainInv DEF OpenSteps
  <1> QED
    BY <1>2, <1>3, <1>4, <1>5, <1>6, DeleteInv, InsertInv, CommitInv DEF Teaching

LEMMA PressInv ==
  ASSUME IInv, TypeOK', NEW a \in Acts, Pressing(a)
  PROVE  IInv'
  <1>1. PICK kind, who, size : Press(a, kind, who, size)
    BY DEF Pressing
  <1> DEFINE r == [NoAct EXCEPT !.kind = kind, !.st = "loaded", !.who = who, !.size = size]
  <1>2. act' = [act EXCEPT ![a] = r] /\ groups' = groups /\ act[a].st = "free"
    BY <1>1 DEF Press, lesson
  <1>3. r.st = "loaded" /\ r.seen = {} /\ r.deleted = {} /\ r.added = {}
    BY DEF NoAct
  <1> HIDE DEF r
  <1> QED
    BY <1>2, <1>3, EmptyInv

\* Nothing a pupil does, and no token request, touches the groups.
LEMMA OthersInv ==
  ASSUME IInv, TypeOK', UNCHANGED <<act, groups>>
  PROVE  IInv'
  BY DEF IInv, Whole, Clean

LEMMA GrantingKeeps ==
  ASSUME NEW k \in Asks, Granting(k) PROVE UNCHANGED <<act, lesson>>
  BY DEF Granting, CheckLesson, is_removed, FindGroup, NoCapacity, Sign, Answer

LEMMA CallingKeeps ==
  ASSUME NEW p \in Pupils, Calling(p) PROVE UNCHANGED <<act, lesson>>
  BY DEF Calling, Join, Enter, EnterRefused, onDisconnected, Leave, onMediaBreakoutsChanged, Reopen

LEMMA InitInv == Init => IInv
  <1> SUFFICES ASSUME Init PROVE IInv
    OBVIOUS
  <1>1. /\ groups = {} /\ TypeOK
        /\ \A a \in Acts : /\ act[a].st = "free" /\ act[a].seen = {} /\ act[a].deleted = {}
                           /\ act[a].added = {}
    BY InitTypes DEF Init, NoAct
  <1> QED
    BY <1>1 DEF IInv, Whole, Clean, OpenSteps

LEMMA InvStep == IInv /\ [Next]_vars => IInv'
  <1> SUFFICES ASSUME IInv, [Next]_vars PROVE IInv'
    OBVIOUS
  <1>1. TypeOK'
    BY TypeStep DEF IInv
  <1>2. CASE UNCHANGED vars
    BY <1>1, <1>2, OthersInv DEF vars
  <1>3. ASSUME NEW k \in Asks, Granting(k) PROVE IInv'
    BY <1>1, <1>3, GrantingKeeps, OthersInv DEF lesson
  <1>4. ASSUME NEW p \in Callers, Calling(p) PROVE IInv'
    BY <1>1, <1>4, CallingKeeps, OthersInv, ClassAssumption DEF lesson, Pupils
  <1> QED
    BY <1>1, <1>2, <1>3, <1>4, TeachingInv, PressInv DEF Next

LEMMA InvCorrect == Spec => []IInv
  BY InitInv, InvStep, PTL DEF Spec

\* However splits, gatherings and ends overlap, the groups of the lesson are one
\* split's, all of them: every pupil is in exactly one.
THEOREM OneSplit == Spec => []GroupsAreOneSplit
  <1>1. IInv => GroupsAreOneSplit
    BY DEF IInv, Whole, GroupsAreOneSplit, RowsOf, NewRows
  <1> QED
    BY <1>1, InvCorrect, PTL

-----------------------------------------------------------------------------
(* The doors of the call.                                                     *)

NoNewRequest(p) == Past(p)' \subseteq Past(p)
NoNewGrant(p) == call'[p] \in {call[p], Out} \cup {ask[k].room : k \in Past(p)}
NoNewSeat(p) == seat'[p] \in {seat[p], Out, call[p]}
Shut(p) == NoNewRequest(p) /\ NoNewGrant(p) /\ NoNewSeat(p)

\* A step that leaves the token requests alone adds none that is past its check.
LEMMA SameRequests ==
  ASSUME TypeOK, UNCHANGED ask, removed \subseteq removed', NEW p \in Pupils
  PROVE  NoNewRequest(p)
  BY DEF NoNewRequest, Past

\* One that is made has yet to be checked.
LEMMA FetchedRequests ==
  ASSUME TypeOK, NEW q, NEW i, Fetch(q, i), UNCHANGED removed, NEW p \in Pupils
  PROVE  NoNewRequest(p)
  <1>1. PICK k \in Free : ask' = [ask EXCEPT ![k] = [st |-> "asked", who |-> q, room |-> i]]
    BY DEF Fetch
  <1>2. \A l \in Asks : ask'[l] = ask[l] \/ ask'[l].st = "asked"
    BY <1>1 DEF TypeOK
  <1> QED
    BY <1>2 DEF NoNewRequest, Past

LEMMA GrantingShut ==
  ASSUME TypeOK, NEW k \in Asks, Granting(k), NEW p \in Pupils, p \in removed \/ status = "ended"
  PROVE  Shut(p)
  <1>1. /\ call \in [Pupils -> Places] /\ seat \in [Pupils -> rooms \cup {Out}]
        /\ ask \in [Asks -> AskType] /\ removed' = removed
    BY GrantingKeeps DEF TypeOK, lesson
  <1>2. CASE CheckLesson(k)
    <2>1. /\ \A l \in Asks \ {k} : ask'[l] = ask[l]
          /\ ask[k].st = "asked"
          /\ \/ ask'[k].st = "free"
             \/ ask'[k].who = ask[k].who /\ ask'[k].st = "loaded" /\ status = "active"
      BY <1>1, <1>2 DEF CheckLesson, PassIf, Goes, Answered, NoAsk, AskType
    <2> QED
      BY <1>1, <1>2, <2>1 DEF CheckLesson, media, browsers, Shut, NoNewRequest, NoNewGrant,
                              NoNewSeat, Past
  <1>3. CASE is_removed(k)
    <2>1. /\ \A l \in Asks \ {k} : ask'[l] = ask[l]
          /\ ask[k].st = "loaded"
          /\ \/ ask'[k].st = "free"
             \/ /\ ask'[k].who = ask[k].who /\ ask'[k].st = "cleared"
                /\ ask[k].who \notin removed
      BY <1>1, <1>3 DEF is_removed, PassIf, Goes, Answered, NoAsk, AskType
    <2> QED
      BY <1>1, <1>3, <2>1 DEF is_removed, media, browsers, Shut, NoNewRequest, NoNewGrant,
                              NoNewSeat, Past
  <1>4. CASE FindGroup(k) \/ NoCapacity(k) \/ Sign(k)
    <2>1. /\ \A l \in Asks \ {k} : ask'[l] = ask[l]
          /\ ask[k].st \in {"cleared", "found"}
          /\ ask'[k].st = "free" \/ ask'[k].who = ask[k].who
      <3>1. CASE FindGroup(k)
        BY <1>1, <3>1 DEF FindGroup, PassIf, Goes, Answered, NoAsk, AskType
      <3>2. CASE NoCapacity(k)
        BY <1>1, <3>2 DEF NoCapacity, Answered, NoAsk
      <3>3. CASE Sign(k)
        BY <1>1, <3>3 DEF Sign, Goes, AskType
      <3> QED
        BY <1>4, <3>1, <3>2, <3>3
    <2>2. UNCHANGED <<seat, call>>
      BY <1>4 DEF FindGroup, NoCapacity, Sign, ensure_room, media, browsers
    <2> QED
      BY <1>1, <2>1, <2>2 DEF Shut, NoNewRequest, NoNewGrant, NoNewSeat, Past
  <1>5. CASE Answer(k)
    <2>1. /\ \A l \in Asks \ {k} : ask'[l] = ask[l]
          /\ ask[k].st = "granted" /\ ask'[k].st = "free"
      BY <1>1, <1>5 DEF Answer, Answered, NoAsk
    <2>2. call'[p] = call[p] \/ (ask[k].who = p /\ call'[p] = ask[k].room)
      BY <1>1, <1>5 DEF Answer
    <2>3. seat'[p] \in {seat[p], Out}
      BY <1>1, <1>5 DEF Answer
    <2> QED
      BY <1>1, <2>1, <2>2, <2>3 DEF Shut, NoNewRequest, NoNewGrant, NoNewSeat, Past
  <1> QED
    BY <1>2, <1>3, <1>4, <1>5 DEF Granting

LEMMA TeachingShut ==
  ASSUME TypeOK, NEW a \in Acts, Teaching(a) \/ Pressing(a), NEW p \in Pupils
  PROVE  Shut(p)
  <1>1. UNCHANGED <<ask, call>> /\ removed \subseteq removed'
    <2>1. CASE Teaching(a)
      BY <2>1 DEF Teaching, mark_removed, Kick, list_breakouts, Close, Delete, Insert, Collide,
                  Ensure, EnsureFails, Announce, CloseMain, Commit, lesson, browsers
    <2>2. CASE Pressing(a)
      BY <2>2 DEF Pressing, Press, lesson, browsers
    <2> QED
      BY <2>1, <2>2
  <1>2. seat'[p] \in {seat[p], Out}
    <2>1. ASSUME NEW i, close_room(i) PROVE seat'[p] \in {seat[p], Out}
      BY <2>1 DEF close_room, Disconnect
    <2>2. CASE Kick(a) \/ Close(a) \/ CloseMain(a)
      BY <2>1, <2>2 DEF Kick, Close, CloseMain, Disconnect
    <2>3. CASE Teaching(a) /\ ~(Kick(a) \/ Close(a) \/ CloseMain(a))
      BY <2>3 DEF Teaching, mark_removed, list_breakouts, Delete, Insert, Collide, Ensure,
                  ensure_room, EnsureFails, Announce, Commit, media
    <2>4. CASE Pressing(a)
      BY <2>4 DEF Pressing, Press, media
    <2> QED
      BY <2>2, <2>3, <2>4
  <1> QED
    BY <1>1, <1>2, SameRequests DEF Shut, NoNewGrant, NoNewSeat

LEMMA CallingShut ==
  ASSUME TypeOK, NEW q \in Pupils, Calling(q), NEW p \in Pupils
  PROVE  Shut(p)
  <1>1. call \in [Pupils -> Places] /\ seat \in [Pupils -> rooms \cup {Out}] /\ removed' = removed
    BY CallingKeeps DEF TypeOK, lesson
  <1>2. call'[p] \in {call[p], Out}
    BY <1>1 DEF Calling, Join, Enter, EnterRefused, onDisconnected, Leave, doLeave,
                onMediaBreakoutsChanged, Reopen, browsers
  <1>3. seat'[p] \in {seat[p], Out, call[p]}
    BY <1>1 DEF Calling, Join, Enter, EnterRefused, onDisconnected, Leave,
                onMediaBreakoutsChanged, Reopen, media
  <1>4. UNCHANGED ask \/ \E i : Fetch(q, i)
    BY DEF Calling, Join, Enter, EnterRefused, onDisconnected, Leave,
           onMediaBreakoutsChanged, Reopen, Follow
  <1> QED
    BY <1>1, <1>2, <1>3, <1>4, SameRequests, FetchedRequests DEF Shut, NoNewGrant, NoNewSeat

\* Whoever was removed, and everybody once the lesson has ended, gets no new way
\* in: a grant comes from a request past its check, and no request passes it.
THEOREM DoorsShut == Spec => DoorsStayShut
  <1>1. ASSUME TypeOK, [Next]_vars, NEW p \in Pupils, p \in removed \/ status = "ended"
        PROVE  UNCHANGED vars \/ Shut(p)
    <2>1. ASSUME NEW q \in Callers, Calling(q) PROVE Shut(p)
      BY <1>1, <2>1, CallingShut, ClassAssumption DEF Pupils
    <2> QED
      BY <1>1, <2>1, GrantingShut, TeachingShut DEF Next
  <1>2. TypeOK /\ [Next]_vars =>
          [\A p \in Pupils : p \in removed \/ status = "ended" =>
             /\ Past(p)' \subseteq Past(p)
             /\ call'[p] \in {call[p], Out} \cup {ask[k].room : k \in Past(p)}
             /\ seat'[p] \in {seat[p], Out, call[p]}]_vars
    BY <1>1 DEF Shut, NoNewRequest, NoNewGrant, NoNewSeat
  <1> QED
    BY <1>2, TypeCorrect, PTL DEF Spec, DoorsStayShut
=============================================================================
