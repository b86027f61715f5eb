---------------------------- MODULE LessonEditor ----------------------------
(***************************************************************************)
(* Authoring of a lesson: the editor page, which holds the whole lesson in *)
(* the browser and writes it back by a debounced autosave, the panel of    *)
(* the course page, which puts an exercise into a lesson it was told about *)
(* earlier, the exercise library, and the server, which stores a lesson as *)
(* one document and keeps its references to exercises.                     *)
(*                                                                         *)
(*   edit/page.tsx, lesson-pages.ts, adopt-exercises.ts,                   *)
(*   exercise-block-state.ts, add-exercise.ts, lesson-elements-panel.tsx   *)
(*   courses/service.py, courses/lesson_blocks.py, exercises/service.py    *)
(*                                                                         *)
(* A page of the browser is opened once: reopening a lesson is another     *)
(* element of Editors.  A request to the server is a record that moves     *)
(* through its states.  Saving, creating and deleting each read in one     *)
(* statement what a later one of the same transaction relies on, with no   *)
(* lock in between: each is a step that reads and a step that writes and   *)
(* commits, and the request carries what it has read.                      *)
(***************************************************************************)
EXTENDS Integers, Sequences, FiniteSets, SequencesExt

CONSTANTS
  Editors,      \* openings of the lesson editor, each used once
  Panels,       \* openings of the course page with its panel
  Catalogue,    \* the page of the exercise library
  Lessons,
  Legacy,       \* lessons whose content is the config of an old type
  Exercises,
  Unset,        \* in place of its exercise, a block whose type is not picked yet
  Shown,        \* which lesson each page may be opened on
  FirstSaved,   \* the lesson contents to begin with
  FirstLibrary, \* the exercises that exist to begin with
  MaxActs,      \* bound: what the teachers do, in all
  MaxFaults,    \* bound: requests or answers that are lost
  MaxTurns      \* bound: the two together

Untitled == -1              \* what an empty title is saved as
NoDoc == [title |-> Untitled, old |-> FALSE, pages |-> <<>>]
Pages == Editors \cup Panels

ASSUME BoundsAssumption == {MaxActs, MaxFaults, MaxTurns} \subseteq Nat
ASSUME PagesAssumption == Editors \cap Panels = {} /\ Catalogue \notin Pages
                          /\ Legacy \subseteq Lessons
                          /\ Shown \subseteq [Pages -> Lessons]
ASSUME LibraryAssumption == FirstLibrary \subseteq Exercises /\ Unset \notin Exercises

VARIABLES
  saved,      \* lesson -> the stored document
  library,    \* exercise -> "unborn", "live" or "deleted"
  phase,      \* page -> its life
  at,         \* page -> the lesson it shows
  doc,        \* page -> the document it holds (the prop `content` of a panel)
  load,       \* editor -> the answers of the first fetch that are in
  timers,     \* armed debounce timers
  saves,      \* PUTs of a lesson under way
  creations,  \* POSTs of an exercise under way
  deletions,  \* DELETEs of an exercise under way
  acts,       \* how many times a teacher has acted; names what is new
  faults,
  seen,       \* history: page -> the blocks it has ever held
  removed,    \* history: the blocks a teacher took away
  overtaken,  \* history: <<lesson, exercise>> of which a write and the deletion overlapped
  newest,     \* history: editor -> its last save, counted
  last        \* history: lesson -> the save whose document it last became, or None

vars == <<saved, library, phase, at, doc, load, timers, saves,
          creations, deletions, acts, faults, seen, removed, overtaken, newest, last>>
server == <<saved, library, overtaken, last>>
browser == <<phase, at, doc, load, timers, seen, newest>>
requests == <<saves, creations, deletions>>

None == <<"none", 0>>

\* A block has a name by who made it: it was stored before, or put in by a page, by the
\* server or by the adoption of an exercise.  Its ref is the exercise, or its text.
BlockIds == ({"stored", "block"} \X Nat) \cup ({"server", "adopted"} \X Exercises)
BlockT == [id : BlockIds, kind : {"text", "exercise"},
           ref : Nat \cup Exercises \cup {Unset}, order : Nat]
PageT == [id : {"page"} \X Nat, title : Nat, blocks : Seq(BlockT)]
Docs == [title : Int, old : BOOLEAN, pages : Seq(PageT)]

-----------------------------------------------------------------------------
(* The document: pages of blocks, lesson-pages.ts and its two counterparts  *)
(* on the server.                                                           *)

Block(id, kind, ref, order) == [id |-> id, kind |-> kind, ref |-> ref, order |-> order]
blankPage(n) == [id |-> <<"page", n>>, title |-> 0, blocks |-> <<>>]
singlePage == <<blankPage(0)>>

flattenPages(pages) == FlattenSeq([i \in DOMAIN pages |-> pages[i].blocks])
Blocks(pages) == UNION {Range(pages[i].blocks) : i \in DOMAIN pages}
Ids(pages) == {b.id : b \in Blocks(pages)}
Refs(pages) == {b.ref : b \in {c \in Blocks(pages) : c.kind = "exercise" /\ c.ref # Unset}}

\* The elements of s that are in K.
Kept(s, K) ==
  LET upto[n \in 0 .. Len(s)] ==
        IF n = 0 THEN <<>> ELSE IF s[n] \in K THEN Append(upto[n - 1], s[n]) ELSE upto[n - 1]
  IN  upto[Len(s)]

\* A stable sort: a block comes after those of a smaller order and the earlier ones of its own.
sorted(blocks) ==
  LET before(i) == {j \in DOMAIN blocks : blocks[j].order < blocks[i].order
                                          \/ (blocks[j].order = blocks[i].order /\ j < i)}
  IN  [k \in DOMAIN blocks |->
         blocks[CHOOSE i \in DOMAIN blocks : Cardinality(before(i)) = k - 1]]

Positioned(blocks) == [i \in DOMAIN blocks |-> [blocks[i] EXCEPT !.order = i - 1]]

\* The pages of a stored lesson, at least one; content of an old type has none.
extractPages(content) ==
  IF content.pages = <<>> THEN singlePage
  ELSE [i \in DOMAIN content.pages |-> [content.pages[i] EXCEPT !.blocks = sorted(@)]]

\* Pages back into content: positions are derived, everything else is dropped.
buildPagesContent(pages) ==
  [i \in DOMAIN pages |-> [pages[i] EXCEPT !.blocks = Positioned(@)]]

\* Put a block at the end of one page, the last one when that page is gone.
AppendBlock(pages, index, id, x) ==
  LET target == IF index \in DOMAIN pages THEN index ELSE Len(pages)
  IN  [pages EXCEPT ![target].blocks =
         Append(@, Block(id, "exercise", x, Len(@)))]

\* The stored lesson with a block for the exercise, unless it has one.
with_exercise_block(content, x) ==
  LET pages == IF content.pages = <<>> THEN singlePage ELSE content.pages
  IN  IF x \in Refs(content.pages) THEN content
      ELSE [content EXCEPT !.pages = AppendBlock(pages, Len(pages), <<"server", x>>, x)]

Without(blocks, x) == Kept(blocks, {b \in Range(blocks) : b.kind = "exercise" => b.ref # x})

\* mutant: the blocks that stay keep their old positions
content_with_gaps(content, x) ==
  [content EXCEPT !.pages = [i \in DOMAIN @ |-> [@[i] EXCEPT !.blocks = Without(@, x)]]]

\* The pages without the blocks of an exercise, closed up.
closedUp(pages, x) ==
  [i \in DOMAIN pages |-> [pages[i] EXCEPT !.blocks = Positioned(Without(@, x))]]

\* The stored lesson closed up over the blocks of a deleted exercise.
content_without_block(content, x) ==
  IF x \notin Refs(content.pages) THEN content
  ELSE [content EXCEPT !.pages = closedUp(@, x)]

\* Exercises of the lesson that no block shows become blocks of the last page.
adoptDetachedExercises(pages, ids) ==
  LET embedded == Refs(pages)
      n == Len(flattenPages(pages))
      free == Kept(ids, Range(ids) \ embedded)
      new == [k \in DOMAIN free |-> Block(<<"adopted", free[k]>>, "exercise", free[k], n + k)]
  IN  [pages EXCEPT ![Len(pages)].blocks = @ \o new]

\* A lesson shows an exercise at most once ("one exercise twice in a lesson is a
\* slip", add-exercise.ts) and has no two blocks of one name.
Shows(b) == b.kind = "exercise" /\ b.ref # Unset
Differ(b, c) == b.id # c.id /\ (Shows(b) /\ Shows(c) => b.ref # c.ref)
OnePage(blocks) == \A j, k \in DOMAIN blocks : j # k => Differ(blocks[j], blocks[k])
ShownOnce(pages) ==
  /\ \A i \in DOMAIN pages : OnePage(pages[i].blocks)
  /\ \A i, j \in DOMAIN pages : i # j =>
       \A b \in Range(pages[i].blocks), c \in Range(pages[j].blocks) : Differ(b, c)

InPosition(pages) == \A i \in DOMAIN pages : pages[i].blocks = Positioned(pages[i].blocks)

\* The rows to begin with: no exercise twice, none that does not exist.
ASSUME StoredAssumption ==
  /\ FirstSaved \in [Lessons -> Docs]
  /\ \A l \in Lessons :
       /\ ShownOnce(FirstSaved[l].pages) /\ InPosition(FirstSaved[l].pages)
       /\ Refs(FirstSaved[l].pages) \subseteq FirstLibrary
       /\ \A b \in Blocks(FirstSaved[l].pages) : b.id[1] = "stored"

Live == {x \in Exercises : library[x] = "live"}
Unborn == {x \in Exercises : library[x] = "unborn"}   \* names not yet given

\* GET /exercises/by-lesson: the exercises the stored blocks name, in the order of
\* their first blocks.
get_exercises_by_lesson(l) ==
  LET blocks == flattenPages(saved[l].pages)
      named == {i \in DOMAIN blocks : blocks[i].kind = "exercise" /\ blocks[i].ref \in Live}
      first == {i \in named : \A j \in named : blocks[j].ref = blocks[i].ref => i <= j}
      firsts == Kept([i \in DOMAIN blocks |-> i], first)
  IN  [k \in DOMAIN firsts |-> blocks[firsts[k]].ref]

\* A teacher may still act, or a request be lost.
Turn == acts + faults < MaxTurns

-----------------------------------------------------------------------------
(* The editor page: opening.                                               *)

Init ==
  /\ saved = FirstSaved
  /\ library = [x \in Exercises |-> IF x \in FirstLibrary THEN "live" ELSE "unborn"]
  /\ phase = [p \in Pages |-> "unopened"]
  /\ at \in Shown
  /\ doc = [p \in Pages |-> NoDoc]
  /\ load = [e \in Editors |-> [lesson |-> <<>>, list |-> <<>>]]
  /\ timers = {} /\ saves = {} /\ creations = {} /\ deletions = {}
  /\ acts = 0 /\ faults = 0
  /\ seen = [p \in Pages |-> {}] /\ removed = {} /\ overtaken = {}
  /\ newest = [e \in Editors |-> 0] /\ last = [l \in Lessons |-> None]

\* The route is entered: three GETs go out together.
Open(e) ==
  /\ phase[e] = "unopened"
  /\ phase' = [phase EXCEPT ![e] = "loading"]
  /\ UNCHANGED <<server, requests, acts, faults, removed>>
  /\ UNCHANGED <<at, doc, load, timers, seen, newest>>

\* The answer with the lesson, and the one with its exercises: no order.
GetLesson(e) ==
  /\ phase[e] = "loading" /\ load[e].lesson = <<>>
  /\ load' = [load EXCEPT ![e].lesson = <<saved[at[e]]>>]
  /\ UNCHANGED <<server, requests, acts, faults, removed>>
  /\ UNCHANGED <<phase, at, doc, timers, seen, newest>>

GetExercises(e) ==
  /\ phase[e] = "loading" /\ load[e].list = <<>>
  /\ load' = [load EXCEPT ![e].list = <<get_exercises_by_lesson(at[e])>>]
  /\ UNCHANGED <<server, requests, acts, faults, removed>>
  /\ UNCHANGED <<phase, at, doc, timers, seen, newest>>

\* An edit re-creates triggerSave, whose effect drops the armed timer of this
\* page and arms one that will save the document as it is now.
triggerSave(e, d) ==
  /\ timers' = {t \in timers : t.page # e}
                 \cup {[page |-> e, doc |-> d, seen |-> seen'[e]]}

\* All answers are in.  A lesson of an old type is refused; any other fills the
\* page, and since that changes the state, it is saved again.
Loaded(e) ==
  /\ phase[e] = "loading" /\ load[e].lesson # <<>> /\ load[e].list # <<>>
  /\ load' = [load EXCEPT ![e] = [lesson |-> <<>>, list |-> <<>>]]
  /\ IF at[e] \in Legacy
       THEN /\ phase' = [phase EXCEPT ![e] = "legacy"]
            /\ UNCHANGED <<doc, timers, seen>>
       ELSE LET lesson == load[e].lesson[1]
                pages == adoptDetachedExercises(extractPages(lesson), load[e].list[1])
                d == [lesson EXCEPT !.pages = pages]
            IN  /\ phase' = [phase EXCEPT ![e] = "editing"]
                /\ doc' = [doc EXCEPT ![e] = d]
                /\ seen' = [seen EXCEPT ![e] = Ids(pages)]
                /\ triggerSave(e, d)
  /\ UNCHANGED <<server, requests, acts, faults, removed, at, newest>>

\* One of the answers is an error.  The page opens on a blank document, the
\* flag initialLoadRef is set all the same, and the next edit will be saved.
LoadFails(e) ==
  /\ phase[e] = "loading" /\ faults < MaxFaults /\ Turn
  /\ faults' = faults + 1
  /\ phase' = [phase EXCEPT ![e] = "editing"]
  /\ doc' = [doc EXCEPT ![e] = [NoDoc EXCEPT !.pages = singlePage]]
  /\ load' = [load EXCEPT ![e] = [lesson |-> <<>>, list |-> <<>>]]
  /\ UNCHANGED <<server, requests, acts, removed>>
  /\ UNCHANGED <<at, timers, seen, newest>>

-----------------------------------------------------------------------------
(* The editor page: what a teacher does to the document.                   *)

\* The n-th thing a teacher does leaves page e holding pages ps and title ti;
\* the blocks in gone were taken away by hand.
Edit(e, ti, ps, gone) ==
  LET d == [doc[e] EXCEPT !.title = ti, !.pages = ps]
  IN  /\ phase[e] = "editing" /\ acts < MaxActs /\ Turn
      /\ acts' = acts + 1
      /\ doc' = [doc EXCEPT ![e] = d]
      /\ seen' = [seen EXCEPT ![e] = @ \cup Ids(ps)]
      /\ removed' = removed \cup gone
      /\ triggerSave(e, d)
      /\ UNCHANGED <<server, requests, faults, phase, at, load, newest>>

New == acts + 1
Titled(e) == doc[e].title
Ps(e) == doc[e].pages

EditTitle(e) == Edit(e, New, Ps(e), {})

\* The pages with another ref for the block id, and without it.
SetRef(ps, id, ref) ==
  [i \in DOMAIN ps |-> [ps[i] EXCEPT !.blocks =
     [k \in DOMAIN @ |-> IF @[k].id = id THEN [@[k] EXCEPT !.ref = ref] ELSE @[k]]]]

DropBlock(ps, id) ==
  [i \in DOMAIN ps |-> [ps[i] EXCEPT !.blocks = Kept(@, {b \in Range(@) : b.id # id})]]

\* The body of a text block is typed into.
updateBlock(e) ==
  \E b \in Blocks(Ps(e)) :
    /\ b.kind = "text"
    /\ Edit(e, Titled(e), SetRef(Ps(e), b.id, New), {})

\* mutant: splice replaces the block at the position
OverwriteBlock(e) ==
  \E i \in DOMAIN Ps(e), kind \in {"text", "exercise"} :
    \E k \in DOMAIN Ps(e)[i].blocks :
      Edit(e, Titled(e),
           [Ps(e) EXCEPT ![i].blocks =
              ReplaceAt(@, k, Block(<<"block", New>>, kind,
                                    IF kind = "text" THEN New ELSE Unset, k - 1))], {})

\* A block of either kind is put in at a position of a page.
addBlock(e) ==
  \E i \in DOMAIN Ps(e), kind \in {"text", "exercise"} :
    \E k \in 1 .. Len(Ps(e)[i].blocks) + 1 :
      Edit(e, Titled(e),
           [Ps(e) EXCEPT ![i].blocks =
              InsertAt(@, k, Block(<<"block", New>>, kind,
                                   IF kind = "text" THEN New ELSE Unset, k - 1))], {})

addPage(e) == Edit(e, Titled(e), Append(Ps(e), blankPage(New)), {})

movePage(e) ==
  \E i \in DOMAIN Ps(e) :
    /\ i + 1 \in DOMAIN Ps(e)
    /\ Edit(e, Titled(e), [Ps(e) EXCEPT ![i] = Ps(e)[i + 1], ![i + 1] = Ps(e)[i]], {})

\* mutant: the last page can be deleted like any other
DropPage(e) ==
  \E i \in DOMAIN Ps(e) : Edit(e, Titled(e), RemoveAt(Ps(e), i), Ids(<<Ps(e)[i]>>))

\* The last page is emptied, any other goes with its blocks; the exercises of
\* the blocks are left alone.
deletePage(e) ==
  \E i \in DOMAIN Ps(e) :
    Edit(e, Titled(e),
         IF Len(Ps(e)) = 1 THEN <<blankPage(New)>> ELSE RemoveAt(Ps(e), i),
         Ids(<<Ps(e)[i]>>))

renamePage(e) ==
  \E i \in DOMAIN Ps(e) : Edit(e, Titled(e), [Ps(e) EXCEPT ![i].title = New], {})

\* A block is dragged to another place of its page.
handleDragEnd(e) ==
  \E i \in DOMAIN Ps(e) : \E j, k \in DOMAIN Ps(e)[i].blocks :
    /\ j # k
    /\ Edit(e, Titled(e),
            [Ps(e) EXCEPT ![i].blocks = InsertAt(RemoveAt(@, j), k, @[j])], {})

Request(kind, p, n, b, x, i, d) ==
  [kind |-> kind, page |-> p, n |-> n, block |-> b, ex |-> x, index |-> i,
   doc |-> d, lessons |-> {}, st |-> "sent"]

\* A block is deleted, after the dialog.  One that names an exercise deletes
\* the exercise first, and stays on the page until the answer.
deleteBlock(e) ==
  \E b \in Blocks(Ps(e)) :
    IF b.kind = "text" \/ b.ref = Unset
      THEN Edit(e, Titled(e), DropBlock(Ps(e), b.id), {b.id})
      ELSE /\ phase[e] = "editing" /\ acts < MaxActs /\ Turn
           /\ acts' = acts + 1
           /\ deletions' = deletions \cup {Request("delete", e, New, b.id, b.ref, 0, NoDoc)}
           /\ UNCHANGED <<server, browser, saves, creations, faults, removed>>

\* The exercise of a deletion is gone, or the request failed: the block goes.
DeleteAnswered(r) ==
  /\ r.st \in {"done", "failed"}
  /\ deletions' = deletions \ {r}
  /\ IF r.page \in Editors /\ phase[r.page] = "editing"
       THEN LET e == r.page
                d == [doc[e] EXCEPT !.pages = DropBlock(@, r.block)]
            IN  /\ doc' = [doc EXCEPT ![e] = d]
                /\ removed' = removed \cup {r.block}
                /\ UNCHANGED seen
                /\ triggerSave(e, d)
       ELSE UNCHANGED <<doc, removed, seen, timers>>
  /\ UNCHANGED <<server, saves, creations, acts, faults, phase, at, load, newest>>

\* A type is picked for an empty exercise block: the exercise is created at once.
createAndAttachExercise(e) ==
  /\ phase[e] = "editing" /\ acts < MaxActs /\ Turn
  /\ acts' = acts + 1
  /\ \E b \in {c \in Blocks(Ps(e)) : c.kind = "exercise" /\ c.ref = Unset} :
       creations' = creations \cup {Request("create", e, New, b.id, Unset, 0, NoDoc)}
  /\ UNCHANGED <<server, browser, saves, deletions, faults, removed>>

\* mutant: the attached exercise is only shown, not saved
AttachQuietly(c) ==
  /\ c.st = "created" /\ c.page \in Editors /\ phase[c.page] = "editing"
  /\ doc' = [doc EXCEPT ![c.page].pages = SetRef(@, c.block, c.ex)]
  /\ creations' = creations \ {c}
  /\ UNCHANGED <<server, saves, deletions, acts, faults, phase, at, load,
                 newest, removed, seen, timers>>

\* The answer to a creation: the block names the exercise.
Attach(c) ==
  /\ c.st = "created" /\ c.page \in Editors
  /\ creations' = creations \ {c}
  /\ IF phase[c.page] = "editing"
       THEN LET e == c.page
                d == [doc[e] EXCEPT !.pages = SetRef(@, c.block, c.ex)]
            IN  /\ doc' = [doc EXCEPT ![e] = d]
                /\ UNCHANGED seen
                /\ triggerSave(e, d)
       ELSE UNCHANGED <<doc, seen, timers>>
  /\ UNCHANGED <<server, saves, deletions, acts, faults, phase, at, load,
                 newest, removed>>

-----------------------------------------------------------------------------
(* The editor page: the autosave, and the end of the page.                 *)

Save(p, n, d, held) ==
  [page |-> p, n |-> n, lesson |-> at[p], doc |-> d, seen |-> held, writes |-> {},
   st |-> "sent"]

\* 1200 ms after the last edit.  A page that was left for another route still
\* has its timer; only the browser tab takes it along.
Fire(t) ==
  /\ timers' = timers \ {t}
  /\ newest' = [newest EXCEPT ![t.page] = @ + 1]
  /\ saves' = saves \cup {Save(t.page, newest'[t.page], t.doc, t.seen)}
  /\ UNCHANGED <<server, creations, deletions, acts, faults, removed>>
  /\ UNCHANGED <<phase, at, doc, load, seen>>

\* The answer, which only the page's indicator shows.
Saved(s) ==
  /\ s.st \in {"written", "refused", "failed"} /\ s.page \in Editors
  /\ saves' = saves \ {s}
  /\ UNCHANGED <<server, creations, deletions, acts, faults, removed>>
  /\ UNCHANGED <<phase, at, doc, load, timers, seen, newest>>

\* Another route of the application, or the tab is closed: the document is gone.
Leave(e) ==
  /\ phase[e] = "editing"
  /\ phase' = [phase EXCEPT ![e] = "left"]
  /\ doc' = [doc EXCEPT ![e] = NoDoc]
  /\ seen' = [seen EXCEPT ![e] = {}]
  /\ \/ UNCHANGED timers
     \/ timers' = {t \in timers : t.page # e}
  /\ UNCHANGED <<server, requests, acts, faults, removed>>
  /\ UNCHANGED <<at, load, newest>>

-----------------------------------------------------------------------------
(* The panel of the course page: add-exercise.ts and its caller.           *)

\* The course is fetched, when the page opens and after the panel's own change.
fetchCourse(p) ==
  /\ phase[p] \in {"unopened", "refetching"}
  /\ phase' = [phase EXCEPT ![p] = "open"]
  /\ doc' = [doc EXCEPT ![p] = saved[at[p]]]
  /\ seen' = [seen EXCEPT ![p] = Ids(saved[at[p]].pages)]
  /\ UNCHANGED <<server, requests, acts, faults, removed>>
  /\ UNCHANGED <<at, load, timers, newest>>

busy(p) == \E r \in creations \cup saves : r.page = p

\* The panel's buttons work unless a change of its own is under way; the
\* content they start from is the one of the last fetch that has arrived.
Ready(p) == phase[p] \in {"open", "refetching"} /\ ~busy(p) /\ acts < MaxActs /\ Turn

\* A new exercise for a page of the lesson: first into the library.
add(p) ==
  /\ Ready(p)
  /\ acts' = acts + 1
  /\ \E i \in DOMAIN extractPages(doc[p]) :
       creations' = creations
         \cup {Request("create", p, New, <<"block", New>>, Unset, i, doc[p])}
  /\ UNCHANGED <<server, browser, saves, deletions, faults, removed>>

\* ... then the lesson, as the panel knew it, with one more block.
addExerciseToPage(c) ==
  /\ c.st = "created" /\ c.page \in Panels
  /\ creations' = creations \ {c}
  /\ saves' = saves \cup {Save(c.page, c.n,
       [c.doc EXCEPT !.pages = AppendBlock(extractPages(c.doc), c.index, c.block, c.ex)],
       Ids(c.doc.pages))}
  /\ UNCHANGED <<server, browser, deletions, acts, faults, removed>>

\* An exercise of the library is put into the lesson, unless it is there.
placeExistingInPage(p) ==
  /\ Ready(p)
  /\ acts' = acts + 1
  /\ \E x \in Live, i \in DOMAIN extractPages(doc[p]) :
       IF x \in Refs(extractPages(doc[p]))
         THEN phase' = [phase EXCEPT ![p] = "refetching"] /\ UNCHANGED saves
         ELSE /\ saves' = saves \cup {Save(p, New,
                   [doc[p] EXCEPT !.pages =
                      AppendBlock(extractPages(doc[p]), i, <<"block", New>>, x)],
                   Ids(doc[p].pages))}
              /\ UNCHANGED phase
  /\ UNCHANGED <<server, creations, deletions, faults, removed>>
  /\ UNCHANGED <<at, doc, load, timers, seen, newest>>

\* The panel's change is done: onChanged starts a fetch, and nobody waits for it.
onChanged(s) ==
  /\ s.st \in {"written", "refused", "failed"} /\ s.page \in Panels
  /\ saves' = saves \ {s}
  /\ phase' = [phase EXCEPT ![s.page] = IF s.st = "written" THEN "refetching" ELSE @]
  /\ UNCHANGED <<server, creations, deletions, acts, faults, removed>>
  /\ UNCHANGED <<at, doc, load, timers, seen, newest>>

-----------------------------------------------------------------------------
(* The server.                                                             *)

Moved(s, st) == saves' = (saves \ {s}) \cup {[s EXCEPT !.st = st]}

\* The row a save asks for: the editor sends title and content, the panel the content.
Sent(s) ==
  [title |-> IF s.page \in Editors THEN s.doc.title ELSE saved[s.lesson].title,
   old |-> FALSE, pages |-> buildPagesContent(s.doc.pages)]

\* The columns the session will write: those whose values are not the ones it has read.
Dirty(s) ==
  (IF Sent(s).title # saved[s.lesson].title THEN {"title"} ELSE {})
  \cup (IF [Sent(s) EXCEPT !.title = 0] # [saved[s.lesson] EXCEPT !.title = 0]
          THEN {"content"} ELSE {})

Accepted(s) ==
  saves' = (saves \ {s}) \cup {[s EXCEPT !.st = "checked", !.writes = Dirty(s)]}

\* mutant: a lesson is stored with whatever references it comes with
CheckNothing(s) ==
  /\ s.st = "sent"
  /\ Accepted(s)
  /\ UNCHANGED <<server, browser, creations, deletions, acts, faults, removed>>

\* First statements of update_lesson: the row is read, and every exercise a block
\* names exists.  (An exercise never comes back: one that exists at the check
\* existed at the read.)
check_blocks(s) ==
  /\ s.st = "sent"
  /\ IF Refs(s.doc.pages) \subseteq Live THEN Accepted(s) ELSE Moved(s, "refused")
  /\ UNCHANGED <<server, browser, creations, deletions, acts, faults, removed>>

\* Lesson l is written with references X behind the back of a deletion, which has
\* looked for the lessons to clear and has not found this one.
Missed(l, X) ==
  {<<l, r.ex>> : r \in {d \in deletions : d.st = "found" /\ d.ex \in X /\ l \notin d.lessons}}

\* The row after the UPDATE, which names only the columns to be written.
Written(s) ==
  LET was == saved[s.lesson]
  IN  [title |-> IF "title" \in s.writes THEN s.doc.title ELSE was.title,
       old |-> IF "content" \in s.writes THEN FALSE ELSE was.old,
       pages |-> IF "content" \in s.writes THEN buildPagesContent(s.doc.pages) ELSE was.pages]

\* The write and the commit.
update_lesson(s) ==
  /\ s.st = "checked"
  /\ Moved(s, "written")
  /\ saved' = [saved EXCEPT ![s.lesson] = Written(s)]
  /\ last' = [last EXCEPT ![s.lesson] = IF Written(s) = Sent(s) THEN <<s.page, s.n>> ELSE None]
  /\ overtaken' = overtaken \cup
       (IF "content" \in s.writes THEN Missed(s.lesson, Refs(s.doc.pages)) ELSE {})
  /\ UNCHANGED <<library, browser, creations, deletions, acts, faults, removed>>

\* The lessons as content cs; one that is rewritten is no page's last save.
Stored(cs) ==
  /\ saved' = cs
  /\ last' = [l \in Lessons |-> IF cs[l] = saved[l] THEN last[l] ELSE None]

\* A creation that names a lesson (the editor's does, the panel's does not) inserts
\* the row of the exercise and then reads the lesson.  The row refers to the lesson,
\* so the lesson is kept from locks FOR UPDATE until the creation commits.
read_lesson(c) ==
  /\ c.st = "sent" /\ c.page \in Editors
  /\ creations' = (creations \ {c}) \cup {[c EXCEPT !.st = "read", !.doc = saved[at[c.page]]]}
  /\ UNCHANGED <<server, browser, saves, deletions, acts, faults, removed>>

\* The lessons with a block for x put into the content that c has read of its own.
With(c, x) ==
  IF c.page \in Editors
    THEN [saved EXCEPT ![at[c.page]] =
            [with_exercise_block(c.doc, x) EXCEPT !.title = saved[at[c.page]].title]]
    ELSE saved

\* ... writes the whole content back, with a block for the exercise, and commits.
create_exercise(c) ==
  /\ c.st = IF c.page \in Editors THEN "read" ELSE "sent"
  /\ Unborn # {}
  /\ LET x == CHOOSE y \in Unborn : TRUE IN
       /\ library' = [library EXCEPT ![x] = "live"]
       /\ creations' = (creations \ {c}) \cup {[c EXCEPT !.st = "created", !.ex = x]}
       /\ Stored(With(c, x))
  /\ overtaken' = overtaken \cup
       (IF c.page \in Editors THEN Missed(at[c.page], Refs(c.doc.pages)) ELSE {})
  /\ UNCHANGED <<browser, saves, deletions, acts, faults, removed>>

\* The lessons that hold the exercise, as the snapshot of the SELECT ... FOR UPDATE has them.
lessons_holding(r) ==
  /\ r.st = "sent"
  /\ deletions' = (deletions \ {r}) \cup
       {IF r.ex \in Live
          THEN [r EXCEPT !.st = "found",
                         !.lessons = {l \in Lessons : r.ex \in Refs(saved[l].pages)}]
          ELSE [r EXCEPT !.st = "failed"]}
  /\ UNCHANGED <<server, browser, saves, creations, acts, faults, removed>>

\* What will still write exercise x into a lesson: checked saves and creations that have read.
Pending(x) ==
  {<<s.lesson, x>> : s \in {t \in saves : t.st = "checked" /\ "content" \in t.writes
                                            /\ x \in Refs(t.doc.pages)}}
  \cup {<<at[c.page], x>> : c \in {d \in creations : d.st = "read" /\ x \in Refs(d.doc.pages)}}

\* The lessons found, closed up over the exercise as they are by now.
Cleared(r) ==
  [l \in Lessons |-> IF l \in r.lessons THEN content_without_block(saved[l], r.ex) ELSE saved[l]]

\* The locks, which wait for creations; the lessons, as they are under the lock, closed
\* up; the row of the exercise; the commit.  Nothing can touch those lessons from the
\* lock to the commit, and what happens to others meanwhile can as well happen before.
delete_exercise(r) ==
  /\ r.st = "found"
  /\ \A c \in creations : c.st = "read" => at[c.page] \notin r.lessons
  /\ deletions' = (deletions \ {r}) \cup {[r EXCEPT !.st = "done"]}
  /\ library' = [library EXCEPT ![r.ex] = "deleted"]
  /\ Stored(Cleared(r))
  /\ overtaken' = overtaken \cup Pending(r.ex)
  /\ UNCHANGED <<browser, saves, creations, acts, faults, removed>>

\* The content library page, in the hands of another teacher.
LibraryDelete ==
  /\ acts < MaxActs /\ Turn
  /\ acts' = acts + 1
  /\ \E x \in Live : deletions' = deletions
       \cup {Request("delete", Catalogue, New, <<"block", New>>, x, 0, NoDoc)}
  /\ UNCHANGED <<server, browser, saves, creations, faults, removed>>

\* A request or its answer is lost, or the server fails: the page is told of a failure.
SaveLost(s) ==
  /\ s.st \in {"sent", "checked", "written"} /\ faults < MaxFaults /\ Turn
  /\ faults' = faults + 1
  /\ Moved(s, "failed")
  /\ UNCHANGED <<server, browser, creations, deletions, acts, removed>>

\* Two creations that compute one display_id are among them: the later one is refused.
CreateLost(c) ==
  /\ faults < MaxFaults /\ Turn
  /\ faults' = faults + 1
  /\ creations' = creations \ {c}
  /\ UNCHANGED <<server, browser, saves, deletions, acts, removed>>

DeleteLost(r) ==
  /\ r.st \in {"sent", "found", "done"} /\ faults < MaxFaults /\ Turn
  /\ faults' = faults + 1
  /\ deletions' = (deletions \ {r}) \cup {[r EXCEPT !.st = "failed"]}
  /\ UNCHANGED <<server, browser, saves, creations, acts, removed>>

-----------------------------------------------------------------------------
Opening(e) == Open(e) \/ GetLesson(e) \/ GetExercises(e) \/ Loaded(e) \/ LoadFails(e)

Editing(e) ==
  \/ EditTitle(e) \/ updateBlock(e) \/ addBlock(e) \/ deleteBlock(e) \/ handleDragEnd(e)
  \/ addPage(e) \/ movePage(e) \/ deletePage(e) \/ renamePage(e)
  \/ createAndAttachExercise(e) \/ Leave(e)

Panel(p) == fetchCourse(p) \/ add(p) \/ placeExistingInPage(p)

\* What happens without a teacher: timers, the server, answers.
Saving == (\E t \in timers : Fire(t))
          \/ \E s \in saves : check_blocks(s) \/ update_lesson(s) \/ Saved(s) \/ onChanged(s)
Creating == \E c \in creations :
              read_lesson(c) \/ create_exercise(c) \/ Attach(c) \/ addExerciseToPage(c)
Deleting == \E r \in deletions : lessons_holding(r) \/ delete_exercise(r) \/ DeleteAnswered(r)

Losing == (\E s \in saves : SaveLost(s)) \/ (\E c \in creations : CreateLost(c))
          \/ (\E r \in deletions : DeleteLost(r))

Next ==
  \/ \E e \in Editors : Opening(e) \/ Editing(e)
  \/ \E p \in Panels : Panel(p)
  \/ Saving \/ Creating \/ Deleting \/ Losing \/ LibraryDelete

Spec == Init /\ [][Next]_vars

-----------------------------------------------------------------------------
(* Properties.                                                             *)

\* Every variable holds what its comment says (the state of the two pages, the
\* requests under way and the stored rows); an editor always has a page to write on.
TimerT == [page : Editors, doc : Docs, seen : SUBSET BlockIds]
SaveT == [page : Pages, n : Nat, lesson : Lessons, doc : Docs, seen : SUBSET BlockIds,
          writes : SUBSET {"title", "content"},
          st : {"sent", "checked", "written", "refused", "failed"}]
RequestT(kind, pages, exs, states) ==
  [kind : {kind}, page : pages, n : Nat, block : BlockIds, ex : exs,
   index : Nat, doc : Docs, lessons : SUBSET Lessons, st : states]

TypeOK ==
  /\ saved \in [Lessons -> Docs]
  /\ library \in [Exercises -> {"unborn", "live", "deleted"}]
  /\ phase \in [Pages -> {"unopened", "loading", "editing", "legacy", "left",
                          "open", "refetching"}]
  /\ at \in [Pages -> Lessons]
  /\ doc \in [Pages -> Docs]
  /\ \A e \in Editors : phase[e] = "editing" => doc[e].pages # <<>>
  /\ load \in [Editors -> [lesson : Seq(Docs), list : Seq(Seq(Exercises))]]
  /\ timers \subseteq TimerT /\ saves \subseteq SaveT
  /\ creations \subseteq RequestT("create", Pages, Exercises \cup {Unset},
                               {"sent", "read", "created"})
  /\ deletions \subseteq RequestT("delete", Editors \cup {Catalogue}, Exercises,
                               {"sent", "found", "done", "failed"})
  /\ acts \in 0 .. MaxActs /\ faults \in 0 .. MaxFaults
  /\ seen \in [Pages -> SUBSET BlockIds] /\ removed \subseteq BlockIds
  /\ overtaken \subseteq Lessons \X Exercises
  /\ newest \in [Editors -> Nat]
  /\ last \in [Lessons -> (Pages \X Nat) \cup {None}]

\* Whichever of the four writers (editor, panel, creation, deletion of an
\* exercise) stored the lesson, no exercise is shown twice and the positions
\* stored with the blocks are their positions: the rules are written separately
\* in buildPagesContent, with_exercise_block and content_without_block.
StoredPagesAreSound ==
  \A l \in Lessons : ShownOnce(saved[l].pages) /\ InPosition(saved[l].pages)

\* When the lesson last became the document of the newest save of an editor and
\* that editor has nothing armed, the server has what the editor shows: no edit, no
\* attached exercise and no removed block has missed the autosave.
RestMeansStored ==
  \A e \in Editors :
    /\ phase[e] = "editing" /\ newest[e] > 0
    /\ last[at[e]] = <<e, newest[e]>>
    /\ \A t \in timers : t.page # e
    => /\ saved[at[e]].pages = buildPagesContent(doc[e].pages)
       /\ saved[at[e]].title = doc[e].title

\* A stored block names an exercise that is gone only when a write of its lesson
\* overlapped the deletion: a save that had passed its check, or a creation that had
\* read the lesson, before the deletion committed, and that was written when the
\* deletion had cleared the lesson already or had not found it in its search.  The
\* check stops every other save, the deletion clears every lesson it found.
DanglingNeedsOverlap ==
  \A l \in Lessons : \A x \in Refs(saved[l].pages) : x \in Live \/ <<l, x>> \in overtaken

\* A save takes out of the stored lesson only blocks that a teacher removed, or
\* that its page did not hold when the save was made up: no operation of the
\* editor, no conversion and no panel drops a block it was given.
SavesKeepWhatTheySaw ==
  [][\A s \in saves :
       (s.st = "checked" /\ [s EXCEPT !.st = "written"] \in saves')
         => Ids(saved[s.lesson].pages) \cap s.seen
              \subseteq Ids(saved'[s.lesson].pages) \cup removed
    ]_vars
=============================================================================
