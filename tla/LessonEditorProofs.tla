------------------------- MODULE LessonEditorProofs -------------------------
(***************************************************************************)
(* What holds of the authoring of lessons for any editors, panels, lessons *)
(* and exercises, any pages of any blocks, and any number of acts and      *)
(* losses.                                                                 *)
(*                                                                         *)
(* The order: the operators on sequences; pages and what an operation of   *)
(* the editor, the panel or the server does to them; the invariants; the   *)
(* types; the stored pages; dangling references; the autosave at rest; the *)
(* blocks a save keeps.                                                    *)
(***************************************************************************)
EXTENDS LessonEditor, FiniteSetTheorems, SequenceTheorems, TLAPS

-----------------------------------------------------------------------------
(* Induction over the numbers, as a fact about sets of them.                   *)

\* The order on the numbers that has no infinite descent.
Below == {ss \in Nat \X Nat : ss[1] < ss[2]}

LEMMA Induction ==
  ASSUME NEW S \in SUBSET Nat, 0 \in S, \A n \in S : n + 1 \in S
  PROVE  \A n \in Nat : n \in S
  <1> SUFFICES ASSUME Nat \ S # {} PROVE FALSE
    OBVIOUS
  <1>1. IsWellFoundedOn(Below, Nat)
    BY NatLessThanWellFounded DEF OpToRel, Below
  <1>2. PICK x \in Nat \ S : \A y \in Nat \ S : ~ (<<y, x>> \in Below)
    BY <1>1, WFMin
  <1>3. x # 0 /\ x - 1 \in Nat /\ <<x - 1, x>> \in Below
    BY <1>2 DEF Below
  <1>4. x - 1 \in S
    BY <1>2, <1>3
  <1> QED
    BY <1>2, <1>3, <1>4

-----------------------------------------------------------------------------
(* The operators on sequences.                                                 *)

\* The elements kept come from the sequence in their order.
Ascending(t, s, n, f) ==
  /\ f \in [DOMAIN t -> 1 .. n]
  /\ \A j, k \in DOMAIN t : j < k => f[j] < f[k]
  /\ \A k \in DOMAIN t : t[k] = s[f[k]]

\* One step of Kept, and the function it is the last value of.
Grown(K, t, b) == IF b \in K THEN Append(t, b) ELSE t
Filtered(s, K, m, f) ==
  f = [n \in 0 .. m |-> IF n = 0 THEN <<>> ELSE Grown(K, f[n - 1], s[n])]

\* There is such a function, for every sequence and every bound.
LEMMA FilterExists ==
  ASSUME NEW s, NEW K, NEW m \in Nat
  PROVE  \E f : Filtered(s, K, m, f)
  <1> DEFINE S == {k \in Nat : \E f : Filtered(s, K, k, f)}
  <1>1. 0 \in S
    <2>1. Filtered(s, K, 0, [n \in 0 .. 0 |-> <<>>])
      BY DEF Filtered
    <2> QED
      BY <2>1
  <1>2. ASSUME NEW k \in S PROVE k + 1 \in S
    <2>1. PICK g : Filtered(s, K, k, g)
      BY <1>2
    <2> DEFINE h == [n \in 0 .. k + 1 |-> IF n <= k THEN g[n] ELSE Grown(K, g[k], s[k + 1])]
               i == [n \in 0 .. k + 1 |-> IF n = 0 THEN <<>> ELSE Grown(K, h[n - 1], s[n])]
    <2>2. \A n \in 0 .. k : g[n] = IF n = 0 THEN <<>> ELSE Grown(K, g[n - 1], s[n])
      BY <2>1 DEF Filtered
    <2>3. \A n \in 0 .. k + 1 : h[n] = IF n = 0 THEN <<>> ELSE Grown(K, h[n - 1], s[n])
      BY <2>2
    <2>4. h = i
      BY <2>3
    <2>5. Filtered(s, K, k + 1, h)
      BY <2>4 DEF Filtered
    <2> QED
      BY <2>5
  <1> HIDE DEF S
  <1>3. m \in S
    BY <1>1, <1>2, Induction DEF S
  <1> QED
    BY <1>3 DEF S

\* Kept is that function, taken to the length of the sequence.
LEMMA KeptFilters ==
  ASSUME NEW s, NEW K, Len(s) \in Nat
  PROVE  \E f : Filtered(s, K, Len(s), f) /\ Kept(s, K) = f[Len(s)]
  <1> DEFINE Upto(f) == f = [n \in 0 .. Len(s) |-> IF n = 0 THEN <<>>
                               ELSE IF s[n] \in K THEN Append(f[n - 1], s[n]) ELSE f[n - 1]]
             upto[n \in 0 .. Len(s)] == IF n = 0 THEN <<>>
                               ELSE IF s[n] \in K THEN Append(upto[n - 1], s[n]) ELSE upto[n - 1]
  <1>1. Kept(s, K) = upto[Len(s)]
    BY DEF Kept
  <1>2. upto = CHOOSE f : Upto(f)
    OBVIOUS
  <1>3. \A f : Upto(f) <=> Filtered(s, K, Len(s), f)
    BY DEF Filtered, Grown
  <1> HIDE DEF upto, Upto
  <1>4. Upto(upto)
    BY <1>2, <1>3, FilterExists
  <1> QED
    BY <1>1, <1>3, <1>4

\* Kept gives the elements of s in K, all of them and in their order.
LEMMA KeptIs ==
  ASSUME NEW T, NEW s \in Seq(T), NEW K
  PROVE  /\ Kept(s, K) \in Seq(T)
         /\ Range(Kept(s, K)) = Range(s) \cap K
         /\ \E f : Ascending(Kept(s, K), s, Len(s), f)
  <1> DEFINE N == Len(s)
             From(n, t) == /\ t \in Seq(T)
                           /\ Range(t) = {s[i] : i \in 1 .. n} \cap K
                           /\ \E f : Ascending(t, s, n, f)
  <1>1. N \in Nat /\ DOMAIN s = 1 .. N /\ \A i \in 1 .. N : s[i] \in T
    OBVIOUS
  <1> HIDE DEF From
  <1>2. From(0, <<>>)
    <2>1. Ascending(<<>>, s, 0, [k \in {} |-> 0])
      BY DEF Ascending
    <2> QED
      BY <2>1 DEF From, Range
  <1>3. ASSUME NEW n \in 1 .. N, NEW t, From(n - 1, t), s[n] \in K
        PROVE  From(n, Append(t, s[n]))
    <2>1. PICK f : Ascending(t, s, n - 1, f)
      BY <1>3 DEF From
    <2> DEFINE u == Append(t, s[n])
               h == [k \in 1 .. Len(t) + 1 |-> IF k <= Len(t) THEN f[k] ELSE n]
    <2>2. /\ t \in Seq(T) /\ u \in Seq(T) /\ Len(t) \in Nat /\ DOMAIN t = 1 .. Len(t)
          /\ Len(u) = Len(t) + 1 /\ DOMAIN u = 1 .. Len(t) + 1
          /\ \A k \in 1 .. Len(t) : u[k] = t[k]
          /\ u[Len(t) + 1] = s[n]
      BY <1>1, <1>3 DEF From
    <2> HIDE DEF u
    <2>3. Ascending(u, s, n, h)
      BY <2>1, <2>2, <1>1 DEF Ascending
    <2>4. Range(u) = Range(t) \cup {s[n]}
      BY <2>2 DEF Range
    <2>5. {s[i] : i \in 1 .. n} = {s[i] : i \in 1 .. n - 1} \cup {s[n]}
      BY <1>1
    <2>6. Range(u) = {s[i] : i \in 1 .. n} \cap K
      BY <2>4, <2>5, <1>3 DEF From
    <2> QED
      BY <2>2, <2>3, <2>6 DEF From, u
  <1>4. ASSUME NEW n \in 1 .. N, NEW t, From(n - 1, t), s[n] \notin K
        PROVE  From(n, t)
    <2>1. PICK f : Ascending(t, s, n - 1, f)
      BY <1>4 DEF From
    <2>2. Ascending(t, s, n, f)
      BY <2>1, <1>1 DEF Ascending
    <2>5. {s[i] : i \in 1 .. n} = {s[i] : i \in 1 .. n - 1} \cup {s[n]}
      BY <1>1
    <2>6. Range(t) = {s[i] : i \in 1 .. n} \cap K
      BY <2>5, <1>4 DEF From
    <2> QED
      BY <2>2, <2>6, <1>4 DEF From
  <1>5. PICK f : Filtered(s, K, N, f) /\ Kept(s, K) = f[N]
    BY <1>1, KeptFilters
  <1>6. /\ f[0] = <<>>
        /\ \A n \in 1 .. N : f[n] = Grown(K, f[n - 1], s[n])
    BY <1>1, <1>5 DEF Filtered
  <1> DEFINE A == {n \in Nat : n <= N => From(n, f[n])}
  <1>7. 0 \in A
    BY <1>2, <1>6
  <1>8. ASSUME NEW n \in A PROVE n + 1 \in A
    <2> SUFFICES ASSUME n + 1 <= N PROVE From(n + 1, f[n + 1])
      OBVIOUS
    <2>1. /\ n + 1 \in 1 .. N /\ From(n + 1 - 1, f[n])
          /\ f[n + 1] = Grown(K, f[n], s[n + 1])
      BY <1>1, <1>6
    <2> QED
      BY <2>1, <1>3, <1>4 DEF Grown
  <1> HIDE DEF A
  <1>9. N \in A
    <2>1. A \in SUBSET Nat
      BY DEF A
    <2> QED
      BY <1>1, <1>7, <1>8, <2>1, Induction
  <1>10. From(N, f[N])
    BY <1>1, <1>9 DEF A
  <1> QED
    BY <1>1, <1>5, <1>10 DEF From, Range

\* FlattenSeq in the same way: what is joined so far, and all of it.
Joined(ss, m, f) == f = [i \in 1 .. m |-> IF i = 1 THEN ss[i] ELSE f[i - 1] \o ss[i]]

LEMMA JoinExists ==
  ASSUME NEW ss, NEW m \in Nat
  PROVE  \E f : Joined(ss, m, f)
  <1> DEFINE S == {k \in Nat : \E f : Joined(ss, k, f)}
  <1>1. 0 \in S
    <2>1. Joined(ss, 0, [i \in 1 .. 0 |-> <<>>])
      BY DEF Joined
    <2> QED
      BY <2>1
  <1>2. ASSUME NEW k \in S PROVE k + 1 \in S
    <2>1. PICK g : Joined(ss, k, g)
      BY <1>2
    <2> DEFINE h == [i \in 1 .. k + 1 |-> IF i <= k THEN g[i]
                       ELSE IF i = 1 THEN ss[i] ELSE g[i - 1] \o ss[i]]
               j == [i \in 1 .. k + 1 |-> IF i = 1 THEN ss[i] ELSE h[i - 1] \o ss[i]]
    <2>2. \A i \in 1 .. k : g[i] = IF i = 1 THEN ss[i] ELSE g[i - 1] \o ss[i]
      BY <2>1 DEF Joined
    <2>3. \A i \in 1 .. k + 1 : h[i] = IF i = 1 THEN ss[i] ELSE h[i - 1] \o ss[i]
      BY <2>2
    <2>4. h = j
      BY <2>3
    <2>5. Joined(ss, k + 1, h)
      BY <2>4 DEF Joined
    <2> QED
      BY <2>5
  <1> HIDE DEF S
  <1>3. m \in S
    BY <1>1, <1>2, Induction DEF S
  <1> QED
    BY <1>3 DEF S

\* The elements of the runs that are joined are of one type.
LEMMA FlattenIsSeq ==
  ASSUME NEW T, NEW ss \in Seq(Seq(T))
  PROVE  FlattenSeq(ss) \in Seq(T)
  <1> DEFINE N == Len(ss)
             Upto(f) == f = [i \in 1 .. N |-> IF i = 1 THEN ss[i] ELSE f[i - 1] \o ss[i]]
             flatten[i \in 1 .. N] == IF i = 1 THEN ss[i] ELSE flatten[i - 1] \o ss[i]
  <1>1. N \in Nat /\ \A i \in 1 .. N : ss[i] \in Seq(T)
    OBVIOUS
  <1>2. CASE N = 0
    <2>1. ss = <<>>
      BY <1>2
    <2> QED
      BY <2>1, <1>2 DEF FlattenSeq
  <1>3. CASE N # 0
    <2>1. FlattenSeq(ss) = flatten[N]
      BY <1>3 DEF FlattenSeq
    <2>2. flatten = CHOOSE f : Upto(f)
      OBVIOUS
    <2>3. \A f : Upto(f) <=> Joined(ss, N, f)
      BY DEF Joined
    <2> HIDE DEF flatten, Upto
    <2>4. Upto(flatten)
      BY <1>1, <2>2, <2>3, JoinExists
    <2>5. \A i \in 1 .. N : flatten[i] = IF i = 1 THEN ss[i] ELSE flatten[i - 1] \o ss[i]
      BY <2>4, <2>3 DEF Joined
    <2> DEFINE A == {n \in Nat : n + 1 <= N => flatten[n + 1] \in Seq(T)}
    <2>6. 0 \in A
      BY <2>5, <1>1
    <2>7. ASSUME NEW n \in A PROVE n + 1 \in A
      <3> SUFFICES ASSUME n + 1 + 1 <= N PROVE flatten[n + 1 + 1] \in Seq(T)
        OBVIOUS
      <3>1. n + 2 \in 1 .. N /\ n + 2 # 1 /\ n + 2 - 1 = n + 1 /\ n + 1 + 1 = n + 2
        BY <1>1
      <3> DEFINE k == n + 2
      <3>4. k \in 1 .. N /\ k # 1 /\ k - 1 = n + 1
        BY <3>1
      <3> HIDE DEF k
      <3>5. flatten[k] = flatten[k - 1] \o ss[k]
        BY <3>4, <2>5
      <3>2. flatten[n + 2] = flatten[n + 1] \o ss[n + 2]
        BY <3>4, <3>5 DEF k
      <3>3. flatten[n + 1] \in Seq(T) /\ ss[n + 2] \in Seq(T)
        BY <3>1, <1>1
      <3>6. flatten[n + 1] \o ss[n + 2] \in Seq(T)
        BY <3>3, ConcatProperties
      <3> QED
        BY <3>1, <3>2, <3>6
    <2> HIDE DEF A
    <2>8. N - 1 \in A
      <3>1. A \in SUBSET Nat /\ N - 1 \in Nat
        BY <1>1, <1>3 DEF A
      <3> QED
        BY <3>1, <2>6, <2>7, Induction
    <2>9. flatten[N] \in Seq(T)
      <3>1. N - 1 + 1 = N
        BY <1>1
      <3> QED
        BY <2>8, <3>1, <1>1 DEF A
    <2> QED
      BY <2>1, <2>9
  <1> QED
    BY <1>2, <1>3

\* An element more: those from there on move up by one.
LEMMA InsertAtIs ==
  ASSUME NEW s \in Seq(BlockT), NEW i \in 1 .. Len(s) + 1, NEW x \in BlockT
  PROVE  /\ InsertAt(s, i, x) \in Seq(BlockT)
         /\ Len(InsertAt(s, i, x)) = Len(s) + 1
         /\ \A k \in 1 .. Len(s) + 1 :
              InsertAt(s, i, x)[k] = IF k < i THEN s[k] ELSE IF k = i THEN x ELSE s[k - 1]
  <1> DEFINE a == SubSeq(s, 1, i - 1)
             b == SubSeq(s, i, Len(s))
             ab == a \o <<x>>
  <1>1. /\ a \in Seq(BlockT) /\ Len(a) = i - 1 /\ \A k \in 1 .. i - 1 : a[k] = s[k]
        /\ b \in Seq(BlockT) /\ Len(b) = Len(s) - i + 1 /\ \A k \in 1 .. Len(s) - i + 1 : b[k] = s[i + k - 1]
    OBVIOUS
  <1>2. InsertAt(s, i, x) = ab \o b
    BY DEF InsertAt
  <1> HIDE DEF a, b
  <1>3. ab \in Seq(BlockT) /\ Len(ab) = i /\ \A k \in 1 .. i : ab[k] = IF k < i THEN s[k] ELSE x
    BY <1>1
  <1> HIDE DEF ab
  <1>4. /\ ab \o b \in Seq(BlockT) /\ Len(ab \o b) = Len(s) + 1
        /\ \A k \in 1 .. Len(s) + 1 : (ab \o b)[k] = IF k <= i THEN ab[k] ELSE b[k - i]
    <2>1. /\ ab \o b \in Seq(BlockT) /\ Len(ab \o b) = Len(ab) + Len(b)
          /\ \A k \in 1 .. Len(ab) + Len(b) :
               (ab \o b)[k] = IF k <= Len(ab) THEN ab[k] ELSE b[k - Len(ab)]
      BY <1>1, <1>3, ConcatProperties
    <2>2. Len(ab) = i /\ Len(ab) + Len(b) = Len(s) + 1
      BY <1>1, <1>3
    <2> QED
      BY <2>1, <2>2
  <1>5. ASSUME NEW k \in 1 .. Len(s) + 1
        PROVE  (ab \o b)[k] = IF k < i THEN s[k] ELSE IF k = i THEN x ELSE s[k - 1]
    <2>1. CASE k <= i
      BY <2>1, <1>3, <1>4
    <2>2. CASE ~ (k <= i)
      <3>1. k - i \in 1 .. Len(s) - i + 1 /\ i + (k - i) - 1 = k - 1
        BY <2>2
      <3> QED
        BY <2>2, <3>1, <1>1, <1>4
    <2> QED
      BY <2>1, <2>2
  <1> QED
    BY <1>2, <1>4, <1>5

\* An element less: those behind it move down by one.
LEMMA RemoveAtIs ==
  ASSUME NEW T, NEW s \in Seq(T), NEW i \in 1 .. Len(s)
  PROVE  /\ RemoveAt(s, i) \in Seq(T)
         /\ Len(RemoveAt(s, i)) = Len(s) - 1
         /\ \A k \in 1 .. Len(s) - 1 : RemoveAt(s, i)[k] = IF k < i THEN s[k] ELSE s[k + 1]
  <1> DEFINE a == SubSeq(s, 1, i - 1)
             b == SubSeq(s, i + 1, Len(s))
  <1>1. /\ a \in Seq(T) /\ Len(a) = i - 1 /\ \A k \in 1 .. i - 1 : a[k] = s[k]
        /\ b \in Seq(T) /\ Len(b) = Len(s) - i /\ \A k \in 1 .. Len(s) - i : b[k] = s[i + k]
    OBVIOUS
  <1>2. RemoveAt(s, i) = a \o b
    BY DEF RemoveAt
  <1> HIDE DEF a, b
  <1>3. /\ a \o b \in Seq(T) /\ Len(a \o b) = Len(a) + Len(b)
        /\ \A k \in 1 .. Len(a) + Len(b) :
             (a \o b)[k] = IF k <= Len(a) THEN a[k] ELSE b[k - Len(a)]
    BY <1>1, ConcatProperties
  <1>4. Len(a) + Len(b) = Len(s) - 1
    BY <1>1
  <1>5. ASSUME NEW k \in 1 .. Len(s) - 1
        PROVE  (a \o b)[k] = IF k < i THEN s[k] ELSE s[k + 1]
    <2>1. CASE k < i
      BY <2>1, <1>1, <1>3, <1>4
    <2>2. CASE ~ (k < i)
      <3>1. k - (i - 1) \in 1 .. Len(s) - i /\ i + (k - (i - 1)) = k + 1
        BY <2>2
      <3> QED
        BY <2>2, <3>1, <1>1, <1>3, <1>4
    <2> QED
      BY <2>1, <2>2
  <1> QED
    BY <1>2, <1>3, <1>4, <1>5

-----------------------------------------------------------------------------
(* Pages and their blocks: what a change of the pages does to what they show.  *)

\* The same block, perhaps in another position.
Same(b, c) == b.id = c.id /\ b.kind = c.kind /\ b.ref = c.ref

\* The blocks t are some of s, each at most once, perhaps in other positions.
Comes(t, s) ==
  \E f \in [DOMAIN t -> DOMAIN s] :
    /\ \A j, k \in DOMAIN t : j # k => f[j] # f[k]
    /\ \A k \in DOMAIN t : Same(t[k], s[f[k]])

\* The same of the pages: every page with blocks has them from a page of its own.
PagesCome(qs, ps) ==
  \E g : /\ \A i \in DOMAIN qs : qs[i].blocks # <<>> =>
              g[i] \in DOMAIN ps /\ Comes(qs[i].blocks, ps[g[i]].blocks)
         /\ \A i, j \in DOMAIN qs :
              i # j /\ qs[i].blocks # <<>> /\ qs[j].blocks # <<>> => g[i] # g[j]

\* Every block of the one comes from a block of the other.
Covers(ps, qs) == \A b \in Blocks(qs) : \E c \in Blocks(ps) : Same(b, c)

\* Blocks that differ still do after a change of position.
LEMMA SameDiffer ==
  ASSUME NEW b, NEW c, NEW bb, NEW cc, Same(b, bb), Same(c, cc), Differ(bb, cc)
  PROVE  Differ(b, c)
  BY DEF Same, Differ, Shows

LEMMA DifferSym ==
  ASSUME NEW b, NEW c, Differ(b, c)
  PROVE  Differ(c, b)
  BY DEF Differ

\* What comes from a page that shows each exercise once does so too.
LEMMA ComesFacts ==
  ASSUME NEW t, NEW s, Comes(t, s)
  PROVE  /\ \A b \in Range(t) : \E c \in Range(s) : Same(b, c)
         /\ OnePage(s) => OnePage(t)
  <1>1. PICK f \in [DOMAIN t -> DOMAIN s] :
               /\ \A j, k \in DOMAIN t : j # k => f[j] # f[k]
               /\ \A k \in DOMAIN t : Same(t[k], s[f[k]])
    BY DEF Comes
  <1>2. \A b \in Range(t) : \E c \in Range(s) : Same(b, c)
    BY <1>1 DEF Range
  <1>3. ASSUME OnePage(s), NEW j \in DOMAIN t, NEW k \in DOMAIN t, j # k
        PROVE  Differ(t[j], t[k])
    <2>1. Differ(s[f[j]], s[f[k]])
      BY <1>1, <1>3 DEF OnePage
    <2> QED
      BY <1>1, <2>1, SameDiffer
  <1> QED
    BY <1>2, <1>3 DEF OnePage

LEMMA BlocksOf ==
  ASSUME NEW ps
  PROVE  \A b : b \in Blocks(ps) <=> \E i \in DOMAIN ps : b \in Range(ps[i].blocks)
  BY DEF Blocks

\* ... and so for pages that come from others.
LEMMA PagesComeFacts ==
  ASSUME NEW qs \in Seq(PageT), NEW ps, PagesCome(qs, ps)
  PROVE  Covers(ps, qs) /\ (ShownOnce(ps) => ShownOnce(qs))
  <1>1. PICK g :
           /\ \A i \in DOMAIN qs : qs[i].blocks # <<>> =>
                g[i] \in DOMAIN ps /\ Comes(qs[i].blocks, ps[g[i]].blocks)
           /\ \A i, j \in DOMAIN qs :
                i # j /\ qs[i].blocks # <<>> /\ qs[j].blocks # <<>> => g[i] # g[j]
    BY DEF PagesCome
  <1>2. \A i \in DOMAIN qs : \A b \in Range(qs[i].blocks) : qs[i].blocks # <<>>
    BY DEF Range
  <1>3. \A i \in DOMAIN qs : \A b \in Range(qs[i].blocks) :
           g[i] \in DOMAIN ps /\ \E c \in Range(ps[g[i]].blocks) : Same(b, c)
    BY <1>1, <1>2, ComesFacts
  <1>4. Covers(ps, qs)
    BY <1>3, BlocksOf DEF Covers
  <1>5. ASSUME ShownOnce(ps) PROVE ShownOnce(qs)
    <2>1. ASSUME NEW i \in DOMAIN qs PROVE OnePage(qs[i].blocks)
      <3>1. CASE qs[i].blocks = <<>>
        BY <3>1 DEF OnePage
      <3>2. CASE qs[i].blocks # <<>>
        BY <3>2, <1>1, <1>5, ComesFacts DEF ShownOnce
      <3> QED
        BY <3>1, <3>2
    <2>2. ASSUME NEW i \in DOMAIN qs, NEW j \in DOMAIN qs, i # j,
                 NEW b \in Range(qs[i].blocks), NEW c \in Range(qs[j].blocks)
          PROVE  Differ(b, c)
      <3>1. PICK bb \in Range(ps[g[i]].blocks) : Same(b, bb)
        BY <1>3
      <3>2. PICK cc \in Range(ps[g[j]].blocks) : Same(c, cc)
        BY <1>3
      <3>3. g[i] \in DOMAIN ps /\ g[j] \in DOMAIN ps /\ g[i] # g[j]
        BY <1>1, <1>2, <1>3, <2>2
      <3>4. Differ(bb, cc)
        BY <3>3, <1>5 DEF ShownOnce
      <3> QED
        BY <3>1, <3>2, <3>4, SameDiffer
    <2> QED
      BY <2>1, <2>2 DEF ShownOnce
  <1> QED
    BY <1>4, <1>5

LEMMA CoversFacts ==
  ASSUME NEW ps, NEW qs, Covers(ps, qs)
  PROVE  Ids(qs) \subseteq Ids(ps) /\ Refs(qs) \subseteq Refs(ps)
  <1>1. Ids(qs) \subseteq Ids(ps)
    BY DEF Covers, Ids, Same
  <1>2. Refs(qs) \subseteq Refs(ps)
    BY DEF Covers, Refs, Same
  <1> QED
    BY <1>1, <1>2

\* A page gets other blocks.
Put(ps, i, t) == [ps EXCEPT ![i].blocks = t]

\* The page that gets other blocks has them, the others are as before.
LEMMA WithBlocks ==
  ASSUME NEW ps \in Seq(PageT), NEW i \in DOMAIN ps, NEW t \in Seq(BlockT),
         NEW qs, qs = Put(ps, i, t)
  PROVE  /\ qs \in Seq(PageT) /\ Len(qs) = Len(ps) /\ DOMAIN qs = DOMAIN ps
         /\ qs[i].blocks = t
         /\ \A j \in DOMAIN ps : j # i => qs[j] = ps[j]
  <1>1. ps[i] \in PageT
    OBVIOUS
  <1>2. [ps[i] EXCEPT !.blocks = t] \in PageT /\ [ps[i] EXCEPT !.blocks = t].blocks = t
    BY <1>1 DEF PageT
  <1> DEFINE q == [ps[i] EXCEPT !.blocks = t]
  <1>3. qs = [ps EXCEPT ![i] = q]
    BY DEF Put
  <1>4. q \in PageT /\ q.blocks = t
    BY <1>2
  <1> HIDE DEF q
  <1> QED
    BY <1>3, <1>4

\* Every page gets other blocks.
Rebuilt(ps, bs, qs) == qs = [i \in DOMAIN ps |-> [ps[i] EXCEPT !.blocks = bs[i]]]

LEMMA EveryPage ==
  ASSUME NEW ps \in Seq(PageT), NEW bs, \A i \in DOMAIN ps : bs[i] \in Seq(BlockT),
         NEW qs, Rebuilt(ps, bs, qs)
  PROVE  /\ qs \in Seq(PageT) /\ Len(qs) = Len(ps) /\ DOMAIN qs = DOMAIN ps
         /\ \A i \in DOMAIN ps : qs[i].blocks = bs[i]
  <1>1. ASSUME NEW i \in DOMAIN ps
        PROVE  qs[i] \in PageT /\ qs[i].blocks = bs[i]
    <2>1. ps[i] \in PageT
      OBVIOUS
    <2> QED
      BY <2>1 DEF PageT, Rebuilt
  <1>2. DOMAIN ps = 1 .. Len(ps) /\ Len(ps) \in Nat
    OBVIOUS
  <1>3. DOMAIN qs = 1 .. Len(ps)
    BY <1>2 DEF Rebuilt
  <1>4. qs \in [1 .. Len(ps) -> PageT]
    BY <1>1, <1>2 DEF Rebuilt
  <1> QED
    BY <1>1, <1>2, <1>3, <1>4

\* One page gets blocks of its own and new ones.
LEMMA PageReplaced ==
  ASSUME NEW ps \in Seq(PageT), NEW i \in DOMAIN ps, NEW t \in Seq(BlockT), OnePage(t),
         \A b \in Range(t) : \/ \E c \in Range(ps[i].blocks) : Same(b, c)
                             \/ \A c \in Blocks(ps) : Differ(b, c),
         ShownOnce(ps), NEW qs, qs = Put(ps, i, t)
  PROVE  ShownOnce(qs)
  <1>1. /\ qs \in Seq(PageT) /\ DOMAIN qs = DOMAIN ps
        /\ qs[i].blocks = t
        /\ \A j \in DOMAIN ps : j # i => qs[j] = ps[j]
    BY WithBlocks
  <1>2. \A j \in DOMAIN qs : OnePage(qs[j].blocks)
    BY <1>1 DEF ShownOnce
  <1>3. ASSUME NEW j \in DOMAIN ps, j # i, NEW b \in Range(t), NEW c \in Range(ps[j].blocks)
        PROVE  Differ(b, c)
    <2>1. CASE \E d \in Range(ps[i].blocks) : Same(b, d)
      <3>1. PICK d \in Range(ps[i].blocks) : Same(b, d)
        BY <2>1
      <3>2. Differ(d, c)
        BY <1>3 DEF ShownOnce
      <3>3. Same(c, c)
        BY DEF Same
      <3> QED
        BY <3>1, <3>2, <3>3, SameDiffer
    <2>2. CASE \A d \in Blocks(ps) : Differ(b, d)
      BY <2>2, BlocksOf
    <2> QED
      BY <2>1, <2>2
  <1>4. ASSUME NEW j \in DOMAIN qs, NEW k \in DOMAIN qs, j # k,
               NEW b \in Range(qs[j].blocks), NEW c \in Range(qs[k].blocks)
        PROVE  Differ(b, c)
    <2>1. CASE j = i
      BY <2>1, <1>1, <1>3, <1>4
    <2>2. CASE k = i
      BY <2>2, <1>1, <1>3, <1>4, DifferSym
    <2>3. CASE j # i /\ k # i
      BY <2>3, <1>1, <1>4 DEF ShownOnce
    <2> QED
      BY <2>1, <2>2, <2>3
  <1> QED
    BY <1>2, <1>4 DEF ShownOnce

LEMMA PageIs ==
  ASSUME NEW ps \in Seq(PageT), NEW i \in DOMAIN ps
  PROVE  ps[i] \in PageT /\ ps[i].blocks \in Seq(BlockT)
  <1>1. ps[i] \in PageT
    OBVIOUS
  <1> QED
    BY <1>1 DEF PageT

\* A change of positions only.
LEMMA SameComes ==
  ASSUME NEW s, NEW t, DOMAIN t = DOMAIN s, \A k \in DOMAIN s : Same(t[k], s[k])
  PROVE  Comes(t, s)
  <1> DEFINE f == [k \in DOMAIN t |-> k]
  <1>1. f \in [DOMAIN t -> DOMAIN s] /\ \A k \in DOMAIN t : f[k] = k
    OBVIOUS
  <1> HIDE DEF f
  <1> QED
    BY <1>1 DEF Comes

LEMMA SameIsSame ==
  ASSUME NEW s
  PROVE  Comes(s, s)
  BY SameComes DEF Same

\* The positions stored with the blocks of a page are their positions.
InOrder(blocks) == \A k \in DOMAIN blocks : blocks[k].order = k - 1

\* Positioned writes the positions and nothing else.
LEMMA PositionedIs ==
  ASSUME NEW bs \in Seq(BlockT), NEW t, t = Positioned(bs)
  PROVE  /\ t \in Seq(BlockT) /\ DOMAIN t = DOMAIN bs /\ Len(t) = Len(bs)
         /\ \A k \in DOMAIN bs : Same(t[k], bs[k])
         /\ InOrder(t)
  <1>1. DOMAIN bs = 1 .. Len(bs) /\ Len(bs) \in Nat
    OBVIOUS
  <1>2. DOMAIN t = 1 .. Len(bs)
    BY <1>1 DEF Positioned
  <1>3. ASSUME NEW k \in DOMAIN bs
        PROVE  t[k] \in BlockT /\ Same(t[k], bs[k]) /\ t[k].order = k - 1
    <2>1. bs[k] \in BlockT /\ k - 1 \in Nat
      BY <1>1
    <2>2. t[k] = [bs[k] EXCEPT !.order = k - 1]
      BY DEF Positioned
    <2> QED
      BY <2>1, <2>2 DEF BlockT, Same
  <1>4. t \in [1 .. Len(bs) -> BlockT]
    BY <1>1, <1>3 DEF Positioned
  <1> QED
    BY <1>1, <1>2, <1>3, <1>4 DEF InOrder

LEMMA InOrderIs ==
  ASSUME NEW bs \in Seq(BlockT)
  PROVE  bs = Positioned(bs) <=> InOrder(bs)
  <1>1. ASSUME InOrder(bs) PROVE bs = Positioned(bs)
    <2>1. ASSUME NEW k \in DOMAIN bs PROVE [bs[k] EXCEPT !.order = k - 1] = bs[k]
      <3>1. bs[k] \in BlockT /\ bs[k].order = k - 1
        BY <1>1 DEF InOrder
      <3> QED
        BY <3>1 DEF BlockT
    <2> QED
      BY <2>1 DEF Positioned
  <1>2. ASSUME bs = Positioned(bs) PROVE InOrder(bs)
    BY <1>2, PositionedIs
  <1> QED
    BY <1>1, <1>2

\* Blocks in their positions are sorted already.
LEMMA SortedIs ==
  ASSUME NEW bs \in Seq(BlockT), InOrder(bs)
  PROVE  sorted(bs) = bs
  <1> DEFINE before(i) == {j \in DOMAIN bs : bs[j].order < bs[i].order
                                               \/ (bs[j].order = bs[i].order /\ j < i)}
  <1>1. DOMAIN bs = 1 .. Len(bs) /\ Len(bs) \in Nat
    OBVIOUS
  <1>2. ASSUME NEW i \in DOMAIN bs PROVE Cardinality(before(i)) = i - 1
    <2>1. before(i) = 1 .. (i - 1)
      BY <1>1 DEF InOrder
    <2>2. Cardinality(1 .. (i - 1)) = i - 1
      BY <1>1, FS_Interval
    <2> QED
      BY <2>1, <2>2
  <1> DEFINE rank(k) == CHOOSE i \in DOMAIN bs : Cardinality(before(i)) = k - 1
  <1>3. sorted(bs) = [k \in DOMAIN bs |-> bs[rank(k)]]
    BY DEF sorted
  <1> HIDE DEF before
  <1>4. ASSUME NEW k \in DOMAIN bs PROVE rank(k) = k
    BY <1>1, <1>2
  <1> HIDE DEF rank
  <1> QED
    BY <1>3, <1>4

\* InPosition says it of every page.
LEMMA InPositionIs ==
  ASSUME NEW ps \in Seq(PageT)
  PROVE  InPosition(ps) <=> \A i \in DOMAIN ps : InOrder(ps[i].blocks)
  <1>1. \A i \in DOMAIN ps : ps[i].blocks \in Seq(BlockT)
    BY PageIs
  <1> QED
    BY <1>1, InOrderIs DEF InPosition

\* Pages whose blocks are the same in the same places.
LEMMA PagesAlike ==
  ASSUME NEW ps, NEW qs, DOMAIN qs = DOMAIN ps,
         \A i \in DOMAIN ps : Comes(qs[i].blocks, ps[i].blocks)
  PROVE  PagesCome(qs, ps)
  <1> DEFINE g == [i \in DOMAIN ps |-> i]
  <1>1. \A i \in DOMAIN ps : g[i] = i
    OBVIOUS
  <1> HIDE DEF g
  <1> QED
    BY <1>1 DEF PagesCome

\* What is sent to the server is what is on the pages, with their positions.
LEMMA BuildIs ==
  ASSUME NEW ps \in Seq(PageT), NEW qs, qs = buildPagesContent(ps)
  PROVE  /\ qs \in Seq(PageT) /\ Len(qs) = Len(ps) /\ InPosition(qs)
         /\ PagesCome(qs, ps) /\ PagesCome(ps, qs)
  <1> DEFINE bs == [i \in DOMAIN ps |-> Positioned(ps[i].blocks)]
  <1>1. \A i \in DOMAIN ps : ps[i].blocks \in Seq(BlockT)
    BY PageIs
  <1>2. \A i \in DOMAIN ps : bs[i] = Positioned(ps[i].blocks)
    OBVIOUS
  <1>3. qs = [i \in DOMAIN ps |-> [ps[i] EXCEPT !.blocks = bs[i]]]
    BY DEF buildPagesContent
  <1> HIDE DEF bs
  <1>4. \A i \in DOMAIN ps : /\ bs[i] \in Seq(BlockT) /\ DOMAIN bs[i] = DOMAIN ps[i].blocks
                             /\ \A k \in DOMAIN bs[i] : Same(bs[i][k], ps[i].blocks[k])
                             /\ InOrder(bs[i])
    BY <1>1, <1>2, PositionedIs
  <1>5. /\ qs \in Seq(PageT) /\ Len(qs) = Len(ps) /\ DOMAIN qs = DOMAIN ps
        /\ \A i \in DOMAIN ps : qs[i].blocks = bs[i]
    <2>1. \A i \in DOMAIN ps : bs[i] \in Seq(BlockT)
      BY <1>4
    <2>2. Rebuilt(ps, bs, qs)
      BY <1>3 DEF Rebuilt
    <2> QED
      BY <2>1, <2>2, EveryPage
  <1>6. \A i \in DOMAIN ps : Comes(qs[i].blocks, ps[i].blocks)
    BY <1>4, <1>5, SameComes
  <1>7. \A b, c : Same(b, c) => Same(c, b)
    BY DEF Same
  <1>8. \A i \in DOMAIN ps : Comes(ps[i].blocks, qs[i].blocks)
    BY <1>4, <1>5, <1>7, SameComes
  <1>9. InPosition(qs)
    BY <1>4, <1>5, InPositionIs
  <1> QED
    BY <1>5, <1>6, <1>8, <1>9, PagesAlike

\* A new page shows nothing.
LEMMA BlankPages ==
  ASSUME NEW n \in Nat
  PROVE  /\ blankPage(n) \in PageT /\ blankPage(n).blocks = <<>>
         /\ <<blankPage(n)>> \in Seq(PageT) /\ <<blankPage(n)>> # <<>>
         /\ Blocks(<<blankPage(n)>>) = {}
         /\ ShownOnce(<<blankPage(n)>>) /\ InPosition(<<blankPage(n)>>)
  <1>1. blankPage(n) \in PageT /\ blankPage(n).blocks = <<>>
    BY DEF blankPage, PageT
  <1> DEFINE ps == <<blankPage(n)>>
  <1>2. ps \in Seq(PageT) /\ ps # <<>> /\ DOMAIN ps = {1} /\ ps[1].blocks = <<>>
    BY <1>1
  <1> HIDE DEF ps
  <1>3. Blocks(ps) = {}
    BY <1>2 DEF Blocks, Range
  <1>4. ShownOnce(ps)
    BY <1>2 DEF ShownOnce, OnePage
  <1>5. InPosition(ps)
    BY <1>2, InPositionIs DEF InOrder
  <1> QED
    BY <1>1, <1>2, <1>3, <1>4, <1>5 DEF ps

\* What the server stored is read back as it is.
LEMMA ExtractIs ==
  ASSUME NEW d \in Docs, InPosition(d.pages), NEW qs, qs = extractPages(d)
  PROVE  /\ qs = IF d.pages = <<>> THEN singlePage ELSE d.pages
         /\ qs \in Seq(PageT) /\ qs # <<>> /\ InPosition(qs)
         /\ Blocks(qs) = Blocks(d.pages)
         /\ ShownOnce(d.pages) => ShownOnce(qs)
  <1>1. d.pages \in Seq(PageT)
    BY DEF Docs
  <1>2. ASSUME d.pages # <<>> PROVE qs = d.pages
    <2>1. ASSUME NEW i \in DOMAIN d.pages
          PROVE [d.pages[i] EXCEPT !.blocks = sorted(@)] = d.pages[i]
      <3>1. d.pages[i] \in PageT /\ d.pages[i].blocks \in Seq(BlockT)
        BY <1>1, PageIs
      <3>2. sorted(d.pages[i].blocks) = d.pages[i].blocks
        BY <3>1, <1>1, SortedIs, InPositionIs
      <3> QED
        BY <3>1, <3>2 DEF PageT
    <2>2. qs = [i \in DOMAIN d.pages |-> [d.pages[i] EXCEPT !.blocks = sorted(@)]]
      BY <1>2 DEF extractPages
    <2>3. qs = [i \in DOMAIN d.pages |-> d.pages[i]]
      BY <2>1, <2>2
    <2> QED
      BY <1>1, <2>3
  <1>3. CASE d.pages = <<>>
    <2>1. qs = <<blankPage(0)>>
      BY <1>3 DEF extractPages, singlePage
    <2>2. Blocks(d.pages) = {}
      BY <1>3 DEF Blocks
    <2> QED
      BY <1>3, <2>1, <2>2, BlankPages DEF singlePage
  <1>4. CASE d.pages # <<>>
    BY <1>1, <1>2, <1>4
  <1> QED
    BY <1>3, <1>4

\* A block that neither a name nor an exercise of the pages clashes with.
Fresh(b, ps) == \A c \in Blocks(ps) : Differ(b, c)

\* The blocks of all pages when one gets new ones.
LEMMA BlocksWith ==
  ASSUME NEW ps \in Seq(PageT), NEW i \in DOMAIN ps, NEW t \in Seq(BlockT), NEW N,
         Range(t) = Range(ps[i].blocks) \cup N,
         NEW qs, qs = Put(ps, i, t)
  PROVE  Blocks(qs) = Blocks(ps) \cup N
  <1>1. /\ DOMAIN qs = DOMAIN ps /\ qs[i].blocks = t
        /\ \A j \in DOMAIN ps : j # i => qs[j] = ps[j]
    BY WithBlocks
  <1>2. \A b : b \in Blocks(qs) => b \in Blocks(ps) \cup N
    BY <1>1, BlocksOf
  <1>3. \A b : b \in Blocks(ps) \cup N => b \in Blocks(qs)
    BY <1>1, BlocksOf
  <1> QED
    BY <1>2, <1>3

\* A page gets new blocks besides its own.
LEMMA PageGrows ==
  ASSUME NEW ps \in Seq(PageT), NEW i \in DOMAIN ps, NEW t \in Seq(BlockT), NEW N,
         Range(t) = Range(ps[i].blocks) \cup N,
         OnePage(ps[i].blocks) /\ (\A b \in N : Fresh(b, ps)) => OnePage(t),
         NEW qs, qs = Put(ps, i, t)
  PROVE  /\ qs \in Seq(PageT) /\ Len(qs) = Len(ps)
         /\ Blocks(qs) = Blocks(ps) \cup N
         /\ ShownOnce(ps) /\ (\A b \in N : Fresh(b, ps)) => ShownOnce(qs)
  <1>1. qs \in Seq(PageT) /\ Len(qs) = Len(ps)
    BY WithBlocks
  <1>2. Blocks(qs) = Blocks(ps) \cup N
    BY BlocksWith
  <1>3. ASSUME ShownOnce(ps), \A b \in N : Fresh(b, ps) PROVE ShownOnce(qs)
    <2>1. OnePage(t)
      BY <1>3 DEF ShownOnce
    <2>2. \A b \in Range(t) : \/ \E c \in Range(ps[i].blocks) : Same(b, c)
                              \/ \A c \in Blocks(ps) : Differ(b, c)
      BY <1>3 DEF Fresh, Same
    <2> QED
      BY <1>3, <2>1, <2>2, PageReplaced
  <1> QED
    BY <1>1, <1>2, <1>3

\* A page with one block put in.
LEMMA InsertBlock ==
  ASSUME NEW s \in Seq(BlockT), NEW k \in 1 .. Len(s) + 1, NEW b \in BlockT,
         NEW t, t = InsertAt(s, k, b)
  PROVE  /\ t \in Seq(BlockT) /\ Range(t) = Range(s) \cup {b}
         /\ OnePage(s) /\ (\A c \in Range(s) : Differ(b, c)) => OnePage(t)
  <1>1. /\ t \in Seq(BlockT) /\ Len(t) = Len(s) + 1
        /\ \A j \in 1 .. Len(s) + 1 : t[j] = IF j < k THEN s[j] ELSE IF j = k THEN b ELSE s[j - 1]
    <2>1. /\ InsertAt(s, k, b) \in Seq(BlockT) /\ Len(InsertAt(s, k, b)) = Len(s) + 1
          /\ \A j \in 1 .. Len(s) + 1 : InsertAt(s, k, b)[j] =
               IF j < k THEN s[j] ELSE IF j = k THEN b ELSE s[j - 1]
      BY InsertAtIs, SMTT(60)
    <2> QED
      BY <2>1
  <1>2. Len(s) \in Nat /\ DOMAIN s = 1 .. Len(s) /\ DOMAIN t = 1 .. Len(s) + 1
    BY <1>1
  <1>3. Range(t) \subseteq Range(s) \cup {b}
    BY <1>1, <1>2 DEF Range
  <1>4. b \in Range(t)
    BY <1>1, <1>2 DEF Range
  <1>5. ASSUME NEW j \in 1 .. Len(s) PROVE s[j] \in Range(t)
    <2>1. CASE j < k
      BY <2>1, <1>1, <1>2 DEF Range
    <2>2. CASE ~ (j < k)
      <3>1. t[j + 1] = s[j] /\ j + 1 \in 1 .. Len(s) + 1
        BY <2>2, <1>1, <1>2
      <3> QED
        BY <3>1, <1>2 DEF Range
    <2> QED
      BY <2>1, <2>2
  <1>6. Range(s) \subseteq Range(t)
    BY <1>2, <1>5 DEF Range
  <1>7. ASSUME OnePage(s), \A c \in Range(s) : Differ(b, c),
               NEW i \in DOMAIN t, NEW j \in DOMAIN t, i # j
        PROVE  Differ(t[i], t[j])
    <2> DEFINE old(n) == IF n < k THEN n ELSE n - 1
    <2>1. \A n \in DOMAIN t : n # k => old(n) \in DOMAIN s /\ t[n] = s[old(n)]
      BY <1>1, <1>2
    <2>2. \A n \in DOMAIN t : n # k => t[n] \in Range(s)
      BY <2>1 DEF Range
    <2>3. t[k] = b
      BY <1>1, <1>2
    <2>4. CASE i = k
      BY <2>4, <2>2, <2>3, <1>7
    <2>5. CASE j = k
      BY <2>5, <2>2, <2>3, <1>7, DifferSym
    <2>6. CASE i # k /\ j # k
      <3>1. old(i) # old(j)
        BY <2>6, <1>2, <1>7
      <3> HIDE DEF old
      <3> QED
        BY <3>1, <2>1, <2>6, <1>7 DEF OnePage
    <2> QED
      BY <2>4, <2>5, <2>6
  <1> QED
    BY <1>1, <1>3, <1>4, <1>6, <1>7 DEF OnePage

\* Two runs of blocks, one behind the other.
LEMMA JoinBlocks ==
  ASSUME NEW s \in Seq(BlockT), NEW u \in Seq(BlockT), NEW t, t = s \o u
  PROVE  /\ t \in Seq(BlockT) /\ Range(t) = Range(s) \cup Range(u)
         /\ OnePage(s) /\ OnePage(u) /\ (\A b \in Range(u), c \in Range(s) : Differ(b, c))
              => OnePage(t)
  <1>1. /\ t \in Seq(BlockT) /\ Len(t) = Len(s) + Len(u)
        /\ \A j \in 1 .. Len(s) + Len(u) : t[j] = IF j <= Len(s) THEN s[j] ELSE u[j - Len(s)]
    BY ConcatProperties
  <1>2. /\ Len(s) \in Nat /\ Len(u) \in Nat /\ DOMAIN s = 1 .. Len(s) /\ DOMAIN u = 1 .. Len(u)
        /\ DOMAIN t = 1 .. Len(s) + Len(u)
    BY <1>1
  <1>3. \A j \in DOMAIN t : IF j <= Len(s) THEN j \in DOMAIN s /\ t[j] = s[j]
                            ELSE j - Len(s) \in DOMAIN u /\ t[j] = u[j - Len(s)]
    BY <1>1, <1>2
  <1>4. Range(t) \subseteq Range(s) \cup Range(u)
    BY <1>3 DEF Range
  <1>5. ASSUME NEW j \in DOMAIN s PROVE s[j] \in Range(t)
    <2>1. j \in DOMAIN t /\ t[j] = s[j]
      BY <1>1, <1>2
    <2> QED
      BY <2>1 DEF Range
  <1>6. ASSUME NEW j \in DOMAIN u PROVE u[j] \in Range(t)
    <2>1. j + Len(s) \in DOMAIN t /\ ~ (j + Len(s) <= Len(s)) /\ j + Len(s) - Len(s) = j
      BY <1>2
    <2>2. t[j + Len(s)] = u[j]
      BY <2>1, <1>3
    <2> QED
      BY <2>1, <2>2 DEF Range
  <1>7. Range(t) = Range(s) \cup Range(u)
    BY <1>4, <1>5, <1>6 DEF Range
  <1>8. ASSUME OnePage(s), OnePage(u), \A b \in Range(u), c \in Range(s) : Differ(b, c),
               NEW i \in DOMAIN t, NEW j \in DOMAIN t, i # j
        PROVE  Differ(t[i], t[j])
    <2>1. CASE i <= Len(s) /\ j <= Len(s)
      BY <2>1, <1>3, <1>8 DEF OnePage
    <2>2. CASE ~ (i <= Len(s)) /\ ~ (j <= Len(s))
      <3>1. i - Len(s) # j - Len(s)
        BY <1>2, <1>8
      <3> QED
        BY <2>2, <3>1, <1>3, <1>8 DEF OnePage
    <2>3. CASE i <= Len(s) /\ ~ (j <= Len(s))
      <3>1. t[i] \in Range(s) /\ t[j] \in Range(u)
        BY <2>3, <1>3 DEF Range
      <3> QED
        BY <3>1, <1>8, DifferSym
    <2>4. CASE ~ (i <= Len(s)) /\ j <= Len(s)
      <3>1. t[i] \in Range(u) /\ t[j] \in Range(s)
        BY <2>4, <1>3 DEF Range
      <3> QED
        BY <3>1, <1>8
    <2> QED
      BY <2>1, <2>2, <2>3, <2>4
  <1> QED
    BY <1>1, <1>7, <1>8 DEF OnePage

-----------------------------------------------------------------------------
(* The operations of the editor, lesson-pages.ts and the page's handlers.      *)

\* What an operation of the editor makes of the pages ps, when it takes the blocks gone
\* away and may bring new ones.
Edited(ps, qs, gone, new) ==
  /\ qs \in Seq(PageT) /\ qs # <<>>
  /\ gone \subseteq BlockIds
  /\ Ids(ps) \subseteq Ids(qs) \cup gone
  /\ \A b \in Blocks(qs) : b \in new \/ \E c \in Blocks(ps) : Same(b, c)
  /\ ShownOnce(ps) /\ (\A b \in new : Fresh(b, ps)) => ShownOnce(qs)

LEMMA IdsAre ==
  ASSUME NEW ps \in Seq(PageT)
  PROVE  Ids(ps) \subseteq BlockIds /\ \A b \in Blocks(ps) : b \in BlockT
  <1>1. \A b \in Blocks(ps) : b \in BlockT
    <2>1. \A i \in DOMAIN ps : \A b \in Range(ps[i].blocks) : b \in BlockT
      BY PageIs DEF Range
    <2> QED
      BY <2>1, BlocksOf
  <1>2. \A b \in BlockT : b.id \in BlockIds
    BY DEF BlockT
  <1> QED
    BY <1>1, <1>2 DEF Ids

\* A block is put in, by addBlock.
LEMMA OpInsert ==
  ASSUME NEW ps \in Seq(PageT), NEW i \in DOMAIN ps,
         NEW k \in 1 .. Len(ps[i].blocks) + 1, NEW b \in BlockT,
         NEW qs, qs = [ps EXCEPT ![i].blocks = InsertAt(@, k, b)]
  PROVE  Edited(ps, qs, {}, {b})
  <1> DEFINE s == ps[i].blocks
             t == InsertAt(s, k, b)
  <1>1. s \in Seq(BlockT)
    BY PageIs
  <1>2. qs = Put(ps, i, t)
    BY DEF Put
  <1>3. /\ t \in Seq(BlockT) /\ Range(t) = Range(s) \cup {b}
        /\ OnePage(s) /\ (\A c \in Range(s) : Differ(b, c)) => OnePage(t)
    BY <1>1, InsertBlock
  <1>4. \A c \in Range(s) : c \in Blocks(ps)
    BY BlocksOf
  <1> HIDE DEF t
  <1> DEFINE N == {b}
  <1>5. /\ Range(t) = Range(ps[i].blocks) \cup N
        /\ OnePage(ps[i].blocks) /\ (\A c \in N : Fresh(c, ps)) => OnePage(t)
    BY <1>3, <1>4 DEF Fresh
  <1> HIDE DEF N
  <1>6. /\ qs \in Seq(PageT) /\ Len(qs) = Len(ps)
        /\ Blocks(qs) = Blocks(ps) \cup N
        /\ ShownOnce(ps) /\ (\A c \in N : Fresh(c, ps)) => ShownOnce(qs)
    BY <1>2, <1>3, <1>5, PageGrows
  <1>7. qs # <<>>
    BY <1>6
  <1> QED
    BY <1>6, <1>7 DEF Edited, Ids, Same, N

\* Pages that come from others, none of whose blocks is lost but those gone.
LEMMA OpCome ==
  ASSUME NEW ps, NEW qs \in Seq(PageT), qs # <<>>, PagesCome(qs, ps),
         NEW gone \in SUBSET BlockIds, Ids(ps) \subseteq Ids(qs) \cup gone
  PROVE  Edited(ps, qs, gone, {})
  BY PagesComeFacts DEF Edited, Covers

\* addPage.
LEMMA OpAddPage ==
  ASSUME NEW ps \in Seq(PageT), NEW n \in Nat, NEW qs, qs = Append(ps, blankPage(n))
  PROVE  Edited(ps, qs, {}, {})
  <1>1. blankPage(n) \in PageT /\ blankPage(n).blocks = <<>>
    BY BlankPages
  <1>2. /\ qs \in Seq(PageT) /\ qs # <<>> /\ Len(ps) \in Nat /\ DOMAIN ps = 1 .. Len(ps)
        /\ DOMAIN qs = 1 .. Len(ps) + 1
        /\ \A i \in DOMAIN ps : i \in DOMAIN qs /\ qs[i] = ps[i]
        /\ \A i \in DOMAIN qs : i \notin DOMAIN ps => qs[i].blocks = <<>>
    BY <1>1
  <1> DEFINE g == [i \in DOMAIN qs |-> i]
  <1>3. \A i \in DOMAIN qs : g[i] = i
    OBVIOUS
  <1> HIDE DEF g
  <1>4. PagesCome(qs, ps)
    BY <1>2, <1>3, SameIsSame DEF PagesCome
  <1>5. Ids(ps) \subseteq Ids(qs)
    <2>1. ASSUME NEW b \in Blocks(ps)
          PROVE  b \in Blocks(qs)
      <3>1. PICK i \in DOMAIN ps : b \in Range(ps[i].blocks)
        BY BlocksOf
      <3>2. i \in DOMAIN qs /\ b \in Range(qs[i].blocks)
        BY <1>2, <3>1
      <3> QED
        BY <3>2, BlocksOf
    <2> QED
      BY <2>1 DEF Ids
  <1> QED
    BY <1>2, <1>4, <1>5, OpCome

\* renamePage.
LEMMA OpRename ==
  ASSUME NEW ps \in Seq(PageT), NEW i \in DOMAIN ps, NEW n \in Nat,
         NEW qs, qs = [ps EXCEPT ![i].title = n]
  PROVE  Edited(ps, qs, {}, {})
  <1> DEFINE q == [ps[i] EXCEPT !.title = n]
  <1>1. q \in PageT /\ q.blocks = ps[i].blocks
    <2>1. ps[i] \in PageT
      BY PageIs
    <2> QED
      BY <2>1 DEF PageT
  <1>2. qs = [ps EXCEPT ![i] = q]
    OBVIOUS
  <1> HIDE DEF q
  <1>3. /\ qs \in Seq(PageT) /\ qs # <<>> /\ DOMAIN qs = DOMAIN ps
        /\ \A j \in DOMAIN ps : qs[j].blocks = ps[j].blocks
    BY <1>1, <1>2
  <1>4. PagesCome(qs, ps)
    BY <1>3, SameIsSame, PagesAlike
  <1>5. Ids(ps) \subseteq Ids(qs)
    BY <1>3, BlocksOf DEF Ids
  <1> QED
    BY <1>3, <1>4, <1>5, OpCome

\* The pages in another order.
Permuted(ps, qs, g) ==
  /\ qs \in Seq(PageT) /\ qs # <<>>
  /\ \A j \in DOMAIN qs : g[j] \in DOMAIN ps /\ qs[j] = ps[g[j]]
  /\ \A j, k \in DOMAIN qs : j # k => g[j] # g[k]
  /\ \A j \in DOMAIN ps : g[j] \in DOMAIN qs /\ ps[j] = qs[g[j]]

LEMMA OpPermute ==
  ASSUME NEW ps \in Seq(PageT), NEW qs, NEW g, Permuted(ps, qs, g)
  PROVE  Edited(ps, qs, {}, {})
  <1>1. PagesCome(qs, ps)
    BY SameIsSame DEF PagesCome, Permuted
  <1>2. Ids(ps) \subseteq Ids(qs)
    <2>1. ASSUME NEW b \in Blocks(ps) PROVE b \in Blocks(qs)
      <3>1. PICK j \in DOMAIN ps : b \in Range(ps[j].blocks)
        BY BlocksOf
      <3>2. g[j] \in DOMAIN qs /\ b \in Range(qs[g[j]].blocks)
        BY <3>1 DEF Permuted
      <3> QED
        BY <3>2, BlocksOf
    <2> QED
      BY <2>1 DEF Ids
  <1> QED
    BY <1>1, <1>2, OpCome DEF Permuted

\* movePage exchanges two pages.
LEMMA OpMovePage ==
  ASSUME NEW ps \in Seq(PageT), NEW i \in DOMAIN ps, i + 1 \in DOMAIN ps,
         NEW qs, qs = [ps EXCEPT ![i] = ps[i + 1], ![i + 1] = ps[i]]
  PROVE  Edited(ps, qs, {}, {})
  <1> DEFINE g == [j \in DOMAIN ps |-> IF j = i THEN i + 1 ELSE IF j = i + 1 THEN i ELSE j]
  <1>1. /\ \A j \in DOMAIN ps : g[j] \in DOMAIN ps /\ g[g[j]] = j
        /\ \A j, k \in DOMAIN ps : j # k => g[j] # g[k]
    OBVIOUS
  <1>2. /\ qs \in Seq(PageT) /\ qs # <<>> /\ DOMAIN qs = DOMAIN ps
        /\ \A j \in DOMAIN ps : qs[j] = ps[g[j]]
    OBVIOUS
  <1> HIDE DEF g
  <1>3. Permuted(ps, qs, g)
    BY <1>1, <1>2 DEF Permuted
  <1> QED
    BY <1>3, OpPermute

\* deletePage: the blocks of that page are gone, and one page always stays.
LEMMA OpDeletePage ==
  ASSUME NEW ps \in Seq(PageT), NEW i \in DOMAIN ps, NEW n \in Nat, NEW qs,
         qs = IF Len(ps) = 1 THEN <<blankPage(n)>> ELSE RemoveAt(ps, i)
  PROVE  Edited(ps, qs, Ids(<<ps[i]>>), {})
  <1>1. Len(ps) \in Nat /\ DOMAIN ps = 1 .. Len(ps) /\ i \in 1 .. Len(ps)
    OBVIOUS
  <1>2. \A x : x \in Ids(<<ps[i]>>) <=> \E b \in Range(ps[i].blocks) : x = b.id
    <2>1. DOMAIN <<ps[i]>> = {1} /\ <<ps[i]>>[1] = ps[i]
      OBVIOUS
    <2> QED
      BY <2>1 DEF Ids, Blocks
  <1>3. Ids(<<ps[i]>>) \subseteq BlockIds
    BY <1>2, IdsAre, BlocksOf DEF Ids
  <1>4. CASE Len(ps) = 1
    <2>1. qs = <<blankPage(n)>> /\ qs \in Seq(PageT) /\ qs # <<>> /\ Blocks(qs) = {} /\ ShownOnce(qs)
      BY <1>4, BlankPages
    <2>2. Ids(ps) \subseteq Ids(<<ps[i]>>)
      <3>1. DOMAIN ps = {i}
        BY <1>1, <1>4
      <3> QED
        BY <3>1, <1>2, BlocksOf DEF Ids
    <2> QED
      BY <2>1, <2>2, <1>3 DEF Edited
  <1>5. CASE Len(ps) # 1
    <2> DEFINE g == [j \in DOMAIN qs |-> IF j < i THEN j ELSE j + 1]
    <2>1. /\ qs \in Seq(PageT) /\ Len(qs) = Len(ps) - 1
          /\ \A j \in 1 .. Len(ps) - 1 : qs[j] = IF j < i THEN ps[j] ELSE ps[j + 1]
      BY <1>1, <1>5, RemoveAtIs
    <2>2. qs # <<>> /\ DOMAIN qs = 1 .. Len(ps) - 1
      BY <1>1, <1>5, <2>1
    <2>3. /\ \A j \in DOMAIN qs : g[j] \in DOMAIN ps /\ qs[j] = ps[g[j]]
          /\ \A j, k \in DOMAIN qs : j # k => g[j] # g[k]
      <3>1. \A j \in DOMAIN qs : g[j] = IF j < i THEN j ELSE j + 1
        OBVIOUS
      <3> HIDE DEF g
      <3>2. ASSUME NEW j \in DOMAIN qs PROVE g[j] \in DOMAIN ps /\ qs[j] = ps[g[j]]
        <4>1. j \in 1 .. Len(ps) - 1 /\ g[j] \in 1 .. Len(ps)
          BY <3>1, <2>2, <1>1
        <4>2. qs[j] = IF j < i THEN ps[j] ELSE ps[j + 1]
          BY <4>1, <2>1
        <4> QED
          BY <4>1, <4>2, <3>1, <1>1
      <3>3. \A j, k \in DOMAIN qs : j # k => g[j] # g[k]
        BY <3>1, <2>2, <1>1
      <3> QED
        BY <3>2, <3>3
    <2>6. ASSUME NEW k \in DOMAIN ps, k # i PROVE \E j \in DOMAIN qs : g[j] = k
      <3> DEFINE j == IF k < i THEN k ELSE k - 1
      <3>1. j \in DOMAIN qs /\ g[j] = k
        BY <2>2, <2>6, <1>1
      <3> QED
        BY <3>1
    <2> HIDE DEF g
    <2>4. PagesCome(qs, ps)
      BY <2>3, SameIsSame DEF PagesCome
    <2>5. Ids(ps) \subseteq Ids(qs) \cup Ids(<<ps[i]>>)
      <3>1. ASSUME NEW k \in DOMAIN ps, k # i, NEW b \in Range(ps[k].blocks)
            PROVE  b \in Blocks(qs)
        BY <3>1, <2>3, <2>6, BlocksOf
      <3> QED
        BY <3>1, <1>2, BlocksOf DEF Ids
    <2> QED
      BY <2>1, <2>2, <2>4, <2>5, <1>3, OpCome
  <1> QED
    BY <1>4, <1>5

\* What is kept is kept once.
LEMMA AscendingInjective ==
  ASSUME NEW T, NEW t \in Seq(T), NEW s, NEW n \in Nat, NEW f, Ascending(t, s, n, f)
  PROVE  \A j, k \in DOMAIN t : j # k => f[j] # f[k]
  <1>1. ASSUME NEW j \in DOMAIN t, NEW k \in DOMAIN t, j # k PROVE f[j] # f[k]
    <2>1. f[j] \in Int /\ f[k] \in Int
      BY DEF Ascending
    <2>2. j < k => f[j] < f[k]
      BY DEF Ascending
    <2>3. k < j => f[k] < f[j]
      BY DEF Ascending
    <2>4. j < k \/ k < j
      BY <1>1
    <2> QED
      BY <2>1, <2>2, <2>3, <2>4
  <1> QED
    BY <1>1

\* A change after a change.
LEMMA ComesTrans ==
  ASSUME NEW r, NEW s, NEW t, Comes(t, s), Comes(s, r)
  PROVE  Comes(t, r)
  <1>1. PICK f \in [DOMAIN t -> DOMAIN s] :
               /\ \A j, k \in DOMAIN t : j # k => f[j] # f[k]
               /\ \A k \in DOMAIN t : Same(t[k], s[f[k]])
    BY DEF Comes
  <1>2. PICK g \in [DOMAIN s -> DOMAIN r] :
               /\ \A j, k \in DOMAIN s : j # k => g[j] # g[k]
               /\ \A k \in DOMAIN s : Same(s[k], r[g[k]])
    BY DEF Comes
  <1> DEFINE h == [k \in DOMAIN t |-> g[f[k]]]
  <1>3. h \in [DOMAIN t -> DOMAIN r] /\ \A k \in DOMAIN t : h[k] = g[f[k]]
    BY <1>1, <1>2
  <1> HIDE DEF h
  <1>4. \A j, k \in DOMAIN t : j # k => h[j] # h[k]
    BY <1>1, <1>2, <1>3
  <1>5. \A k \in DOMAIN t : Same(t[k], r[h[k]])
    BY <1>1, <1>2, <1>3 DEF Same
  <1> QED
    BY <1>3, <1>4, <1>5 DEF Comes

LEMMA AscendingComes ==
  ASSUME NEW s \in Seq(BlockT), NEW t \in Seq(BlockT), NEW f, Ascending(t, s, Len(s), f)
  PROVE  Comes(t, s)
  <1>1. Len(s) \in Nat /\ DOMAIN s = 1 .. Len(s)
    OBVIOUS
  <1>2. f \in [DOMAIN t -> DOMAIN s] /\ \A k \in DOMAIN t : t[k] = s[f[k]]
    BY <1>1 DEF Ascending
  <1>3. \A j, k \in DOMAIN t : j # k => f[j] # f[k]
    BY <1>1, AscendingInjective
  <1> QED
    BY <1>2, <1>3 DEF Comes, Same

\* The blocks kept come from those there were.
LEMMA KeptComes ==
  ASSUME NEW s \in Seq(BlockT), NEW K, NEW t, t = Kept(s, K)
  PROVE  t \in Seq(BlockT) /\ Range(t) = Range(s) \cap K /\ Comes(t, s)
  <1>1. t \in Seq(BlockT) /\ Range(t) = Range(s) \cap K
    BY KeptIs
  <1>2. PICK f : Ascending(t, s, Len(s), f)
    BY KeptIs
  <1> QED
    BY <1>1, <1>2, AscendingComes

\* A block is removed, from whichever page it is on.
LEMMA OpDrop ==
  ASSUME NEW ps \in Seq(PageT), ps # <<>>, NEW id \in BlockIds, NEW qs, qs = DropBlock(ps, id)
  PROVE  Edited(ps, qs, {id}, {})
  <1> DEFINE bs == [i \in DOMAIN ps |-> Kept(ps[i].blocks, {b \in Range(ps[i].blocks) : b.id # id})]
  <1>1. \A i \in DOMAIN ps : bs[i] = Kept(ps[i].blocks, {b \in Range(ps[i].blocks) : b.id # id})
    OBVIOUS
  <1>2. Rebuilt(ps, bs, qs)
    BY DEF DropBlock, Rebuilt
  <1> HIDE DEF bs
  <1>3. ASSUME NEW i \in DOMAIN ps
        PROVE  /\ bs[i] \in Seq(BlockT) /\ Comes(bs[i], ps[i].blocks)
               /\ Range(bs[i]) = Range(ps[i].blocks) \cap {b \in Range(ps[i].blocks) : b.id # id}
    BY <1>1, PageIs, KeptComes
  <1>4. /\ qs \in Seq(PageT) /\ Len(qs) = Len(ps) /\ DOMAIN qs = DOMAIN ps
        /\ \A i \in DOMAIN ps : qs[i].blocks = bs[i]
    BY <1>2, <1>3, EveryPage
  <1>5. qs # <<>>
    BY <1>4
  <1>6. PagesCome(qs, ps)
    BY <1>3, <1>4, PagesAlike
  <1>7. Ids(ps) \subseteq Ids(qs) \cup {id}
    <2>1. ASSUME NEW b \in Blocks(ps), b.id # id PROVE b \in Blocks(qs)
      <3>1. PICK i \in DOMAIN ps : b \in Range(ps[i].blocks)
        BY BlocksOf
      <3>2. i \in DOMAIN qs /\ b \in Range(qs[i].blocks)
        BY <2>1, <3>1, <1>3, <1>4
      <3> QED
        BY <3>2, BlocksOf
    <2> QED
      BY <2>1 DEF Ids
  <1> QED
    BY <1>4, <1>5, <1>6, <1>7, OpCome

\* updateBlock and Attach: one block names another exercise, or another text.
LEMMA OpSetRef ==
  ASSUME NEW ps \in Seq(PageT), ps # <<>>, NEW id, NEW ref \in Nat \cup Exercises \cup {Unset},
         NEW qs, qs = SetRef(ps, id, ref)
  PROVE  /\ qs \in Seq(PageT) /\ qs # <<>> /\ Ids(qs) = Ids(ps)
         /\ \A b \in Blocks(qs) : \E c \in Blocks(ps) :
              b.id = c.id /\ b.kind = c.kind /\ b.ref = IF c.id = id THEN ref ELSE c.ref
         /\ ShownOnce(ps)
              /\ (\A b \in Blocks(ps) : b.id = id /\ b.kind = "exercise" => ref \notin Refs(ps))
              => ShownOnce(qs)
  <1> DEFINE New1(b) == IF b.id = id THEN [b EXCEPT !.ref = ref] ELSE b
             bs == [i \in DOMAIN ps |-> [k \in DOMAIN ps[i].blocks |-> New1(ps[i].blocks[k])]]
  <1>1. \A b \in BlockT : /\ New1(b) \in BlockT
                          /\ New1(b).id = b.id /\ New1(b).kind = b.kind
                          /\ New1(b).ref = IF b.id = id THEN ref ELSE b.ref
    BY DEF BlockT
  <1>2. Rebuilt(ps, bs, qs)
    BY DEF SetRef, Rebuilt
  <1>3. \A i \in DOMAIN ps : bs[i] = [k \in DOMAIN ps[i].blocks |-> New1(ps[i].blocks[k])]
    OBVIOUS
  <1> HIDE DEF bs, New1
  <1>4. ASSUME NEW i \in DOMAIN ps
        PROVE  /\ bs[i] \in Seq(BlockT) /\ DOMAIN bs[i] = DOMAIN ps[i].blocks
               /\ \A k \in DOMAIN bs[i] : ps[i].blocks[k] \in BlockT
                                           /\ bs[i][k] = New1(ps[i].blocks[k])
    <2> DEFINE s == ps[i].blocks
    <2>1. s \in Seq(BlockT) /\ Len(s) \in Nat /\ DOMAIN s = 1 .. Len(s)
          /\ \A k \in DOMAIN s : s[k] \in BlockT
      BY PageIs
    <2>2. bs[i] = [k \in 1 .. Len(s) |-> New1(s[k])]
      BY <1>3, <2>1
    <2> HIDE DEF s
    <2>3. bs[i] \in Seq(BlockT) /\ DOMAIN bs[i] = 1 .. Len(s)
          /\ \A k \in 1 .. Len(s) : bs[i][k] = New1(s[k])
      BY <2>1, <2>2, <1>1
    <2> QED
      BY <2>1, <2>3 DEF s
  <1>5. /\ qs \in Seq(PageT) /\ Len(qs) = Len(ps) /\ DOMAIN qs = DOMAIN ps
        /\ \A i \in DOMAIN ps : qs[i].blocks = bs[i]
    BY <1>2, <1>4, EveryPage
  <1>6. qs # <<>>
    BY <1>5
  <1>7. \A b \in Blocks(qs) : \E c \in Blocks(ps) : c \in BlockT /\ b = New1(c)
    BY <1>4, <1>5, BlocksOf DEF Range
  <1>8. \A c \in Blocks(ps) : New1(c) \in Blocks(qs) /\ c \in BlockT
    BY <1>4, <1>5, BlocksOf DEF Range
  <1>9. Ids(qs) = Ids(ps)
    BY <1>1, <1>7, <1>8 DEF Ids
  <1>10. \A b \in Blocks(qs) : \E c \in Blocks(ps) :
              b.id = c.id /\ b.kind = c.kind /\ b.ref = IF c.id = id THEN ref ELSE c.ref
    BY <1>1, <1>7
  <1>11. ASSUME ShownOnce(ps),
                \A b \in Blocks(ps) : b.id = id /\ b.kind = "exercise" => ref \notin Refs(ps)
         PROVE  ShownOnce(qs)
    <2>1. ASSUME NEW b \in Blocks(ps), NEW c \in Blocks(ps), Differ(b, c)
          PROVE  Differ(New1(b), New1(c))
      <3>1. b.id # c.id /\ b \in BlockT /\ c \in BlockT
        BY <2>1, <1>8 DEF Differ
      <3>2. Shows(b) => b.ref \in Refs(ps)
        BY DEF Shows, Refs
      <3>3. Shows(c) => c.ref \in Refs(ps)
        BY DEF Shows, Refs
      <3>4. CASE b.id = id
        BY <3>1, <3>3, <3>4, <1>1, <1>11, <2>1 DEF Differ, Shows
      <3>5. CASE c.id = id
        BY <3>1, <3>2, <3>5, <1>1, <1>11, <2>1 DEF Differ, Shows
      <3>6. CASE b.id # id /\ c.id # id
        BY <3>1, <3>6, <1>1, <2>1 DEF Differ, Shows
      <3> QED
        BY <3>4, <3>5, <3>6
    <2>2. ASSUME NEW i \in DOMAIN qs PROVE OnePage(qs[i].blocks)
      <3>1. \A k \in DOMAIN ps[i].blocks : ps[i].blocks[k] \in Blocks(ps)
        BY <1>5, BlocksOf DEF Range
      <3> QED
        BY <3>1, <1>4, <1>5, <1>11, <2>1 DEF ShownOnce, OnePage
    <2>3. ASSUME NEW i \in DOMAIN qs, NEW j \in DOMAIN qs, i # j,
                 NEW b \in Range(qs[i].blocks), NEW c \in Range(qs[j].blocks)
          PROVE  Differ(b, c)
      <3>1. PICK bb \in Range(ps[i].blocks) : b = New1(bb)
        BY <1>4, <1>5 DEF Range
      <3>2. PICK cc \in Range(ps[j].blocks) : c = New1(cc)
        BY <1>4, <1>5 DEF Range
      <3>3. bb \in Blocks(ps) /\ cc \in Blocks(ps)
        BY <1>5, BlocksOf
      <3>4. Differ(bb, cc)
        BY <1>5, <1>11, <2>3 DEF ShownOnce
      <3> QED
        BY <3>1, <3>2, <3>3, <3>4, <2>1
    <2> QED
      BY <2>2, <2>3 DEF ShownOnce
  <1> QED
    BY <1>5, <1>6, <1>9, <1>10, <1>11

\* A page with one block taken out.
LEMMA RemoveBlock ==
  ASSUME NEW s \in Seq(BlockT), NEW j \in DOMAIN s, NEW r, r = RemoveAt(s, j)
  PROVE  /\ r \in Seq(BlockT) /\ Len(r) = Len(s) - 1 /\ Comes(r, s)
         /\ Range(s) = Range(r) \cup {s[j]}
         /\ OnePage(s) => \A c \in Range(r) : Differ(s[j], c)
  <1>1. Len(s) \in Nat /\ DOMAIN s = 1 .. Len(s) /\ j \in 1 .. Len(s)
    OBVIOUS
  <1>2. /\ r \in Seq(BlockT) /\ Len(r) = Len(s) - 1
        /\ \A k \in 1 .. Len(s) - 1 : r[k] = IF k < j THEN s[k] ELSE s[k + 1]
    BY <1>1, RemoveAtIs
  <1>3. DOMAIN r = 1 .. Len(s) - 1
    BY <1>1, <1>2
  <1> DEFINE f == [k \in DOMAIN r |-> IF k < j THEN k ELSE k + 1]
  <1>4. \A k \in DOMAIN r : f[k] = IF k < j THEN k ELSE k + 1
    OBVIOUS
  <1>5. f \in [DOMAIN r -> DOMAIN s]
    BY <1>1, <1>3
  <1> HIDE DEF f
  <1>6. \A k \in DOMAIN r : r[k] = s[f[k]] /\ f[k] # j /\ f[k] \in DOMAIN s
    <2>1. ASSUME NEW k \in DOMAIN r PROVE r[k] = s[f[k]] /\ f[k] # j
      <3>1. k \in 1 .. Len(s) - 1
        BY <1>3
      <3> QED
        BY <3>1, <1>1, <1>2, <1>4
    <2> QED
      BY <2>1, <1>5
  <1>7. \A k, i \in DOMAIN r : k # i => f[k] # f[i]
    BY <1>1, <1>3, <1>4
  <1>8. Comes(r, s)
    BY <1>5, <1>6, <1>7 DEF Comes, Same
  <1>9. ASSUME NEW k \in DOMAIN s, k # j PROVE s[k] \in Range(r)
    <2> DEFINE i == IF k < j THEN k ELSE k - 1
    <2>1. i \in DOMAIN r /\ f[i] = k
      BY <1>1, <1>3, <1>4, <1>9
    <2> HIDE DEF i
    <2> QED
      BY <2>1, <1>6 DEF Range
  <1>10. Range(s) = Range(r) \cup {s[j]}
    BY <1>6, <1>9 DEF Range
  <1>11. ASSUME OnePage(s), NEW c \in Range(r) PROVE Differ(s[j], c)
    <2>1. PICK k \in DOMAIN r : c = r[k]
      BY DEF Range
    <2> QED
      BY <2>1, <1>6, <1>11 DEF OnePage
  <1> QED
    BY <1>2, <1>8, <1>10, <1>11

\* handleDragEnd moves a block within its page.
LEMMA OpDrag ==
  ASSUME NEW ps \in Seq(PageT), NEW i \in DOMAIN ps,
         NEW j \in DOMAIN ps[i].blocks, NEW k \in DOMAIN ps[i].blocks,
         NEW qs, qs = [ps EXCEPT ![i].blocks = InsertAt(RemoveAt(@, j), k, @[j])]
  PROVE  Edited(ps, qs, {}, {})
  <1> DEFINE s == ps[i].blocks
             r == RemoveAt(s, j)
             t == InsertAt(r, k, s[j])
  <1>1. s \in Seq(BlockT) /\ Len(s) \in Nat /\ DOMAIN s = 1 .. Len(s) /\ s[j] \in BlockT
        /\ j \in DOMAIN s /\ k \in DOMAIN s
    BY PageIs
  <1>2. qs = Put(ps, i, t)
    BY DEF Put
  <1> HIDE DEF s, t
  <1>3. /\ r \in Seq(BlockT) /\ Len(r) = Len(s) - 1 /\ Comes(r, s)
        /\ Range(s) = Range(r) \cup {s[j]}
        /\ OnePage(s) => \A c \in Range(r) : Differ(s[j], c)
    BY <1>1, RemoveBlock
  <1> HIDE DEF r
  <1>4. k \in 1 .. Len(r) + 1
    BY <1>1, <1>3
  <1>5. /\ t \in Seq(BlockT) /\ Range(t) = Range(r) \cup {s[j]}
        /\ OnePage(r) /\ (\A c \in Range(r) : Differ(s[j], c)) => OnePage(t)
    BY <1>1, <1>3, <1>4, InsertBlock DEF t
  <1>6. OnePage(s) => OnePage(t)
    BY <1>3, <1>5, ComesFacts
  <1> DEFINE N == {}
  <1>7. /\ Range(t) = Range(ps[i].blocks) \cup N
        /\ OnePage(ps[i].blocks) /\ (\A c \in N : Fresh(c, ps)) => OnePage(t)
    BY <1>3, <1>5, <1>6 DEF s
  <1>8. \A c \in N : Fresh(c, ps)
    OBVIOUS
  <1> HIDE DEF N
  <1>9. /\ qs \in Seq(PageT) /\ Len(qs) = Len(ps)
        /\ Blocks(qs) = Blocks(ps) \cup N
        /\ ShownOnce(ps) /\ (\A c \in N : Fresh(c, ps)) => ShownOnce(qs)
    BY <1>2, <1>5, <1>7, PageGrows
  <1>10. qs # <<>>
    BY <1>9
  <1> QED
    BY <1>8, <1>9, <1>10 DEF Edited, Ids, Same, N

\* The block b is the last of some page.
Appended(ps, qs, b) ==
  /\ Edited(ps, qs, {}, {b})
  /\ Blocks(qs) = Blocks(ps) \cup {b}
  /\ InPosition(ps) => InPosition(qs)

\* A block put at the end of a page, the last one when that page is gone.
LEMMA AppendIs ==
  ASSUME NEW ps \in Seq(PageT), ps # <<>>, NEW index, NEW id \in BlockIds, NEW x \in Exercises,
         NEW qs, qs = AppendBlock(ps, index, id, x)
  PROVE  \E n \in Nat : Appended(ps, qs, Block(id, "exercise", x, n))
  <1> DEFINE i == IF index \in DOMAIN ps THEN index ELSE Len(ps)
             s == ps[i].blocks
             n == Len(s)
             b == Block(id, "exercise", x, n)
             t == Append(s, b)
             N == {b}
  <1>1. i \in DOMAIN ps
    OBVIOUS
  <1>2. qs = Put(ps, i, t)
    BY DEF AppendBlock, Put
  <1> HIDE DEF i
  <1>3. s \in Seq(BlockT) /\ n \in Nat /\ DOMAIN s = 1 .. n
    BY <1>1, PageIs
  <1>4. b \in BlockT /\ b.order = n
    BY <1>3 DEF Block, BlockT
  <1> HIDE DEF s, b
  <1>5. <<b>> \in Seq(BlockT) /\ Range(<<b>>) = {b} /\ OnePage(<<b>>) /\ t = s \o <<b>>
    BY <1>3, <1>4 DEF Range, OnePage
  <1>6. /\ t \in Seq(BlockT) /\ Range(t) = Range(s) \cup {b}
        /\ OnePage(s) /\ (\A c \in Range(s) : Differ(b, c)) => OnePage(t)
    <2> DEFINE u == <<b>>
    <2>1. u \in Seq(BlockT) /\ Range(u) = {b} /\ OnePage(u) /\ t = s \o u
      BY <1>5
    <2> HIDE DEF u, t
    <2>2. /\ t \in Seq(BlockT) /\ Range(t) = Range(s) \cup Range(u)
          /\ OnePage(s) /\ OnePage(u) /\ (\A d \in Range(u), c \in Range(s) : Differ(d, c))
               => OnePage(t)
      BY <1>3, <2>1, JoinBlocks
    <2> QED
      BY <2>1, <2>2
  <1>7. DOMAIN t = 1 .. n + 1 /\ t[n + 1] = b /\ \A k \in 1 .. n : t[k] = s[k]
    BY <1>3, <1>4
  <1> HIDE DEF t
  <1>8. \A c \in Range(s) : c \in Blocks(ps)
    BY <1>1, BlocksOf DEF s
  <1>9. /\ Range(t) = Range(ps[i].blocks) \cup N
        /\ OnePage(ps[i].blocks) /\ (\A c \in N : Fresh(c, ps)) => OnePage(t)
    BY <1>6, <1>8 DEF s, Fresh
  <1> HIDE DEF N
  <1>10. /\ qs \in Seq(PageT) /\ Len(qs) = Len(ps)
         /\ Blocks(qs) = Blocks(ps) \cup N
         /\ ShownOnce(ps) /\ (\A c \in N : Fresh(c, ps)) => ShownOnce(qs)
    BY <1>1, <1>2, <1>6, <1>9, PageGrows
  <1>11. qs # <<>>
    BY <1>10
  <1>12. Edited(ps, qs, {}, {b})
    BY <1>10, <1>11 DEF Edited, Ids, Same, N
  <1>13. ASSUME InPosition(ps) PROVE InPosition(qs)
    <2>1. /\ DOMAIN qs = DOMAIN ps /\ qs[i].blocks = t
          /\ \A j \in DOMAIN ps : j # i => qs[j] = ps[j]
      BY <1>1, <1>2, <1>6, WithBlocks
    <2>2. \A j \in DOMAIN ps : InOrder(ps[j].blocks)
      BY <1>13, InPositionIs
    <2>3. InOrder(s)
      BY <2>2, <1>1 DEF s
    <2>4. InOrder(t)
      BY <2>3, <1>3, <1>4, <1>7 DEF InOrder
    <2>5. \A j \in DOMAIN qs : InOrder(qs[j].blocks)
      BY <2>1, <2>2, <2>4
    <2> QED
      BY <2>5, <1>10, InPositionIs
  <1> QED
    BY <1>3, <1>10, <1>12, <1>13 DEF b, N, Appended

\* A list without repetitions.
Distinct(ids) == \A j, k \in DOMAIN ids : j # k => ids[j] # ids[k]

LEMMA FlattenPages ==
  ASSUME NEW ps \in Seq(PageT)
  PROVE  flattenPages(ps) \in Seq(BlockT)
  <1> DEFINE ss == [i \in DOMAIN ps |-> ps[i].blocks]
  <1>1. Len(ps) \in Nat /\ DOMAIN ps = 1 .. Len(ps)
    OBVIOUS
  <1>2. \A i \in DOMAIN ps : ps[i].blocks \in Seq(BlockT)
    BY PageIs
  <1>3. ss \in Seq(Seq(BlockT))
    BY <1>1, <1>2
  <1> QED
    BY <1>3, FlattenIsSeq DEF flattenPages

LEMMA AscendingDistinct ==
  ASSUME NEW T, NEW s \in Seq(T), NEW t \in Seq(T), NEW f, Ascending(t, s, Len(s), f),
         Distinct(s)
  PROVE  Distinct(t)
  <1>1. Len(s) \in Nat /\ DOMAIN s = 1 .. Len(s)
    OBVIOUS
  <1>2. \A j, k \in DOMAIN t : j # k => f[j] # f[k]
    BY <1>1, AscendingInjective
  <1> QED
    BY <1>1, <1>2 DEF Distinct, Ascending

LEMMA KeptDistinct ==
  ASSUME NEW T, NEW s \in Seq(T), NEW K, Distinct(s), NEW t, t = Kept(s, K)
  PROVE  Distinct(t)
  <1>1. t \in Seq(T)
    BY KeptIs
  <1>2. PICK f : Ascending(t, s, Len(s), f)
    BY KeptIs
  <1> QED
    BY <1>1, <1>2, AscendingDistinct

\* adoptDetachedExercises brings a block for every listed exercise that has none.
LEMMA AdoptIs ==
  ASSUME NEW ps \in Seq(PageT), ps # <<>>, NEW ids \in Seq(Exercises),
         NEW qs, qs = adoptDetachedExercises(ps, ids)
  PROVE  \E new \in SUBSET BlockT :
           /\ qs \in Seq(PageT) /\ qs # <<>>
           /\ Blocks(qs) = Blocks(ps) \cup new
           /\ \A b \in new : /\ b.kind = "exercise" /\ b.ref \in Range(ids) \ Refs(ps)
                             /\ b.id = <<"adopted", b.ref>>
           /\ ShownOnce(ps) /\ Distinct(ids) /\ (\A b \in new : b.id \notin Ids(ps))
                => ShownOnce(qs)
  <1> DEFINE i == Len(ps)
             s == ps[i].blocks
             n == Len(flattenPages(ps))
             free == Kept(ids, Range(ids) \ Refs(ps))
             new == [k \in DOMAIN free |-> Block(<<"adopted", free[k]>>, "exercise", free[k], n + k)]
             t == s \o new
             N == Range(new)
  <1>1. i \in DOMAIN ps
    OBVIOUS
  <1>2. n \in Nat
    BY FlattenPages
  <1>3. qs = Put(ps, i, t)
    BY DEF adoptDetachedExercises, Put
  <1>4. /\ free \in Seq(Exercises)
        /\ Range(free) = Range(ids) \cap (Range(ids) \ Refs(ps))
    BY KeptIs
  <1>5. Distinct(ids) => Distinct(free)
    BY KeptDistinct
  <1> HIDE DEF free, n
  <1>6. Len(free) \in Nat /\ DOMAIN free = 1 .. Len(free)
    BY <1>4
  <1>7. ASSUME NEW k \in DOMAIN free
        PROVE  /\ new[k] \in BlockT /\ new[k].id = <<"adopted", free[k]>>
               /\ new[k].kind = "exercise" /\ new[k].ref = free[k]
               /\ free[k] \in Range(ids) \ Refs(ps)
    <2>1. free[k] \in Exercises /\ n + k \in Nat
      BY <1>2, <1>4, <1>6
    <2>2. free[k] \in Range(ids) \ Refs(ps)
      BY <1>4 DEF Range
    <2>3. <<"adopted", free[k]>> \in BlockIds
      BY <2>1 DEF BlockIds
    <2> QED
      BY <2>1, <2>2, <2>3 DEF Block, BlockT
  <1>8. new = [k \in 1 .. Len(free) |-> new[k]]
    BY <1>6
  <1>9. DOMAIN new = DOMAIN free
    OBVIOUS
  <1> HIDE DEF new
  <1>10. new \in Seq(BlockT)
    BY <1>6, <1>7, <1>8
  <1>11. s \in Seq(BlockT)
    BY <1>1, PageIs
  <1>12. \A b \in N : /\ b \in BlockT /\ b.kind = "exercise" /\ b.ref \in Range(ids) \ Refs(ps)
                      /\ b.id = <<"adopted", b.ref>>
    BY <1>7, <1>9 DEF Range
  <1>13. ASSUME Distinct(ids) PROVE OnePage(new)
    BY <1>5, <1>7, <1>9, <1>13 DEF Distinct, OnePage, Differ
  <1> HIDE DEF N
  <1>14. /\ t \in Seq(BlockT) /\ Range(t) = Range(s) \cup N
         /\ OnePage(s) /\ OnePage(new) /\ (\A b \in N, c \in Range(s) : Differ(b, c))
              => OnePage(t)
    <2>1. /\ t \in Seq(BlockT) /\ Range(t) = Range(s) \cup Range(new)
          /\ OnePage(s) /\ OnePage(new) /\ (\A b \in Range(new), c \in Range(s) : Differ(b, c))
               => OnePage(t)
      <3> HIDE DEF s
      <3> QED
        BY <1>10, <1>11, JoinBlocks
    <2> QED
      BY <2>1 DEF N
  <1>15. \A c \in Range(s) : c \in Blocks(ps)
    BY <1>1, BlocksOf
  <1> HIDE DEF t
  <1>16. qs \in Seq(PageT) /\ Len(qs) = Len(ps)
    BY <1>1, <1>3, <1>14, WithBlocks
  <1>17. Blocks(qs) = Blocks(ps) \cup N
    BY <1>1, <1>3, <1>14, BlocksWith
  <1>18. ASSUME ShownOnce(ps), Distinct(ids), \A b \in N : b.id \notin Ids(ps)
         PROVE  ShownOnce(qs)
    <2>1. ASSUME NEW b \in N, NEW c \in Blocks(ps) PROVE Differ(b, c)
      <3>1. b.id # c.id
        BY <1>18 DEF Ids
      <3>2. Shows(c) => c.ref \in Refs(ps)
        BY DEF Shows, Refs
      <3>3. b.ref \notin Refs(ps)
        BY <1>12
      <3> QED
        BY <3>1, <3>2, <3>3 DEF Differ
    <2>2. OnePage(s)
      BY <1>1, <1>18 DEF ShownOnce
    <2>3. OnePage(t)
      BY <2>1, <2>2, <1>13, <1>14, <1>15, <1>18
    <2>4. \A b \in Range(t) : \/ \E c \in Range(ps[i].blocks) : Same(b, c)
                              \/ \A c \in Blocks(ps) : Differ(b, c)
      BY <2>1, <1>14 DEF Same
    <2> QED
      BY <2>3, <2>4, <1>1, <1>3, <1>14, <1>18, PageReplaced
  <1>19. qs # <<>>
    BY <1>16
  <1>20. N \in SUBSET BlockT
    BY <1>12
  <1> QED
    BY <1>12, <1>16, <1>17, <1>18, <1>19, <1>20

\* The list of the exercises of a lesson has each once, and those that exist.
LEMMA ListIs ==
  ASSUME NEW l \in Lessons, saved \in [Lessons -> Docs],
         NEW list, list = get_exercises_by_lesson(l)
  PROVE  list \in Seq(Exercises) /\ Range(list) \subseteq Live /\ Distinct(list)
  <1> DEFINE blocks == flattenPages(saved[l].pages)
             named == {i \in DOMAIN blocks : blocks[i].kind = "exercise" /\ blocks[i].ref \in Live}
             first == {i \in named : \A j \in named : blocks[j].ref = blocks[i].ref => i <= j}
             all == [i \in DOMAIN blocks |-> i]
             firsts == Kept(all, first)
  <1>1. blocks \in Seq(BlockT)
    BY FlattenPages DEF Docs
  <1>2. list = [k \in DOMAIN firsts |-> blocks[firsts[k]].ref]
    BY DEF get_exercises_by_lesson
  <1> HIDE DEF blocks
  <1>3. Len(blocks) \in Nat /\ DOMAIN blocks = 1 .. Len(blocks)
    BY <1>1
  <1>4. all \in Seq(Nat) /\ Range(all) = DOMAIN blocks /\ Distinct(all)
    <2>1. all = [i \in 1 .. Len(blocks) |-> i]
      BY <1>3
    <2> QED
      BY <2>1, <1>3 DEF Range, Distinct
  <1> HIDE DEF all
  <1>5. firsts \in Seq(Nat) /\ Range(firsts) = Range(all) \cap first
    BY <1>4, KeptIs
  <1>6. Distinct(firsts)
    BY <1>4, KeptDistinct
  <1> HIDE DEF firsts
  <1>7. Len(firsts) \in Nat /\ DOMAIN firsts = 1 .. Len(firsts)
    BY <1>5
  <1>8. ASSUME NEW k \in DOMAIN firsts
        PROVE  firsts[k] \in first /\ firsts[k] \in Nat /\ list[k] = blocks[firsts[k]].ref
    BY <1>2, <1>5 DEF Range
  <1>9. \A i \in first : blocks[i].ref \in Live /\ i \in named
    OBVIOUS
  <1>10. \A i, j \in first : blocks[i].ref = blocks[j].ref => i <= j /\ j <= i
    OBVIOUS
  <1> HIDE DEF first, named
  <1>11. DOMAIN list = 1 .. Len(firsts)
    BY <1>2, <1>7
  <1>12. \A k \in DOMAIN firsts : list[k] \in Live
    BY <1>8, <1>9
  <1>13. list \in Seq(Exercises)
    BY <1>2, <1>7, <1>12 DEF Live
  <1>14. Distinct(list)
    <2>1. ASSUME NEW j \in DOMAIN list, NEW k \in DOMAIN list, list[j] = list[k] PROVE j = k
      <3>1. firsts[j] <= firsts[k] /\ firsts[k] <= firsts[j]
        BY <2>1, <1>7, <1>8, <1>10, <1>11
      <3>2. firsts[j] = firsts[k]
        BY <3>1, <1>7, <1>8, <1>11
      <3> QED
        BY <3>2, <1>6, <1>7, <1>11 DEF Distinct
    <2> QED
      BY <2>1 DEF Distinct
  <1> QED
    BY <1>7, <1>11, <1>12, <1>13, <1>14 DEF Range

\* A new name and an exercise that is not shown yet.
LEMMA FreshIs ==
  ASSUME NEW ps, NEW b, b.id \notin Ids(ps), Shows(b) => b.ref \notin Refs(ps)
  PROVE  Fresh(b, ps)
  <1>1. ASSUME NEW c \in Blocks(ps) PROVE Differ(b, c)
    <2>1. b.id # c.id
      BY DEF Ids
    <2>2. Shows(c) => c.ref \in Refs(ps)
      BY DEF Shows, Refs
    <2> QED
      BY <2>1, <2>2 DEF Differ
  <1> QED
    BY <1>1 DEF Fresh

LEMMA PagesOf ==
  ASSUME NEW d \in Docs, NEW ps \in Seq(PageT), NEW e, e = [d EXCEPT !.pages = ps]
  PROVE  e \in Docs /\ e.pages = ps /\ e.title = d.title
  BY DEF Docs

\* content_without_block: the block of x is gone, the rest is closed up.
LEMMA WithoutIs ==
  ASSUME NEW d \in Docs, NEW x, NEW e, e = content_without_block(d, x)
  PROVE  /\ e \in Docs /\ PagesCome(e.pages, d.pages)
         /\ InPosition(d.pages) => InPosition(e.pages)
         /\ Refs(e.pages) \subseteq Refs(d.pages) \ {x}
  <1> DEFINE ps == d.pages
             K(i) == {b \in Range(ps[i].blocks) : b.kind = "exercise" => b.ref # x}
             ks == [i \in DOMAIN ps |-> Kept(ps[i].blocks, K(i))]
             bs == [i \in DOMAIN ps |-> Positioned(Kept(ps[i].blocks, K(i)))]
             qs == closedUp(ps, x)
  <1>1. ps \in Seq(PageT)
    BY DEF Docs
  <1>2. CASE x \notin Refs(d.pages)
    <2>1. e = d
      BY <1>2 DEF content_without_block
    <2>2. PagesCome(ps, ps)
      BY SameIsSame, PagesAlike
    <2> QED
      BY <1>2, <2>1, <2>2
  <1>3. CASE x \in Refs(d.pages)
    <2>1. e = [d EXCEPT !.pages = qs]
      BY <1>3 DEF content_without_block
    <2>2. Rebuilt(ps, bs, qs)
      <3>1. \A i \in DOMAIN ps : bs[i] = Positioned(Without(ps[i].blocks, x))
        BY DEF Without
      <3> HIDE DEF bs
      <3>2. qs = [i \in DOMAIN ps |-> [ps[i] EXCEPT !.blocks = bs[i]]]
        BY <3>1 DEF closedUp
      <3> QED
        BY <3>2 DEF Rebuilt
    <2>3. \A i \in DOMAIN ps : ks[i] = Kept(ps[i].blocks, K(i)) /\ bs[i] = Positioned(ks[i])
      OBVIOUS
    <2> HIDE DEF ks, bs, qs, ps
    <2>4. ASSUME NEW i \in DOMAIN ps
          PROVE  /\ bs[i] \in Seq(BlockT) /\ Comes(bs[i], ps[i].blocks) /\ InOrder(bs[i])
                 /\ \A b \in Range(bs[i]) : b.kind = "exercise" => b.ref # x
      <3>1. /\ ks[i] \in Seq(BlockT) /\ Comes(ks[i], ps[i].blocks)
            /\ Range(ks[i]) = Range(ps[i].blocks) \cap K(i)
        BY <1>1, <2>3, PageIs, KeptComes
      <3>2. /\ bs[i] \in Seq(BlockT) /\ InOrder(bs[i]) /\ DOMAIN bs[i] = DOMAIN ks[i]
            /\ \A k \in DOMAIN ks[i] : Same(bs[i][k], ks[i][k])
        BY <2>3, <3>1, PositionedIs
      <3>3. Comes(bs[i], ks[i])
        BY <3>2, SameComes
      <3>4. Comes(bs[i], ps[i].blocks)
        BY <3>1, <3>3, ComesTrans
      <3>5. \A b \in Range(bs[i]) : \E c \in Range(ks[i]) : Same(b, c)
        BY <3>3, ComesFacts
      <3>6. \A b \in Range(bs[i]) : b.kind = "exercise" => b.ref # x
        BY <3>1, <3>5 DEF Same
      <3> QED
        BY <3>2, <3>4, <3>6
    <2>5. /\ qs \in Seq(PageT) /\ DOMAIN qs = DOMAIN ps
          /\ \A i \in DOMAIN ps : qs[i].blocks = bs[i]
      BY <1>1, <2>2, <2>4, EveryPage
    <2>6. e \in Docs /\ e.pages = qs
      BY <2>1, <2>5, PagesOf
    <2>7. PagesCome(qs, ps)
      BY <2>4, <2>5, PagesAlike
    <2>8. InPosition(qs)
      BY <2>4, <2>5, InPositionIs
    <2>9. Refs(qs) \subseteq Refs(ps)
      BY <2>5, <2>7, PagesComeFacts, CoversFacts
    <2>10. x \notin Refs(qs)
      <3>1. \A b \in Blocks(qs) : b.kind = "exercise" => b.ref # x
        BY <2>4, <2>5, BlocksOf
      <3> QED
        BY <3>1 DEF Refs
    <2> QED
      BY <2>6, <2>7, <2>8, <2>9, <2>10 DEF ps
  <1> QED
    BY <1>2, <1>3

\* with_exercise_block: at most one block more, and it shows x.
LEMMA WithIs ==
  ASSUME NEW d \in Docs, NEW x \in Exercises, NEW e, e = with_exercise_block(d, x)
  PROVE  /\ e \in Docs
         /\ InPosition(d.pages) => InPosition(e.pages)
         /\ \A b \in Blocks(e.pages) : \/ b \in Blocks(d.pages)
                                       \/ /\ b.id = <<"server", x>> /\ b.kind = "exercise"
                                          /\ b.ref = x
         /\ ShownOnce(d.pages) /\ <<"server", x>> \notin Ids(d.pages) => ShownOnce(e.pages)
  <1> DEFINE ps == IF d.pages = <<>> THEN singlePage ELSE d.pages
             id == <<"server", x>>
             qs == AppendBlock(ps, Len(ps), id, x)
  <1>1. CASE x \in Refs(d.pages)
    BY <1>1 DEF with_exercise_block
  <1>2. CASE x \notin Refs(d.pages)
    <2>1. e = [d EXCEPT !.pages = qs]
      BY <1>2 DEF with_exercise_block
    <2>2. d.pages \in Seq(PageT) /\ id \in BlockIds
      BY DEF Docs, BlockIds
    <2>3. /\ ps \in Seq(PageT) /\ ps # <<>> /\ Blocks(ps) = Blocks(d.pages)
          /\ InPosition(d.pages) => InPosition(ps)
          /\ ShownOnce(d.pages) => ShownOnce(ps)
      <3>1. CASE d.pages = <<>>
        <4>1. Blocks(d.pages) = {} /\ ps = <<blankPage(0)>>
          BY <3>1 DEF Blocks, singlePage
        <4> QED
          BY <4>1, BlankPages
      <3>2. CASE d.pages # <<>>
        BY <2>2, <3>2
      <3> QED
        BY <3>1, <3>2
    <2>9. qs = AppendBlock(ps, Len(ps), id, x)
      OBVIOUS
    <2> HIDE DEF ps, qs, id
    <2>4. PICK n \in Nat : Appended(ps, qs, Block(id, "exercise", x, n))
      BY <2>2, <2>3, <2>9, AppendIs
    <2> DEFINE b == Block(id, "exercise", x, n)
    <2>5. b.id = id /\ b.kind = "exercise" /\ b.ref = x
      BY DEF Block
    <2> HIDE DEF b
    <2>6. qs \in Seq(PageT) /\ e \in Docs /\ e.pages = qs
      BY <2>1, <2>4, PagesOf DEF Edited, Appended
    <2>7. Ids(ps) = Ids(d.pages) /\ Refs(ps) = Refs(d.pages)
      BY <2>3 DEF Ids, Refs
    <2>8. ASSUME ShownOnce(d.pages), id \notin Ids(d.pages) PROVE ShownOnce(qs)
      <3>1. Fresh(b, ps)
        BY <1>2, <2>5, <2>7, <2>8, FreshIs
      <3> QED
        BY <2>3, <2>4, <2>8, <3>1 DEF Edited, Appended, b
    <2> QED
      BY <2>3, <2>4, <2>5, <2>6, <2>8 DEF Appended, b, id
  <1> QED
    BY <1>1, <1>2

\* What the two leave of the references.
LEMMA RefsAfter ==
  ASSUME NEW d \in Docs, NEW x
  PROVE  /\ Refs(content_without_block(d, x).pages) \subseteq Refs(d.pages) \ {x}
         /\ x \in Exercises => Refs(with_exercise_block(d, x).pages) \subseteq Refs(d.pages) \cup {x}
  <1>1. Refs(content_without_block(d, x).pages) \subseteq Refs(d.pages) \ {x}
    BY WithoutIs
  <1>2. ASSUME x \in Exercises
        PROVE  Refs(with_exercise_block(d, x).pages) \subseteq Refs(d.pages) \cup {x}
    <2>1. \A b \in Blocks(with_exercise_block(d, x).pages) : b \in Blocks(d.pages) \/ b.ref = x
      BY <1>2, WithIs
    <2> QED
      BY <2>1 DEF Refs
  <1> QED
    BY <1>1, <1>2

-----------------------------------------------------------------------------
(* What a document may name: only what has been made.                          *)

\* A block whose maker is among the first n acts and the exercises B.
GoodBlock(b, n, B) ==
  /\ \/ b.id \in {"stored"} \X Nat
     \/ b.id \in {"block"} \X (0 .. n)
     \/ b.id \in {"server", "adopted"} \X B /\ b.kind = "exercise" /\ b.ref = b.id[2]
  /\ b.kind = "exercise" => b.ref \in B \cup {Unset}

\* Pages that show an exercise once and name what has been made.
SoundPages(ps, n, B) == ShownOnce(ps) /\ \A b \in Blocks(ps) : GoodBlock(b, n, B)

\* Positions do not matter to it, and what is made later does no harm.
LEMMA GoodSame ==
  ASSUME NEW b, NEW c, NEW n, NEW B, Same(b, c), GoodBlock(c, n, B)
  PROVE  GoodBlock(b, n, B)
  BY DEF Same, GoodBlock

LEMMA GoodMono ==
  ASSUME NEW b, NEW n \in Nat, NEW m \in Nat, n <= m, NEW B, NEW C, B \subseteq C,
         GoodBlock(b, n, B)
  PROVE  GoodBlock(b, m, C)
  <1>1. 0 .. n \subseteq 0 .. m
    OBVIOUS
  <1>2. b.id \in {"block"} \X (0 .. n) => b.id \in {"block"} \X (0 .. m)
    BY <1>1
  <1>3. b.id \in {"server", "adopted"} \X B => b.id \in {"server", "adopted"} \X C
    OBVIOUS
  <1> QED
    BY <1>2, <1>3, Zenon DEF GoodBlock

LEMMA SoundMono ==
  ASSUME NEW ps, NEW n \in Nat, NEW m \in Nat, n <= m, NEW B, NEW C, B \subseteq C,
         SoundPages(ps, n, B)
  PROVE  SoundPages(ps, m, C)
  BY GoodMono DEF SoundPages

\* What is not made yet is in no document: new names are new.
LEMMA SoundRefs ==
  ASSUME NEW ps, NEW n, NEW B, SoundPages(ps, n, B)
  PROVE  Refs(ps) \subseteq B
  BY DEF SoundPages, Refs, GoodBlock

LEMMA SoundIds ==
  ASSUME NEW ps, NEW n \in Nat, NEW B, SoundPages(ps, n, B)
  PROVE  /\ \A m \in Nat : m > n => <<"block", m>> \notin Ids(ps)
         /\ \A x : x \notin B => <<"server", x>> \notin Ids(ps) /\ <<"adopted", x>> \notin Ids(ps)
         /\ \A x : <<"adopted", x>> \in Ids(ps) => x \in Refs(ps) \/ x = Unset
  <1>1. ASSUME NEW b \in Blocks(ps), NEW m \in Nat, b.id = <<"block", m>> PROVE m <= n
    <2>1. GoodBlock(b, n, B)
      BY DEF SoundPages
    <2>2. b.id \notin {"stored"} \X Nat /\ b.id \notin {"server", "adopted"} \X B
      BY <1>1
    <2>3. <<"block", m>> \in {"block"} \X (0 .. n)
      BY <2>1, <2>2, <1>1 DEF GoodBlock
    <2> QED
      BY <2>3
  <1>2. ASSUME NEW b \in Blocks(ps), NEW x, NEW by \in {"server", "adopted"}, b.id = <<by, x>>
        PROVE  x \in B /\ b.kind = "exercise" /\ b.ref = x
    <2>1. GoodBlock(b, n, B)
      BY DEF SoundPages
    <2>2. b.id \notin {"stored"} \X Nat /\ b.id \notin {"block"} \X (0 .. n) /\ b.id[2] = x
      BY <1>2
    <2>3. b.id \in {"server", "adopted"} \X B /\ b.kind = "exercise" /\ b.ref = x
      BY <2>1, <2>2 DEF GoodBlock
    <2> QED
      BY <2>3, <1>2
  <1>3. \A m \in Nat : m > n => <<"block", m>> \notin Ids(ps)
    BY <1>1 DEF Ids
  <1>4. \A x : x \notin B => <<"server", x>> \notin Ids(ps) /\ <<"adopted", x>> \notin Ids(ps)
    BY <1>2 DEF Ids
  <1>5. ASSUME NEW x, <<"adopted", x>> \in Ids(ps) PROVE x \in Refs(ps) \/ x = Unset
    <2>1. PICK b \in Blocks(ps) : b.id = <<"adopted", x>>
      BY <1>5 DEF Ids
    <2>2. b.kind = "exercise" /\ b.ref = x
      BY <2>1, <1>2
    <2> QED
      BY <2>2 DEF Refs
  <1> QED
    BY <1>3, <1>4, <1>5

\* The pages after an edit are sound for one act more.
LEMMA SoundEdited ==
  ASSUME NEW ps, NEW qs, NEW gone, NEW new, Edited(ps, qs, gone, new),
         NEW n \in Nat, NEW B \in SUBSET Exercises, SoundPages(ps, n, B),
         \A b \in new : b.id = <<"block", n + 1>> /\ (b.kind = "text" \/ b.ref = Unset)
  PROVE  SoundPages(qs, n + 1, B) /\ Refs(qs) \subseteq Refs(ps)
  <1>1. \A b \in new : ~ Shows(b) /\ b.id \notin Ids(ps) /\ GoodBlock(b, n + 1, B)
    <2>1. <<"block", n + 1>> \notin Ids(ps)
      BY SoundIds
    <2>2. <<"block", n + 1>> \in {"block"} \X (0 .. n + 1)
      OBVIOUS
    <2> QED
      BY <2>1, <2>2 DEF Shows, GoodBlock
  <1>2. \A b \in new : Fresh(b, ps)
    BY <1>1, FreshIs
  <1>3. ShownOnce(qs)
    BY <1>2 DEF Edited, SoundPages
  <1>4. ASSUME NEW b \in Blocks(qs)
        PROVE  GoodBlock(b, n + 1, B) /\ (Shows(b) => b.ref \in Refs(ps))
    <2>1. CASE b \in new
      BY <2>1, <1>1
    <2>2. CASE b \notin new
      <3>1. PICK c \in Blocks(ps) : Same(b, c)
        BY <2>2 DEF Edited
      <3>2. GoodBlock(c, n, B)
        BY DEF SoundPages
      <3>3. GoodBlock(b, n + 1, B)
        BY <3>1, <3>2, GoodSame, GoodMono
      <3>4. Shows(b) => b.ref \in Refs(ps)
        BY <3>1 DEF Same, Shows, Refs
      <3> QED
        BY <3>3, <3>4
    <2> QED
      BY <2>1, <2>2
  <1>5. Refs(qs) \subseteq Refs(ps)
    BY <1>4 DEF Refs, Shows
  <1> QED
    BY <1>3, <1>4, <1>5 DEF SoundPages

\* A document that comes from a sound one is sound.
LEMMA SoundCome ==
  ASSUME NEW ps, NEW qs \in Seq(PageT), PagesCome(qs, ps), NEW n, NEW B, SoundPages(ps, n, B)
  PROVE  SoundPages(qs, n, B)
  BY PagesComeFacts, GoodSame DEF SoundPages, Covers

\* The block id of sound pages gets another ref.
LEMMA SoundSetRef ==
  ASSUME NEW ps \in Seq(PageT), ps # <<>>, NEW id, NEW ref \in Nat \cup Exercises \cup {Unset},
         NEW n \in Nat, NEW B \in SUBSET Exercises, SoundPages(ps, n, B),
         NEW qs, qs = SetRef(ps, id, ref),
         id[1] \in {"stored", "block"},
         \A b \in Blocks(ps) : b.id = id /\ b.kind = "exercise" => ref \in B \ Refs(ps)
  PROVE  /\ SoundPages(qs, n, B)
         /\ Refs(qs) \subseteq Refs(ps) \cup {ref}
         /\ (\A b \in Blocks(ps) : b.id = id => b.kind # "exercise") => Refs(qs) \subseteq Refs(ps)
  <1>1. /\ qs \in Seq(PageT)
        /\ \A b \in Blocks(qs) : \E c \in Blocks(ps) :
             b.id = c.id /\ b.kind = c.kind /\ b.ref = IF c.id = id THEN ref ELSE c.ref
        /\ ShownOnce(ps)
             /\ (\A b \in Blocks(ps) : b.id = id /\ b.kind = "exercise" => ref \notin Refs(ps))
             => ShownOnce(qs)
    BY OpSetRef
  <1>2. ShownOnce(qs)
    BY <1>1 DEF SoundPages
  <1>3. ASSUME NEW b \in Blocks(qs)
        PROVE  /\ GoodBlock(b, n, B)
               /\ Shows(b) => \/ b.ref \in Refs(ps)
                              \/ b.ref = ref /\ \E c \in Blocks(ps) : c.id = id /\ c.kind = "exercise"
    <2>1. PICK c \in Blocks(ps) :
             b.id = c.id /\ b.kind = c.kind /\ b.ref = IF c.id = id THEN ref ELSE c.ref
      BY <1>1
    <2>2. GoodBlock(c, n, B)
      BY DEF SoundPages
    <2>3. CASE c.id = id
      <3>1. c.id \notin {"server", "adopted"} \X B
        BY <2>3
      <3>2. c.id \in {"stored"} \X Nat \/ c.id \in {"block"} \X (0 .. n)
        BY <3>1, <2>2 DEF GoodBlock
      <3>3. b.kind = "exercise" => b.ref \in B
        BY <2>1, <2>3
      <3> QED
        BY <3>2, <3>3, <2>1, <2>3 DEF GoodBlock, Shows
    <2>4. CASE c.id # id
      <3>1. Same(b, c)
        BY <2>1, <2>4 DEF Same
      <3>2. Shows(b) => b.ref \in Refs(ps)
        BY <3>1 DEF Same, Shows, Refs
      <3> QED
        BY <3>1, <3>2, <2>2, GoodSame
    <2> QED
      BY <2>3, <2>4
  <1>4. /\ Refs(qs) \subseteq Refs(ps) \cup {ref}
        /\ (\A b \in Blocks(ps) : b.id = id => b.kind # "exercise") => Refs(qs) \subseteq Refs(ps)
    BY <1>3 DEF Refs, Shows
  <1> QED
    BY <1>2, <1>3, <1>4 DEF SoundPages

-----------------------------------------------------------------------------
(* The inductive invariants.                                                   *)

\* The exercises there are or have been.
Born == {x \in Exercises : library[x] # "unborn"}

\* What is stored, and what was read from there, has its blocks in their positions.
Types ==
  /\ TypeOK
  /\ \A l \in Lessons : InPosition(saved[l].pages)
  /\ \A p \in Panels : InPosition(doc[p].pages)
  /\ \A e \in Editors : \A i \in DOMAIN load[e].lesson : InPosition(load[e].lesson[i].pages)
  /\ \A c \in creations : /\ InPosition(c.doc.pages)
                          /\ c.st = "created" => c.ex \in Exercises

\* The rows and the documents show an exercise once, and name what has been made.
SoundAt(n, B) ==
  /\ \A l \in Lessons : SoundPages(saved[l].pages, n, B)
  /\ \A p \in Pages : SoundPages(doc[p].pages, n, B)
  /\ \A e \in Editors :
       /\ \A i \in DOMAIN load[e].lesson : SoundPages(load[e].lesson[i].pages, n, B)
       /\ \A i \in DOMAIN load[e].list :
            Distinct(load[e].list[i]) /\ Range(load[e].list[i]) \subseteq B
  /\ \A t \in timers : SoundPages(t.doc.pages, n, B)
  /\ \A s \in saves : SoundPages(s.doc.pages, n, B)
  /\ \A c \in creations : SoundPages(c.doc.pages, n, B)

\* ... of all that has been made by now.
SoundDocs == SoundAt(acts, Born)

\* An exercise that was created is not in the document it is to be put into.
CreationAt(c) ==
  /\ c.page \in Editors => /\ c.block[1] \in {"stored", "block"}
                           /\ phase[c.page] \in {"editing", "left"}
  /\ c.page \in Panels => /\ c.block \in {"block"} \X (0 .. acts)
                          /\ c.block \notin Ids(c.doc.pages)
  /\ c.st = "created" => /\ c.ex \in Born /\ c.ex \notin Refs(c.doc.pages)
                         /\ c.page \in Editors => c.ex \notin Refs(doc[c.page].pages)

\* What holds of every creation under way.
SoundCreations ==
  /\ \A c \in creations : CreationAt(c)
  /\ \A c, d \in creations : c # d /\ c.st = "created" /\ d.st = "created" => c.ex # d.ex

\* The armed timer and the newest save of an editor.
Rest ==
  /\ \A e \in Editors : phase[e] \in {"unopened", "loading"} =>
       newest[e] = 0 /\ \A t \in timers : t.page # e
  /\ \A t, u \in timers : t.page = u.page => t = u
  /\ \A t \in timers : phase[t.page] = "editing" => t.doc = doc[t.page]
  /\ \A s \in saves : s.page \in Editors => s.n \in 1 .. newest[s.page] /\ s.lesson = at[s.page]
  /\ \A s \in saves :
       /\ s.page \in Editors /\ phase[s.page] = "editing" /\ s.n = newest[s.page]
       /\ \A t \in timers : t.page # s.page
       => s.doc = doc[s.page]
  /\ \A l \in Lessons, e \in Editors, n \in Nat : last[l] = <<e, n>> => n <= newest[e]

\* A lesson may name an exercise that is there, or whose deletion a write overlapped.
MayName(l, x) == x \in Live \/ <<l, x>> \in overtaken

\* What is still to be written: by a save that has passed its check, or by a creation
\* that has read its lesson.
ToWrite ==
  /\ \A s \in saves : s.st = "checked" /\ "content" \in s.writes =>
       \A x \in Refs(s.doc.pages) : MayName(s.lesson, x)
  /\ \A c \in creations : c.st = "read" => \A x \in Refs(c.doc.pages) : MayName(at[c.page], x)

\* What a deletion has not found was written behind its back.
Searched ==
  \A r \in deletions : r.st = "found" =>
    /\ r.ex \notin Unborn
    /\ \A l \in Lessons : r.ex \in Refs(saved[l].pages) =>
         l \in r.lessons \/ <<l, r.ex>> \in overtaken

\* What a page has held is still in what it saves, or was taken away.
Holds ==
  /\ \A e \in Editors : /\ phase[e] = "editing" => seen[e] \subseteq Ids(doc[e].pages) \cup removed
                        /\ phase[e] \in {"unopened", "loading"} => seen[e] = {}
  /\ \A t \in timers : t.seen \subseteq Ids(t.doc.pages) \cup removed
  /\ \A s \in saves : s.seen \subseteq Ids(s.doc.pages) \cup removed

\* A save has its number, a panel one request.
OneSave ==
  /\ \A s, u \in saves : s.page = u.page /\ (s.page \in Panels \/ s.n = u.n) => s = u
  /\ \A c, d \in creations : c.page = d.page /\ c.page \in Panels => c = d
  /\ \A c \in creations, s \in saves : c.page = s.page => c.page \in Editors

-----------------------------------------------------------------------------
(* The types, action by action.                                                *)

\* The document of a page that has none.
LEMMA NoDocIs ==
  /\ NoDoc \in Docs /\ NoDoc.pages = <<>>
  /\ InPosition(NoDoc.pages)
  /\ Blocks(NoDoc.pages) = {} /\ ShownOnce(NoDoc.pages)
  <1>1. NoDoc \in Docs /\ NoDoc.pages = <<>>
    BY DEF NoDoc, Docs, Untitled
  <1> QED
    BY <1>1 DEF InPosition, Blocks, ShownOnce

\* The types hold at the start.
LEMMA TypesInit ==
  Init => Types
  <1> SUFFICES ASSUME Init PROVE Types
    OBVIOUS
  <1> USE NoDocIs
  <1>1. saved \in [Lessons -> Docs] /\ doc \in [Pages -> Docs]
    BY StoredAssumption DEF Init
  <1>2. /\ library \in [Exercises -> {"unborn", "live", "deleted"}]
        /\ phase \in [Pages -> {"unopened", "loading", "editing", "legacy", "left",
                                "open", "refetching"}]
        /\ at \in [Pages -> Lessons]
        /\ \A e \in Editors : phase[e] # "editing"
    BY PagesAssumption DEF Init, Pages
  <1>3. load \in [Editors -> [lesson : Seq(Docs), list : Seq(Seq(Exercises))]]
    BY DEF Init
  <1>4. /\ timers = {} /\ saves = {} /\ creations = {} /\ deletions = {}
        /\ acts \in 0 .. MaxActs /\ faults \in 0 .. MaxFaults
    BY BoundsAssumption DEF Init
  <1>5. /\ seen \in [Pages -> SUBSET BlockIds] /\ removed = {} /\ overtaken = {}
        /\ newest \in [Editors -> Nat]
        /\ last \in [Lessons -> (Pages \X Nat) \cup {None}]
    BY DEF Init
  <1>6. TypeOK
    BY <1>1, <1>2, <1>3, <1>4, <1>5 DEF TypeOK
  <1>7. \A l \in Lessons : InPosition(saved[l].pages)
    BY StoredAssumption DEF Init
  <1>8. \A p \in Panels : InPosition(doc[p].pages)
    BY DEF Init, Pages
  <1>9. \A e \in Editors : load[e].lesson = <<>>
    BY DEF Init
  <1> QED
    BY <1>6, <1>7, <1>8, <1>9, <1>4 DEF Types

\* A document the editor made up.
LEMMA TypesEditing ==
  ASSUME Types, NEW e \in Editors, phase[e] = "editing", NEW d \in Docs, d.pages # <<>>,
         doc' = [doc EXCEPT ![e] = d], seen' \in [Pages -> SUBSET BlockIds],
         triggerSave(e, d)
  PROVE  /\ doc' \in [Pages -> Docs]
         /\ \A f \in Editors : phase[f] = "editing" => doc'[f].pages # <<>>
         /\ \A p \in Panels : InPosition(doc'[p].pages)
         /\ timers' \subseteq TimerT
  <1>1. e \in Pages /\ doc \in [Pages -> Docs] /\ e \notin Panels /\ Panels \subseteq Pages
    BY PagesAssumption DEF Types, TypeOK, Pages
  <1>2. \A p \in Pages : doc'[p] = IF p = e THEN d ELSE doc[p]
    BY <1>1
  <1>3. \A p \in Panels : InPosition(doc'[p].pages)
    BY <1>1, <1>2 DEF Types
  <1>4. \A f \in Editors : phase[f] = "editing" => doc'[f].pages # <<>>
    BY <1>1, <1>2 DEF Types, TypeOK, Pages
  <1>5. timers' \subseteq TimerT
    BY <1>1 DEF triggerSave, TimerT, Types, TypeOK
  <1> QED
    BY <1>1, <1>3, <1>4, <1>5

\* The answers of the first fetch of an editor.
LoadT == [lesson : Seq(Docs), list : Seq(Seq(Exercises))]
LoadPlaced(r) == \A i \in DOMAIN r.lesson : InPosition(r.lesson[i].pages)

\* An answer of the first fetch arrives.
LEMMA TypesLoad ==
  ASSUME Types, NEW e \in Editors, NEW r \in LoadT, LoadPlaced(r),
         load' = [load EXCEPT ![e] = r]
  PROVE  /\ load' \in [Editors -> [lesson : Seq(Docs), list : Seq(Seq(Exercises))]]
         /\ \A f \in Editors : \A i \in DOMAIN load'[f].lesson :
              InPosition(load'[f].lesson[i].pages)
  <1>1. load \in [Editors -> LoadT]
    BY DEF Types, TypeOK, LoadT
  <1>2. load' \in [Editors -> LoadT] /\ \A f \in Editors : load'[f] = IF f = e THEN r ELSE load[f]
    BY <1>1
  <1>3. \A f \in Editors : LoadPlaced(load[f])
    BY DEF Types, LoadPlaced
  <1>4. \A f \in Editors : LoadPlaced(load'[f])
    BY <1>2, <1>3
  <1> QED
    BY <1>2, <1>4 DEF LoadT, LoadPlaced

LEMMA LoadGets ==
  ASSUME NEW q \in LoadT, NEW y
  PROVE  /\ [q EXCEPT !.lesson = y] = [lesson |-> y, list |-> q.list]
         /\ [q EXCEPT !.list = y] = [lesson |-> q.lesson, list |-> y]
  BY DEF LoadT

\* The phases of a page.
PhaseT == [Pages -> {"unopened", "loading", "editing", "legacy", "left", "open", "refetching"}]

\* The opening of the editor.
LEMMA TypesOpening ==
  ASSUME Types, NEW e \in Editors, Opening(e)
  PROVE  Types'
  <1>1. e \in Pages /\ e \notin Panels
    BY PagesAssumption DEF Pages
  <1>2. at[e] \in Lessons /\ saved \in [Lessons -> Docs]
    BY <1>1 DEF Types, TypeOK
  <1>11. load \in [Editors -> LoadT]
    BY DEF Types, TypeOK, LoadT
  <1>3. CASE Open(e)
    <2>1. /\ phase' = [phase EXCEPT ![e] = "loading"]
          /\ UNCHANGED <<server, requests, acts, faults, removed>>
          /\ UNCHANGED <<at, doc, load, timers, seen, newest>>
      BY <1>3 DEF Open
    <2>2. phase' \in PhaseT /\ \A f \in Editors : phase'[f] = "editing" => phase[f] = "editing"
      BY <2>1 DEF Types, TypeOK, PhaseT, Pages
    <2> QED
      BY <2>1, <2>2 DEF Types, TypeOK, PhaseT, server, requests
  <1>4. CASE GetLesson(e)
    <2>1. load' = [load EXCEPT ![e].lesson = <<saved[at[e]]>>]
      BY <1>4 DEF GetLesson
    <2> DEFINE one == <<saved[at[e]]>>
               r == [lesson |-> one, list |-> load[e].list]
    <2>2. saved[at[e]] \in Docs /\ InPosition(saved[at[e]].pages)
      BY <1>2 DEF Types
    <2>3. one \in Seq(Docs) /\ \A i \in DOMAIN one : InPosition(one[i].pages)
      BY <2>2
    <2>4. load' = [load EXCEPT ![e].lesson = one]
      BY <2>1
    <2> HIDE DEF one
    <2>5. load[e] \in LoadT /\ load[e] = [lesson |-> load[e].lesson, list |-> load[e].list]
      BY <1>11 DEF LoadT
    <2>6. r \in LoadT /\ LoadPlaced(r)
      BY <2>3, <2>5 DEF LoadT, LoadPlaced
    <2>7. load' = [load EXCEPT ![e] = r]
      <3>1. [load[e] EXCEPT !.lesson = one] = r
        BY <2>5, LoadGets
      <3> QED
        BY <2>4, <3>1
    <2> HIDE DEF r
    <2>8. /\ load' \in [Editors -> [lesson : Seq(Docs), list : Seq(Seq(Exercises))]]
          /\ \A f \in Editors : \A i \in DOMAIN load'[f].lesson :
               InPosition(load'[f].lesson[i].pages)
      BY <2>6, <2>7, TypesLoad
    <2> QED
      BY <1>4, <2>8 DEF GetLesson, Types, TypeOK, server, requests
  <1>5. CASE GetExercises(e)
    <2> DEFINE list == get_exercises_by_lesson(at[e])
               one == <<list>>
               r == [lesson |-> load[e].lesson, list |-> one]
    <2>1. load' = [load EXCEPT ![e].list = one]
      BY <1>5 DEF GetExercises
    <2>2. list \in Seq(Exercises)
      BY <1>2, ListIs
    <2> HIDE DEF list
    <2>3. one \in Seq(Seq(Exercises))
      BY <2>2
    <2> HIDE DEF one
    <2>5. load[e] \in LoadT /\ load[e] = [lesson |-> load[e].lesson, list |-> load[e].list]
      BY <1>11 DEF LoadT
    <2>6. r \in LoadT /\ LoadPlaced(r)
      BY <2>3, <2>5 DEF LoadT, LoadPlaced, Types
    <2>7. load' = [load EXCEPT ![e] = r]
      <3>1. [load[e] EXCEPT !.list = one] = r
        BY <2>5, LoadGets
      <3> QED
        BY <2>1, <3>1
    <2> HIDE DEF r
    <2>8. /\ load' \in [Editors -> [lesson : Seq(Docs), list : Seq(Seq(Exercises))]]
          /\ \A f \in Editors : \A i \in DOMAIN load'[f].lesson :
               InPosition(load'[f].lesson[i].pages)
      BY <2>6, <2>7, TypesLoad
    <2> QED
      BY <1>5, <2>8 DEF GetExercises, Types, TypeOK, server, requests
  <1> DEFINE none == [lesson |-> <<>>, list |-> <<>>]
  <1>6. ASSUME load' = [load EXCEPT ![e] = none]
        PROVE  /\ load' \in [Editors -> [lesson : Seq(Docs), list : Seq(Seq(Exercises))]]
               /\ \A f \in Editors : \A i \in DOMAIN load'[f].lesson :
                    InPosition(load'[f].lesson[i].pages)
    <2>1. none \in LoadT /\ LoadPlaced(none)
      BY DEF LoadT, LoadPlaced
    <2> QED
      BY <2>1, <1>6, TypesLoad
  <1>7. CASE Loaded(e) /\ at[e] \in Legacy
    <2>1. /\ load' = [load EXCEPT ![e] = none]
          /\ phase' = [phase EXCEPT ![e] = "legacy"]
          /\ UNCHANGED <<doc, timers, seen, server, requests, acts, faults, removed, at, newest>>
      BY <1>7 DEF Loaded
    <2> HIDE DEF none
    <2>2. /\ phase' \in [Pages -> {"unopened", "loading", "editing", "legacy", "left",
                                   "open", "refetching"}]
          /\ \A f \in Editors : phase'[f] = "editing" => phase[f] = "editing"
      BY <2>1, <1>1 DEF Types, TypeOK, Pages
    <2> QED
      BY <2>1, <2>2, <1>6 DEF Types, TypeOK, server, requests
  <1>8. CASE Loaded(e) /\ at[e] \notin Legacy
    <2> DEFINE lesson == load[e].lesson[1]
               ps == extractPages(lesson)
               list == load[e].list[1]
               qs == adoptDetachedExercises(ps, list)
               d == [lesson EXCEPT !.pages = qs]
    <2>1. load[e].lesson # <<>> /\ load[e].list # <<>>
      BY <1>8 DEF Loaded
    <2>2. lesson \in Docs /\ list \in Seq(Exercises) /\ InPosition(lesson.pages)
      BY <2>1 DEF Types, TypeOK
    <2>3. ps \in Seq(PageT) /\ ps # <<>>
      BY <2>2, ExtractIs
    <2>4. qs \in Seq(PageT) /\ qs # <<>>
      BY <2>2, <2>3, AdoptIs
    <2>5. /\ phase' = [phase EXCEPT ![e] = "editing"]
          /\ doc' = [doc EXCEPT ![e] = d]
          /\ seen' = [seen EXCEPT ![e] = Ids(qs)]
          /\ triggerSave(e, d)
          /\ load' = [load EXCEPT ![e] = none]
          /\ UNCHANGED <<server, requests, acts, faults, removed, at, newest>>
      BY <1>8 DEF Loaded
    <2> HIDE DEF lesson, ps, list, qs
    <2>6. d \in Docs /\ d.pages = qs
      BY <2>2, <2>4, PagesOf
    <2>7. Ids(qs) \subseteq BlockIds
      BY <2>4, IdsAre
    <2> HIDE DEF d
    <2>8. /\ seen' \in [Pages -> SUBSET BlockIds]
          /\ doc' \in [Pages -> Docs]
          /\ phase' \in [Pages -> {"unopened", "loading", "editing", "legacy", "left",
                                   "open", "refetching"}]
      BY <2>5, <2>6, <2>7, <1>1 DEF Types, TypeOK
    <2>9. /\ \A f \in Editors : phase'[f] = "editing" => doc'[f].pages # <<>>
          /\ \A p \in Panels : InPosition(doc'[p].pages)
      BY <2>5, <2>6, <2>4, <1>1 DEF Types, TypeOK, Pages
    <2>10. timers' \subseteq TimerT
      BY <2>5, <2>6, <2>8, <1>1 DEF triggerSave, TimerT, Types, TypeOK
    <2>11. /\ load' \in [Editors -> [lesson : Seq(Docs), list : Seq(Seq(Exercises))]]
           /\ \A f \in Editors : \A i \in DOMAIN load'[f].lesson :
                InPosition(load'[f].lesson[i].pages)
      BY <2>5, <1>6
    <2> QED
      BY <2>5, <2>8, <2>9, <2>10, <2>11 DEF Types, TypeOK, server, requests
  <1>9. CASE LoadFails(e)
    <2> DEFINE d == [NoDoc EXCEPT !.pages = singlePage]
    <2>1. singlePage \in Seq(PageT) /\ singlePage # <<>>
      BY BlankPages DEF singlePage
    <2>2. d \in Docs /\ d.pages # <<>>
      BY <2>1, NoDocIs, PagesOf
    <2> HIDE DEF d
    <2>3. /\ phase' = [phase EXCEPT ![e] = "editing"]
          /\ doc' = [doc EXCEPT ![e] = d]
          /\ load' = [load EXCEPT ![e] = none]
          /\ faults' \in 0 .. MaxFaults
          /\ UNCHANGED <<server, requests, acts, removed>>
          /\ UNCHANGED <<at, timers, seen, newest>>
      BY <1>9, BoundsAssumption DEF LoadFails, Types, TypeOK, d
    <2>4. /\ doc' \in [Pages -> Docs]
          /\ phase' \in [Pages -> {"unopened", "loading", "editing", "legacy", "left",
                                   "open", "refetching"}]
          /\ \A f \in Editors : phase'[f] = "editing" => doc'[f].pages # <<>>
          /\ \A p \in Panels : InPosition(doc'[p].pages)
      BY <2>3, <2>2, <1>1 DEF Types, TypeOK, Pages
    <2>5. /\ load' \in [Editors -> [lesson : Seq(Docs), list : Seq(Seq(Exercises))]]
          /\ \A f \in Editors : \A i \in DOMAIN load'[f].lesson :
               InPosition(load'[f].lesson[i].pages)
      BY <2>3, <1>6
    <2> QED
      BY <2>3, <2>4, <2>5 DEF Types, TypeOK, server, requests
  <1> QED
    BY <1>3, <1>4, <1>5, <1>7, <1>8, <1>9 DEF Opening

\* What an edit leaves: pages whose new blocks name no exercise.
Op(e, qs, gone) ==
  /\ qs \in Seq(PageT) /\ qs # <<>> /\ gone \subseteq BlockIds
  /\ Ids(Ps(e)) \subseteq Ids(qs) \cup gone
  /\ \A B \in SUBSET Exercises : SoundPages(Ps(e), acts, B) =>
       SoundPages(qs, acts + 1, B) /\ Refs(qs) \subseteq Refs(Ps(e))

\* The edits that only change the document, together.
Typing(e) ==
  \/ EditTitle(e) \/ updateBlock(e) \/ addBlock(e) \/ handleDragEnd(e)
  \/ addPage(e) \/ movePage(e) \/ deletePage(e) \/ renamePage(e)
  \/ \E b \in Blocks(Ps(e)) :
       (b.kind = "text" \/ b.ref = Unset) /\ Edit(e, Titled(e), DropBlock(Ps(e), b.id), {b.id})

\* What an editor holds.
LEMMA PageHeld ==
  ASSUME Types, NEW e \in Editors
  PROVE  /\ e \in Pages /\ doc[e] \in Docs /\ Ps(e) \in Seq(PageT) /\ Titled(e) \in Int
         /\ acts \in Nat /\ New \in Nat
         /\ phase[e] = "editing" => Ps(e) # <<>>
  BY BoundsAssumption DEF Types, TypeOK, Pages, Docs, Ps, Titled, New

\* An operation on the pages is such an edit.
LEMMA EditedOp ==
  ASSUME Types, NEW e \in Editors, NEW qs, NEW gone, NEW new, Edited(Ps(e), qs, gone, new),
         \A b \in new : b.id = <<"block", New>> /\ (b.kind = "text" \/ b.ref = Unset)
  PROVE  Op(e, qs, gone)
  <1>1. ASSUME NEW B \in SUBSET Exercises, SoundPages(Ps(e), acts, B)
        PROVE  SoundPages(qs, acts + 1, B) /\ Refs(qs) \subseteq Refs(Ps(e))
    BY <1>1, PageHeld, SoundEdited DEF New
  <1> QED
    BY <1>1 DEF Op, Edited

\* A name stands for one block.
LEMMA OneName ==
  ASSUME NEW ps, ShownOnce(ps), NEW b \in Blocks(ps), NEW c \in Blocks(ps), b.id = c.id
  PROVE  b = c
  <1>1. PICK i \in DOMAIN ps : b \in Range(ps[i].blocks)
    BY BlocksOf
  <1>2. PICK j \in DOMAIN ps : c \in Range(ps[j].blocks)
    BY BlocksOf
  <1>3. i = j
    BY <1>1, <1>2 DEF ShownOnce, Differ
  <1>4. PICK m \in DOMAIN ps[i].blocks : b = ps[i].blocks[m]
    BY <1>1 DEF Range
  <1>5. PICK n \in DOMAIN ps[i].blocks : c = ps[i].blocks[n]
    BY <1>2, <1>3 DEF Range
  <1> QED
    BY <1>4, <1>5 DEF ShownOnce, OnePage, Differ

\* Every edit of the document is of that form: nothing is lost, no exercise is named anew.
LEMMA TypingIs ==
  ASSUME Types, NEW e \in Editors, Typing(e)
  PROVE  \E ti, qs, gone : ti \in Int /\ Edit(e, ti, qs, gone) /\ Op(e, qs, gone)
  <1> DEFINE ps == Ps(e)
  <1>0. ps \in Seq(PageT) /\ Titled(e) \in Int /\ New \in Nat
    BY PageHeld
  <1>1. CASE EditTitle(e)
    <2>1. ps # <<>>
      BY <1>1, PageHeld DEF EditTitle, Edit
    <2>2. PagesCome(ps, ps)
      BY SameIsSame, PagesAlike
    <2>3. Edited(ps, ps, {}, {})
      BY <2>1, <2>2, <1>0, OpCome
    <2>4. Op(e, ps, {})
      BY <2>3, EditedOp
    <2> QED
      BY <1>1, <1>0, <2>4 DEF EditTitle
  <1>2. CASE updateBlock(e)
    <2>1. PICK b \in Blocks(ps) : b.kind = "text" /\ Edit(e, Titled(e), SetRef(ps, b.id, New), {})
      BY <1>2 DEF updateBlock
    <2>2. ps # <<>>
      BY <2>1, PageHeld DEF Edit
    <2> DEFINE qs == SetRef(ps, b.id, New)
    <2>3. qs \in Seq(PageT) /\ qs # <<>> /\ Ids(qs) = Ids(ps)
      BY <2>2, <1>0, OpSetRef
    <2>4. ASSUME NEW B \in SUBSET Exercises, SoundPages(ps, acts, B)
          PROVE  SoundPages(qs, acts + 1, B) /\ Refs(qs) \subseteq Refs(ps)
      <3>1. GoodBlock(b, acts, B) /\ b.id \notin {"server", "adopted"} \X B
        BY <2>4, <2>1 DEF SoundPages, GoodBlock
      <3>2. b.id[1] \in {"stored", "block"}
        BY <3>1 DEF GoodBlock
      <3>3. \A c \in Blocks(ps) : c.id = b.id => c = b
        BY <2>4, <1>0, OneName DEF SoundPages
      <3>4. \A c \in Blocks(ps) : c.id = b.id => c.kind # "exercise"
        BY <3>3, <2>1
      <3>5. SoundPages(qs, acts, B) /\ Refs(qs) \subseteq Refs(ps)
        BY <3>2, <3>4, <2>2, <2>4, <1>0, PageHeld, SoundSetRef
      <3> QED
        BY <3>5, PageHeld, SoundMono
    <2>5. Op(e, qs, {})
      BY <2>3, <2>4 DEF Op
    <2> QED
      BY <2>1, <2>5, <1>0
  <1>3. CASE addBlock(e)
    <2>1. PICK i \in DOMAIN ps, kind \in {"text", "exercise"} : \E k \in 1 .. Len(ps[i].blocks) + 1 :
            Edit(e, Titled(e),
                 [ps EXCEPT ![i].blocks =
                    InsertAt(@, k, Block(<<"block", New>>, kind,
                                         IF kind = "text" THEN New ELSE Unset, k - 1))], {})
      BY <1>3 DEF addBlock
    <2>2. PICK k \in 1 .. Len(ps[i].blocks) + 1 :
            Edit(e, Titled(e),
                 [ps EXCEPT ![i].blocks =
                    InsertAt(@, k, Block(<<"block", New>>, kind,
                                         IF kind = "text" THEN New ELSE Unset, k - 1))], {})
      BY <2>1
    <2> DEFINE b == Block(<<"block", New>>, kind, IF kind = "text" THEN New ELSE Unset, k - 1)
               qs == [ps EXCEPT ![i].blocks = InsertAt(@, k, b)]
    <2>3. Len(ps[i].blocks) \in Nat
      BY <1>0, PageIs
    <2>4. b \in BlockT /\ b.id = <<"block", New>> /\ (b.kind = "text" \/ b.ref = Unset)
      BY <2>3, <1>0 DEF BlockT, BlockIds, Block
    <2>5. Edit(e, Titled(e), qs, {})
      BY <2>2
    <2> HIDE DEF b
    <2>6. Edited(ps, qs, {}, {b})
      BY <2>4, <1>0, OpInsert
    <2> HIDE DEF qs
    <2>7. Op(e, qs, {})
      BY <2>4, <2>6, EditedOp
    <2> QED
      BY <2>5, <2>7, <1>0
  <1>4. CASE handleDragEnd(e)
    <2>1. PICK i \in DOMAIN ps : \E j, k \in DOMAIN ps[i].blocks :
            Edit(e, Titled(e), [ps EXCEPT ![i].blocks = InsertAt(RemoveAt(@, j), k, @[j])], {})
      BY <1>4 DEF handleDragEnd
    <2>2. PICK j \in DOMAIN ps[i].blocks, k \in DOMAIN ps[i].blocks :
            Edit(e, Titled(e), [ps EXCEPT ![i].blocks = InsertAt(RemoveAt(@, j), k, @[j])], {})
      BY <2>1
    <2> DEFINE qs == [ps EXCEPT ![i].blocks = InsertAt(RemoveAt(@, j), k, @[j])]
    <2>3. Edited(ps, qs, {}, {})
      BY <1>0, OpDrag
    <2>4. Edit(e, Titled(e), qs, {})
      BY <2>2
    <2> HIDE DEF qs
    <2>5. Op(e, qs, {})
      BY <2>3, EditedOp
    <2> QED
      BY <2>4, <2>5, <1>0
  <1>5. CASE addPage(e)
    <2> DEFINE qs == Append(ps, blankPage(New))
    <2>1. Edited(ps, qs, {}, {})
      BY <1>0, OpAddPage
    <2>2. Edit(e, Titled(e), qs, {})
      BY <1>5 DEF addPage
    <2> HIDE DEF qs
    <2> QED
      BY <2>1, <2>2, <1>0, EditedOp
  <1>6. CASE movePage(e)
    <2>1. PICK i \in DOMAIN ps :
            i + 1 \in DOMAIN ps
            /\ Edit(e, Titled(e), [ps EXCEPT ![i] = ps[i + 1], ![i + 1] = ps[i]], {})
      BY <1>6 DEF movePage
    <2> DEFINE qs == [ps EXCEPT ![i] = ps[i + 1], ![i + 1] = ps[i]]
    <2>2. Edited(ps, qs, {}, {})
      BY <2>1, <1>0, OpMovePage
    <2>3. Edit(e, Titled(e), qs, {})
      BY <2>1
    <2> HIDE DEF qs
    <2> QED
      BY <2>2, <2>3, <1>0, EditedOp
  <1>7. CASE deletePage(e)
    <2>1. PICK i \in DOMAIN ps :
            Edit(e, Titled(e),
                 IF Len(ps) = 1 THEN <<blankPage(New)>> ELSE RemoveAt(ps, i), Ids(<<ps[i]>>))
      BY <1>7 DEF deletePage
    <2> DEFINE qs == IF Len(ps) = 1 THEN <<blankPage(New)>> ELSE RemoveAt(ps, i)
               gone == Ids(<<ps[i]>>)
    <2>2. Edited(ps, qs, gone, {})
      BY <1>0, OpDeletePage
    <2>3. Edit(e, Titled(e), qs, gone)
      BY <2>1
    <2> HIDE DEF qs, gone
    <2> QED
      BY <2>2, <2>3, <1>0, EditedOp
  <1>8. CASE renamePage(e)
    <2>1. PICK i \in DOMAIN ps : Edit(e, Titled(e), [ps EXCEPT ![i].title = New], {})
      BY <1>8 DEF renamePage
    <2> DEFINE qs == [ps EXCEPT ![i].title = New]
    <2>2. Edited(ps, qs, {}, {})
      BY <1>0, OpRename
    <2>3. Edit(e, Titled(e), qs, {})
      BY <2>1
    <2> HIDE DEF qs
    <2> QED
      BY <2>2, <2>3, <1>0, EditedOp
  <1>9. ASSUME NEW b \in Blocks(ps), Edit(e, Titled(e), DropBlock(ps, b.id), {b.id})
        PROVE  \E ti, qs, gone : ti \in Int /\ Edit(e, ti, qs, gone) /\ Op(e, qs, gone)
    <2> DEFINE qs == DropBlock(ps, b.id)
               gone == {b.id}
    <2>1. ps # <<>>
      BY <1>9, PageHeld DEF Edit
    <2>2. b.id \in BlockIds
      BY <1>0, IdsAre DEF Ids
    <2>3. Edited(ps, qs, gone, {})
      BY <2>1, <2>2, <1>0, OpDrop
    <2>4. Edit(e, Titled(e), qs, gone)
      BY <1>9
    <2> HIDE DEF qs, gone
    <2> QED
      BY <2>3, <2>4, <1>0, EditedOp
  <1> QED
    BY <1>1, <1>2, <1>3, <1>4, <1>5, <1>6, <1>7, <1>8, <1>9 DEF Typing

\* What an edit does to the state.
LEMMA EditIs ==
  ASSUME Types, NEW e \in Editors, NEW ti \in Int, NEW qs, NEW gone, Op(e, qs, gone),
         Edit(e, ti, qs, gone)
  PROVE  \E d \in Docs :
           /\ d.title = ti /\ d.pages = qs /\ phase[e] = "editing"
           /\ acts < MaxActs /\ acts' = acts + 1
           /\ doc' = [doc EXCEPT ![e] = d]
           /\ seen' = [seen EXCEPT ![e] = @ \cup Ids(qs)]
           /\ removed' = removed \cup gone
           /\ triggerSave(e, d)
           /\ UNCHANGED <<server, requests, faults, phase, at, load, newest>>
  <1> DEFINE d == [doc[e] EXCEPT !.title = ti, !.pages = qs]
  <1>1. doc[e] \in Docs /\ qs \in Seq(PageT)
    BY PageHeld DEF Op
  <1>2. d \in Docs /\ d.title = ti /\ d.pages = qs
    BY <1>1 DEF Docs
  <1> QED
    BY <1>2 DEF Edit

\* An edit of the document.
LEMMA TypesTyping ==
  ASSUME Types, NEW e \in Editors, Typing(e)
  PROVE  Types'
  <1>1. PICK ti, qs, gone : ti \in Int /\ Edit(e, ti, qs, gone) /\ Op(e, qs, gone)
    BY TypingIs
  <1>2. PICK d \in Docs :
           /\ d.title = ti /\ d.pages = qs /\ phase[e] = "editing"
           /\ acts < MaxActs /\ acts' = acts + 1
           /\ doc' = [doc EXCEPT ![e] = d]
           /\ seen' = [seen EXCEPT ![e] = @ \cup Ids(qs)]
           /\ removed' = removed \cup gone
           /\ triggerSave(e, d)
           /\ UNCHANGED <<server, requests, faults, phase, at, load, newest>>
    BY <1>1, EditIs
  <1>3. qs \in Seq(PageT) /\ qs # <<>> /\ gone \subseteq BlockIds
    BY <1>1 DEF Op
  <1>4. Ids(qs) \subseteq BlockIds
    BY <1>3, IdsAre
  <1>5. seen' \in [Pages -> SUBSET BlockIds] /\ removed' \subseteq BlockIds
    BY <1>2, <1>3, <1>4 DEF Types, TypeOK, Pages
  <1>6. acts' \in 0 .. MaxActs
    BY <1>2, BoundsAssumption DEF Types, TypeOK
  <1>7. /\ doc' \in [Pages -> Docs]
        /\ \A f \in Editors : phase[f] = "editing" => doc'[f].pages # <<>>
        /\ \A p \in Panels : InPosition(doc'[p].pages)
        /\ timers' \subseteq TimerT
    BY <1>2, <1>3, <1>5, TypesEditing
  <1> QED
    BY <1>2, <1>5, <1>6, <1>7 DEF Types, TypeOK, server, requests

\* The requests about an exercise.
CreateT == RequestT("create", Pages, Exercises \cup {Unset}, {"sent", "read", "created"})
DeleteT == RequestT("delete", Editors \cup {Catalogue}, Exercises,
                    {"sent", "found", "done", "failed"})

LEMMA ActsGrow ==
  ASSUME Types, acts < MaxActs, acts' = acts + 1
  PROVE  acts' \in 0 .. MaxActs
  BY BoundsAssumption DEF Types, TypeOK

\* The requests an editor sends.
LEMMA TypesDelete ==
  ASSUME Types, SoundDocs, NEW e \in Editors,
         NEW b \in Blocks(Ps(e)), b.kind # "text", b.ref # Unset,
         acts < MaxActs, acts' = acts + 1,
         deletions' = deletions \cup {Request("delete", e, New, b.id, b.ref, 0, NoDoc)},
         UNCHANGED <<server, browser, saves, creations, faults, removed>>
  PROVE  Types'
  <1> DEFINE r == Request("delete", e, New, b.id, b.ref, 0, NoDoc)
  <1>1. b \in BlockT
    BY PageHeld, IdsAre
  <1>2. b.id \in BlockIds /\ b.kind = "exercise"
    BY <1>1 DEF BlockT
  <1>3. b.ref \in Exercises
    BY <1>2, PageHeld DEF SoundDocs, SoundAt, SoundPages, GoodBlock, Born, Ps
  <1>4. r = Request("delete", e, New, b.id, b.ref, 0, NoDoc)
    OBVIOUS
  <1>5. deletions' = deletions \cup {r}
    OBVIOUS
  <1> HIDE DEF r
  <1>6. r \in DeleteT
    BY <1>2, <1>3, <1>4, PageHeld, NoDocIs DEF Request, DeleteT, RequestT
  <1>7. acts' \in 0 .. MaxActs
    BY ActsGrow
  <1> QED
    BY <1>5, <1>6, <1>7 DEF Types, TypeOK, server, browser, DeleteT

LEMMA TypesCreate ==
  ASSUME Types, NEW e \in Editors, createAndAttachExercise(e)
  PROVE  Types'
  <1>1. PICK b \in {c \in Blocks(Ps(e)) : c.kind = "exercise" /\ c.ref = Unset} :
          creations' = creations \cup {Request("create", e, New, b.id, Unset, 0, NoDoc)}
    BY DEF createAndAttachExercise
  <1> DEFINE r == Request("create", e, New, b.id, Unset, 0, NoDoc)
  <1>2. b.id \in BlockIds
    BY PageHeld, IdsAre DEF Ids
  <1>3. /\ r \in CreateT
        /\ r.st = "sent" /\ r.doc = NoDoc
    BY <1>2, PageHeld, NoDocIs DEF Request, CreateT, RequestT
  <1> HIDE DEF r
  <1>4. /\ creations' = creations \cup {r}
        /\ UNCHANGED <<server, browser, saves, deletions, faults, removed>>
        /\ acts' \in 0 .. MaxActs
    BY <1>1, ActsGrow DEF createAndAttachExercise, r
  <1> QED
    BY <1>3, <1>4, NoDocIs DEF Types, TypeOK, server, browser, CreateT

LEMMA TypesLeave ==
  ASSUME Types, NEW e \in Editors, Leave(e)
  PROVE  Types'
  <1>1. /\ phase' = [phase EXCEPT ![e] = "left"]
        /\ doc' = [doc EXCEPT ![e] = NoDoc]
        /\ seen' = [seen EXCEPT ![e] = {}]
        /\ timers' \subseteq timers
        /\ UNCHANGED <<server, requests, acts, faults, removed>>
        /\ UNCHANGED <<at, load, newest>>
    BY DEF Leave
  <1>2. /\ phase' \in [Pages -> {"unopened", "loading", "editing", "legacy", "left",
                                 "open", "refetching"}]
        /\ doc' \in [Pages -> Docs] /\ seen' \in [Pages -> SUBSET BlockIds]
        /\ \A f \in Editors : phase'[f] = "editing" => doc'[f].pages # <<>>
        /\ \A p \in Panels : InPosition(doc'[p].pages)
    BY <1>1, NoDocIs, PagesAssumption DEF Types, TypeOK, Pages
  <1> QED
    BY <1>1, <1>2 DEF Types, TypeOK, server, requests

\* What the answer to a deletion makes of the document.
LEMMA DropIs ==
  ASSUME Types, NEW e \in Editors, phase[e] = "editing", NEW id \in BlockIds
  PROVE  \E d \in Docs :
           /\ [doc[e] EXCEPT !.pages = DropBlock(@, id)] = d
           /\ d.title = Titled(e) /\ d.pages = DropBlock(Ps(e), id) /\ d.pages # <<>>
           /\ Op(e, d.pages, {id})
  <1> DEFINE qs == DropBlock(Ps(e), id)
             d == [doc[e] EXCEPT !.pages = qs]
  <1>0. d = [doc[e] EXCEPT !.pages = DropBlock(@, id)]
    BY DEF Ps
  <1>1. Edited(Ps(e), qs, {id}, {})
    BY PageHeld, OpDrop
  <1>2. Op(e, qs, {id})
    BY <1>1, EditedOp
  <1> HIDE DEF qs
  <1>3. qs \in Seq(PageT) /\ qs # <<>>
    BY <1>2 DEF Op
  <1>4. d \in Docs /\ d.title = Titled(e) /\ d.pages = qs
    BY <1>3, PageHeld, PagesOf DEF Titled
  <1> HIDE DEF d
  <1>5. [doc[e] EXCEPT !.pages = DropBlock(@, id)] = d
    BY <1>0
  <1> QED
    BY <1>2, <1>3, <1>4, <1>5 DEF qs

\* What the answer to a creation makes of the document.
LEMMA AttachIs ==
  ASSUME Types, NEW e \in Editors, phase[e] = "editing", NEW id \in BlockIds,
         NEW x \in Exercises
  PROVE  \E d \in Docs :
           /\ [doc[e] EXCEPT !.pages = SetRef(@, id, x)] = d
           /\ d.title = Titled(e) /\ d.pages = SetRef(Ps(e), id, x)
           /\ d.pages # <<>> /\ Ids(d.pages) = Ids(Ps(e))
  <1> DEFINE qs == SetRef(Ps(e), id, x)
             d == [doc[e] EXCEPT !.pages = qs]
  <1>0. d = [doc[e] EXCEPT !.pages = SetRef(@, id, x)]
    BY DEF Ps
  <1>2. /\ qs = SetRef(Ps(e), id, x) /\ Ps(e) \in Seq(PageT) /\ Ps(e) # <<>>
        /\ x \in Nat \cup Exercises \cup {Unset}
    BY PageHeld
  <1> HIDE DEF qs
  <1>1. qs \in Seq(PageT) /\ qs # <<>> /\ Ids(qs) = Ids(Ps(e))
    BY <1>2, OpSetRef
  <1>4. d \in Docs /\ d.title = Titled(e) /\ d.pages = qs
    BY <1>1, PageHeld, PagesOf DEF Titled
  <1> HIDE DEF d
  <1>5. [doc[e] EXCEPT !.pages = SetRef(@, id, x)] = d
    BY <1>0
  <1> QED
    BY <1>1, <1>4, <1>5 DEF qs

LEMMA TypesDeleteAnswered ==
  ASSUME Types, NEW r \in deletions, DeleteAnswered(r)
  PROVE  Types'
  <1> DEFINE e == r.page
  <1>1. /\ r.block \in BlockIds /\ deletions' \subseteq deletions
        /\ UNCHANGED <<server, saves, creations, acts, faults, phase, at, load, newest>>
    BY DEF Types, TypeOK, RequestT, DeleteAnswered
  <1>2. CASE e \in Editors /\ phase[e] = "editing"
    <2>1. PICK d \in Docs :
            /\ [doc[e] EXCEPT !.pages = DropBlock(@, r.block)] = d
            /\ d.pages # <<>>
      BY <1>1, <1>2, DropIs
    <2>2. /\ doc' = [doc EXCEPT ![e] = d]
          /\ removed' = removed \cup {r.block} /\ UNCHANGED seen
          /\ triggerSave(e, d)
      BY <1>2, <2>1 DEF DeleteAnswered
    <2>3. seen' \in [Pages -> SUBSET BlockIds]
      BY <2>2 DEF Types, TypeOK
    <2>4. /\ doc' \in [Pages -> Docs]
          /\ \A f \in Editors : phase[f] = "editing" => doc'[f].pages # <<>>
          /\ \A p \in Panels : InPosition(doc'[p].pages)
          /\ timers' \subseteq TimerT
      BY <1>1, <1>2, <2>1, <2>2, <2>3, TypesEditing
    <2> QED
      BY <1>1, <2>2, <2>4 DEF Types, TypeOK, server
  <1>3. CASE ~(e \in Editors /\ phase[e] = "editing")
    <2>1. UNCHANGED <<doc, removed, seen, timers>>
      BY <1>3 DEF DeleteAnswered
    <2> QED
      BY <1>1, <2>1 DEF Types, TypeOK, server
  <1> QED
    BY <1>2, <1>3

LEMMA TypesAttach ==
  ASSUME Types, NEW c \in creations, Attach(c)
  PROVE  Types'
  <1> DEFINE e == c.page
  <1>1. /\ e \in Editors /\ c.ex \in Exercises /\ c.block \in BlockIds
        /\ creations' \subseteq creations
        /\ UNCHANGED <<server, saves, deletions, acts, faults, phase, at, load,
                       newest, removed>>
    BY DEF Types, TypeOK, RequestT, Attach
  <1>2. CASE phase[e] = "editing"
    <2>1. PICK d \in Docs :
            /\ [doc[e] EXCEPT !.pages = SetRef(@, c.block, c.ex)] = d
            /\ d.pages # <<>>
      BY <1>1, <1>2, AttachIs
    <2>2. /\ doc' = [doc EXCEPT ![e] = d] /\ UNCHANGED seen /\ triggerSave(e, d)
      BY <1>2, <2>1 DEF Attach
    <2>3. seen' \in [Pages -> SUBSET BlockIds]
      BY <2>2 DEF Types, TypeOK
    <2>4. /\ doc' \in [Pages -> Docs]
          /\ \A f \in Editors : phase[f] = "editing" => doc'[f].pages # <<>>
          /\ \A p \in Panels : InPosition(doc'[p].pages)
          /\ timers' \subseteq TimerT
      BY <1>1, <1>2, <2>1, <2>2, <2>3, TypesEditing
    <2> QED
      BY <1>1, <2>2, <2>4 DEF Types, TypeOK, server
  <1>3. CASE phase[e] # "editing"
    <2>1. UNCHANGED <<doc, seen, timers>>
      BY <1>3 DEF Attach
    <2> QED
      BY <1>1, <2>1 DEF Types, TypeOK, server
  <1> QED
    BY <1>2, <1>3

\* A save is one when its parts are.
LEMMA SaveIs ==
  ASSUME Types, NEW p \in Pages, NEW n \in Nat, NEW d \in Docs, NEW held \in SUBSET BlockIds
  PROVE  /\ Save(p, n, d, held) \in SaveT
         /\ Save(p, n, d, held).page = p /\ Save(p, n, d, held).n = n
         /\ Save(p, n, d, held).lesson = at[p] /\ Save(p, n, d, held).doc = d
         /\ Save(p, n, d, held).seen = held /\ Save(p, n, d, held).st = "sent"
  BY DEF Save, SaveT, Types, TypeOK

LEMMA TypesFire ==
  ASSUME Types, NEW t \in timers, Fire(t)
  PROVE  Types'
  <1> DEFINE s == Save(t.page, newest'[t.page], t.doc, t.seen)
  <1>1. t.page \in Editors /\ t.page \in Pages /\ t.doc \in Docs /\ t.seen \in SUBSET BlockIds
    BY DEF Types, TypeOK, TimerT, Pages
  <1>2. newest' \in [Editors -> Nat]
    BY <1>1 DEF Fire, Types, TypeOK
  <1>3. s \in SaveT
    BY <1>1, <1>2, SaveIs
  <1>4. timers' \subseteq timers /\ saves' = saves \cup {s}
    BY DEF Fire
  <1> HIDE DEF s
  <1>5. /\ UNCHANGED <<server, creations, deletions, acts, faults, removed>>
        /\ UNCHANGED <<phase, at, doc, load, seen>>
    BY DEF Fire
  <1> QED
    BY <1>2, <1>3, <1>4, <1>5 DEF Types, TypeOK, server

LEMMA TypesFetch ==
  ASSUME Types, NEW p \in Panels, fetchCourse(p)
  PROVE  Types'
  <1> DEFINE d == saved[at[p]]
  <1>1. /\ phase' = [phase EXCEPT ![p] = "open"] /\ doc' = [doc EXCEPT ![p] = d]
        /\ seen' = [seen EXCEPT ![p] = Ids(d.pages)]
        /\ UNCHANGED <<server, requests, acts, faults, removed>>
        /\ UNCHANGED <<at, load, timers, newest>>
    BY DEF fetchCourse
  <1>2. p \in Pages /\ p \notin Editors /\ Editors \subseteq Pages /\ Panels \subseteq Pages
    BY PagesAssumption DEF Pages
  <1>3. d \in Docs /\ InPosition(d.pages)
    BY <1>2 DEF Types, TypeOK
  <1>4. d.pages \in Seq(PageT)
    BY <1>3 DEF Docs
  <1>5. Ids(d.pages) \in SUBSET BlockIds
    BY <1>4, IdsAre
  <1> HIDE DEF d
  <1>6. /\ phase' \in PhaseT /\ doc' \in [Pages -> Docs] /\ seen' \in [Pages -> SUBSET BlockIds]
        /\ \A f \in Editors : phase'[f] = "editing" => doc'[f].pages # <<>>
        /\ \A q \in Panels : InPosition(doc'[q].pages)
    BY <1>1, <1>2, <1>3, <1>5 DEF Types, TypeOK, PhaseT
  <1> QED
    BY <1>1, <1>6 DEF Types, TypeOK, PhaseT, server, requests

\* What a panel holds: the pages as they were fetched, in their positions.
LEMMA PanelHeld ==
  ASSUME Types, NEW p \in Panels
  PROVE  /\ p \in Pages /\ p \notin Editors
         /\ doc[p] \in Docs /\ doc[p].pages \in Seq(PageT) /\ InPosition(doc[p].pages)
         /\ extractPages(doc[p]) \in Seq(PageT) /\ extractPages(doc[p]) # <<>>
         /\ Blocks(extractPages(doc[p])) = Blocks(doc[p].pages)
         /\ DOMAIN extractPages(doc[p]) \subseteq Nat
         /\ New \in Nat /\ <<"block", New>> \in BlockIds
  <1>1. p \in Pages /\ p \notin Editors
    BY PagesAssumption DEF Pages
  <1>2. doc[p] \in Docs /\ InPosition(doc[p].pages)
    BY <1>1 DEF Types, TypeOK
  <1>3. /\ extractPages(doc[p]) \in Seq(PageT) /\ extractPages(doc[p]) # <<>>
        /\ Blocks(extractPages(doc[p])) = Blocks(doc[p].pages)
    BY <1>2, ExtractIs
  <1>4. New \in Nat
    BY BoundsAssumption DEF Types, TypeOK, New
  <1>5. doc[p].pages \in Seq(PageT) /\ <<"block", New>> \in BlockIds
    BY <1>2, <1>4 DEF Docs, BlockIds
  <1>6. DOMAIN extractPages(doc[p]) \subseteq Nat
    BY <1>3
  <1> QED
    BY <1>1, <1>2, <1>3, <1>4, <1>5, <1>6

LEMMA TypesAdd ==
  ASSUME Types, NEW p \in Panels, add(p)
  PROVE  Types'
  <1>1. PICK i \in DOMAIN extractPages(doc[p]) :
          creations' = creations
            \cup {Request("create", p, New, <<"block", New>>, Unset, i, doc[p])}
    BY DEF add
  <1> DEFINE r == Request("create", p, New, <<"block", New>>, Unset, i, doc[p])
  <1>2. i \in Nat
    BY PanelHeld
  <1>3. /\ r \in CreateT
        /\ r.st = "sent" /\ r.doc = doc[p]
    BY <1>2, PanelHeld DEF Request, CreateT, RequestT
  <1>4. creations' = creations \cup {r}
    BY <1>1
  <1> HIDE DEF r
  <1>5. /\ UNCHANGED <<server, browser, saves, deletions, faults, removed>>
        /\ acts' \in 0 .. MaxActs
    BY ActsGrow DEF add, Ready
  <1>6. InPosition(doc[p].pages)
    BY PanelHeld
  <1> QED
    BY <1>3, <1>4, <1>5, <1>6 DEF Types, TypeOK, server, browser, CreateT

\* The lesson a panel saves: what it knew, and one block more.
WithBlock(d, i, id, x) == [d EXCEPT !.pages = AppendBlock(extractPages(d), i, id, x)]

\* The lesson a panel saves has one block more than the one it knew.
LEMMA PlacedIs ==
  ASSUME NEW d \in Docs, InPosition(d.pages), NEW i, NEW id \in BlockIds, NEW x \in Exercises
  PROVE  \E e \in Docs : \E n \in Nat :
           /\ WithBlock(d, i, id, x) = e
           /\ Blocks(e.pages) = Blocks(d.pages) \cup {Block(id, "exercise", x, n)}
           /\ ShownOnce(d.pages) /\ Fresh(Block(id, "exercise", x, n), d.pages)
                => ShownOnce(e.pages)
  <1> DEFINE ps == extractPages(d)
             qs == AppendBlock(ps, i, id, x)
             e == [d EXCEPT !.pages = qs]
  <1>1. /\ ps \in Seq(PageT) /\ ps # <<>> /\ Blocks(ps) = Blocks(d.pages)
        /\ ShownOnce(d.pages) => ShownOnce(ps)
    BY ExtractIs
  <1> HIDE DEF ps
  <1>2. PICK n \in Nat : Appended(ps, qs, Block(id, "exercise", x, n))
    BY <1>1, AppendIs
  <1> DEFINE b == Block(id, "exercise", x, n)
             N == {b}
  <1>3. Appended(ps, qs, b) /\ Edited(ps, qs, {}, N)
    BY <1>2 DEF Appended
  <1>4. WithBlock(d, i, id, x) = e
    BY DEF ps, WithBlock
  <1>5. \A c \in N : c = b
    OBVIOUS
  <1> HIDE DEF qs, b, N
  <1>6. qs \in Seq(PageT) /\ Blocks(qs) = Blocks(ps) \cup {b}
        /\ (ShownOnce(ps) /\ Fresh(b, ps) => ShownOnce(qs))
    BY <1>3, <1>5 DEF Appended, Edited
  <1>7. e \in Docs /\ e.pages = qs
    BY <1>6, PagesOf
  <1> HIDE DEF e
  <1>8. Fresh(b, d.pages) => Fresh(b, ps)
    BY <1>1 DEF Fresh
  <1> QED
    BY <1>1, <1>4, <1>6, <1>7, <1>8 DEF b

LEMMA PlacedDocs ==
  ASSUME NEW d \in Docs, InPosition(d.pages), NEW i, NEW id \in BlockIds, NEW x \in Exercises
  PROVE  WithBlock(d, i, id, x) \in Docs
  <1>1. PICK e \in Docs : WithBlock(d, i, id, x) = e
    BY PlacedIs
  <1> QED
    BY <1>1

LEMMA TypesAddExercise ==
  ASSUME Types, NEW c \in creations, addExerciseToPage(c)
  PROVE  Types'
  <1> DEFINE d == [c.doc EXCEPT !.pages = AppendBlock(extractPages(c.doc), c.index, c.block, c.ex)]
             held == Ids(c.doc.pages)
             s == Save(c.page, c.n, d, held)
  <1>1. /\ c.page \in Pages /\ c.n \in Nat /\ c.doc \in Docs /\ c.block \in BlockIds
        /\ c.ex \in Exercises /\ InPosition(c.doc.pages) /\ c.doc.pages \in Seq(PageT)
    BY DEF Types, TypeOK, RequestT, addExerciseToPage, Docs
  <1>6. d = WithBlock(c.doc, c.index, c.block, c.ex)
    BY DEF WithBlock
  <1>2. WithBlock(c.doc, c.index, c.block, c.ex) \in Docs
    BY <1>1, PlacedDocs
  <1>3. held \in SUBSET BlockIds
    BY <1>1, IdsAre
  <1>4. /\ saves' = saves \cup {s} /\ creations' \subseteq creations
        /\ UNCHANGED <<server, browser, deletions, acts, faults, removed>>
    BY DEF addExerciseToPage
  <1> HIDE DEF d, held
  <1>5. s \in SaveT
    BY <1>1, <1>2, <1>3, <1>6, SaveIs
  <1> HIDE DEF s
  <1> QED
    BY <1>4, <1>5 DEF Types, TypeOK, server, browser

LEMMA TypesPlace ==
  ASSUME Types, NEW p \in Panels, placeExistingInPage(p)
  PROVE  Types'
  <1>1. /\ acts' \in 0 .. MaxActs
        /\ UNCHANGED <<server, creations, deletions, faults, removed>>
        /\ UNCHANGED <<at, doc, load, timers, seen, newest>>
    BY ActsGrow DEF placeExistingInPage, Ready
  <1>2. PICK x \in Live, i \in DOMAIN extractPages(doc[p]) :
          \/ phase' = [phase EXCEPT ![p] = "refetching"] /\ UNCHANGED saves
          \/ /\ saves' = saves \cup {Save(p, New,
                   [doc[p] EXCEPT !.pages =
                      AppendBlock(extractPages(doc[p]), i, <<"block", New>>, x)],
                   Ids(doc[p].pages))}
             /\ UNCHANGED phase
    BY DEF placeExistingInPage
  <1>3. p \in Pages /\ p \notin Editors
    BY PanelHeld
  <1>4. CASE phase' = [phase EXCEPT ![p] = "refetching"] /\ UNCHANGED saves
    <2>1. phase' \in PhaseT /\ \A e \in Editors : phase'[e] = phase[e]
      BY <1>3, <1>4 DEF Types, TypeOK, PhaseT, Pages
    <2> QED
      BY <1>1, <1>4, <2>1 DEF Types, TypeOK, PhaseT, server
  <1>5. CASE /\ saves' = saves \cup {Save(p, New,
                   [doc[p] EXCEPT !.pages =
                      AppendBlock(extractPages(doc[p]), i, <<"block", New>>, x)],
                   Ids(doc[p].pages))}
             /\ UNCHANGED phase
    <2> DEFINE d == [doc[p] EXCEPT !.pages =
                       AppendBlock(extractPages(doc[p]), i, <<"block", New>>, x)]
               held == Ids(doc[p].pages)
               s == Save(p, New, d, held)
    <2>1. d = WithBlock(doc[p], i, <<"block", New>>, x)
      BY DEF WithBlock
    <2>5. WithBlock(doc[p], i, <<"block", New>>, x) \in Docs
      BY PanelHeld, PlacedDocs DEF Live
    <2>2. held \in SUBSET BlockIds
      BY PanelHeld, IdsAre
    <2>3. saves' = saves \cup {s}
      BY <1>5
    <2> HIDE DEF d, held
    <2>4. s \in SaveT
      BY <2>1, <2>2, <2>5, PanelHeld, SaveIs
    <2> HIDE DEF s
    <2> QED
      BY <1>1, <1>5, <2>3, <2>4 DEF Types, TypeOK, server
  <1> QED
    BY <1>2, <1>4, <1>5

\* A save moves on.
LEMMA MovedIs ==
  ASSUME Types, NEW s \in saves,
         NEW st \in {"sent", "checked", "written", "refused", "failed"}, Moved(s, st)
  PROVE  /\ saves' \subseteq SaveT
         /\ \A u \in saves' : u \in saves \/ u = [s EXCEPT !.st = st]
  <1>1. [s EXCEPT !.st = st] \in SaveT
    <2>1. s \in SaveT
      BY DEF Types, TypeOK
    <2> QED
      BY <2>1 DEF SaveT
  <1> QED
    BY <1>1 DEF Moved, Types, TypeOK

\* A save passes its check.
LEMMA AcceptedIs ==
  ASSUME Types, NEW s \in saves, Accepted(s)
  PROVE  /\ saves' \subseteq SaveT
         /\ \A u \in saves' : \/ u \in saves
                              \/ /\ u.page = s.page /\ u.n = s.n /\ u.lesson = s.lesson
                                 /\ u.doc = s.doc /\ u.seen = s.seen /\ u.st = "checked"
  <1> DEFINE W == Dirty(s)
             u == [s EXCEPT !.st = "checked", !.writes = W]
  <1>1. W \in SUBSET {"title", "content"}
    BY DEF Dirty
  <1>2. saves' = (saves \ {s}) \cup {u}
    BY DEF Accepted
  <1> HIDE DEF W
  <1>3. /\ u \in SaveT /\ u.page = s.page /\ u.n = s.n /\ u.lesson = s.lesson
        /\ u.doc = s.doc /\ u.seen = s.seen /\ u.st = "checked"
    BY <1>1 DEF Types, TypeOK, SaveT
  <1> HIDE DEF u
  <1> QED
    BY <1>2, <1>3 DEF Types, TypeOK

LEMMA TypesSaving ==
  ASSUME Types, NEW s \in saves,
         check_blocks(s) \/ Saved(s) \/ onChanged(s) \/ SaveLost(s)
  PROVE  Types'
  <1>1. CASE check_blocks(s)
    <2>1. saves' \subseteq SaveT
      BY <1>1, MovedIs, AcceptedIs DEF check_blocks
    <2> QED
      BY <1>1, <2>1 DEF check_blocks, Types, TypeOK, server, browser
  <1>2. CASE Saved(s)
    BY <1>2 DEF Saved, Types, TypeOK, server
  <1>3. CASE onChanged(s)
    <2>1. s.page \in Panels /\ s.page \in Pages /\ s.page \notin Editors
      BY <1>3, PanelHeld DEF onChanged
    <2>2. phase' \in PhaseT /\ \A e \in Editors : phase'[e] = phase[e]
      BY <2>1, <1>3 DEF onChanged, Types, TypeOK, PhaseT, Pages
    <2> QED
      BY <1>3, <2>2 DEF onChanged, Types, TypeOK, PhaseT, server
  <1>4. CASE SaveLost(s)
    <2>1. saves' \subseteq SaveT
      BY <1>4, MovedIs DEF SaveLost
    <2>2. faults' \in 0 .. MaxFaults
      BY <1>4, BoundsAssumption DEF SaveLost, Types, TypeOK
    <2> QED
      BY <1>4, <2>1, <2>2 DEF SaveLost, Types, TypeOK, server, browser
  <1> QED
    BY <1>1, <1>2, <1>3, <1>4

\* What a write and a deletion that overlap leave in the history.
LEMMA MissedIs ==
  ASSUME Types, NEW l \in Lessons, NEW X
  PROVE  Missed(l, X) \subseteq Lessons \X Exercises
  BY DEF Missed, Types, TypeOK, RequestT

\* The row after a save: the pages of the save, or its own.
LEMMA RowIs ==
  ASSUME Types, NEW s \in saves, update_lesson(s)
  PROVE  /\ s.lesson \in Lessons /\ s.page \in Pages /\ s.n \in Nat
         /\ s.doc.pages \in Seq(PageT)
         /\ saved' = [saved EXCEPT ![s.lesson] = Written(s)]
         /\ last' = [last EXCEPT ![s.lesson] =
                       IF Written(s) = Sent(s) THEN <<s.page, s.n>> ELSE None]
         /\ Written(s) \in Docs /\ InPosition(Written(s).pages)
         /\ "content" \notin s.writes => Written(s).pages = saved[s.lesson].pages
         /\ "content" \in s.writes =>
              PagesCome(Written(s).pages, s.doc.pages) /\ PagesCome(s.doc.pages, Written(s).pages)
         /\ Written(s) = Sent(s) =>
              /\ Written(s).pages = buildPagesContent(s.doc.pages)
              /\ s.page \in Editors => Written(s).title = s.doc.title
         /\ saves' \subseteq SaveT
         /\ overtaken' \subseteq Lessons \X Exercises
         /\ UNCHANGED <<library, browser, creations, deletions, acts, faults, removed>>
  <1>1. /\ s.lesson \in Lessons /\ s.page \in Pages /\ s.n \in Nat
        /\ s.doc \in Docs /\ saved[s.lesson] \in Docs /\ InPosition(saved[s.lesson].pages)
    BY DEF Types, TypeOK, SaveT
  <1>2. /\ s.doc.pages \in Seq(PageT) /\ s.doc.title \in Int
        /\ saved[s.lesson].title \in Int /\ saved[s.lesson].old \in BOOLEAN
        /\ saved[s.lesson].pages \in Seq(PageT)
    BY <1>1 DEF Docs
  <1> DEFINE qs == buildPagesContent(s.doc.pages)
             rs == IF "content" \in s.writes THEN qs ELSE saved[s.lesson].pages
             ti == IF "title" \in s.writes THEN s.doc.title ELSE saved[s.lesson].title
             ol == IF "content" \in s.writes THEN FALSE ELSE saved[s.lesson].old
  <1>3. /\ qs \in Seq(PageT) /\ InPosition(qs)
        /\ PagesCome(qs, s.doc.pages) /\ PagesCome(s.doc.pages, qs)
    BY <1>2, BuildIs
  <1>4. Written(s) = [title |-> ti, old |-> ol, pages |-> rs]
    BY DEF Written
  <1>5. Sent(s).pages = qs /\ (s.page \in Editors => Sent(s).title = s.doc.title)
    BY DEF Sent
  <1> HIDE DEF qs
  <1>6. ti \in Int /\ ol \in BOOLEAN /\ rs \in Seq(PageT) /\ InPosition(rs)
    BY <1>1, <1>2, <1>3
  <1>7. "content" \in s.writes => rs = qs
    OBVIOUS
  <1>8. "content" \notin s.writes => rs = saved[s.lesson].pages
    OBVIOUS
  <1> HIDE DEF rs, ti, ol
  <1>9. Written(s) \in Docs /\ Written(s).pages = rs
    BY <1>4, <1>6 DEF Docs
  <1>10. saves' \subseteq SaveT
    BY MovedIs DEF update_lesson
  <1>11. overtaken' \subseteq Lessons \X Exercises
    BY <1>1, MissedIs DEF update_lesson, Types, TypeOK
  <1>12. /\ saved' = [saved EXCEPT ![s.lesson] = Written(s)]
         /\ last' = [last EXCEPT ![s.lesson] =
                       IF Written(s) = Sent(s) THEN <<s.page, s.n>> ELSE None]
         /\ UNCHANGED <<library, browser, creations, deletions, acts, faults, removed>>
    BY DEF update_lesson
  <1>13. Written(s) = Sent(s) =>
           /\ Written(s).pages = buildPagesContent(s.doc.pages)
           /\ s.page \in Editors => Written(s).title = s.doc.title
    BY <1>5 DEF qs
  <1> QED
    BY <1>1, <1>2, <1>3, <1>6, <1>7, <1>8, <1>9, <1>10, <1>11, <1>12, <1>13

\* The write of a save.
LEMMA TypesUpdate ==
  ASSUME Types, NEW s \in saves, update_lesson(s)
  PROVE  Types'
  <1>1. /\ s.lesson \in Lessons /\ s.page \in Pages /\ s.n \in Nat
        /\ saved' = [saved EXCEPT ![s.lesson] = Written(s)]
        /\ last' = [last EXCEPT ![s.lesson] =
                      IF Written(s) = Sent(s) THEN <<s.page, s.n>> ELSE None]
        /\ Written(s) \in Docs /\ InPosition(Written(s).pages)
        /\ saves' \subseteq SaveT
        /\ overtaken' \subseteq Lessons \X Exercises
        /\ UNCHANGED <<library, browser, creations, deletions, acts, faults, removed>>
    BY RowIs
  <1>2. /\ saved' \in [Lessons -> Docs]
        /\ \A l \in Lessons : saved'[l] = IF l = s.lesson THEN Written(s) ELSE saved[l]
    BY <1>1 DEF Types, TypeOK
  <1>3. \A l \in Lessons : InPosition(saved'[l].pages)
    BY <1>1, <1>2 DEF Types
  <1>4. last' \in [Lessons -> (Pages \X Nat) \cup {None}]
    <2> DEFINE v == IF Written(s) = Sent(s) THEN <<s.page, s.n>> ELSE None
    <2>1. v \in (Pages \X Nat) \cup {None}
      BY <1>1
    <2>2. last' = [last EXCEPT ![s.lesson] = v]
      BY <1>1
    <2> HIDE DEF v
    <2> QED
      BY <1>1, <2>1, <2>2 DEF Types, TypeOK
  <1> QED
    BY <1>1, <1>2, <1>3, <1>4 DEF Types, TypeOK, browser

\* Rows that are each as before or rewritten.
LEMMA StoredTypes ==
  ASSUME Types, NEW cs, cs \in [Lessons -> Docs], Stored(cs)
  PROVE  saved' = cs /\ last' \in [Lessons -> (Pages \X Nat) \cup {None}]
  BY DEF Stored, Types, TypeOK

\* The rows after a creation: each as before, or as the creation has read it, with the block.
LEMMA WithRows ==
  ASSUME Types, NEW c \in creations, NEW x \in Exercises
  PROVE  /\ With(c, x) \in [Lessons -> Docs]
         /\ \A l \in Lessons :
              \/ With(c, x)[l] = saved[l]
              \/ /\ c.page \in Editors /\ l = at[c.page]
                 /\ With(c, x)[l].pages = with_exercise_block(c.doc, x).pages
  <1>1. saved \in [Lessons -> Docs]
    BY DEF Types, TypeOK
  <1>2. CASE c.page \in Editors
    <2>1. at[c.page] \in Lessons /\ c.doc \in Docs
      BY <1>2, PageHeld DEF Types, TypeOK, RequestT
    <2> DEFINE l == at[c.page]
               d == with_exercise_block(c.doc, x)
               ti == saved[l].title
               e == [d EXCEPT !.title = ti]
    <2>2. d \in Docs
      BY <2>1, WithIs
    <2>3. With(c, x) = [saved EXCEPT ![l] = e]
      BY <1>2 DEF With
    <2>4. d = with_exercise_block(c.doc, x)
      OBVIOUS
    <2>5. ti \in Int
      BY <1>1, <2>1 DEF Docs
    <2> HIDE DEF d, ti
    <2>6. e \in Docs /\ e.pages = d.pages
      BY <2>2, <2>5 DEF Docs
    <2> HIDE DEF e
    <2> QED
      BY <1>1, <1>2, <2>1, <2>3, <2>4, <2>6
  <1>3. CASE c.page \notin Editors
    BY <1>1, <1>3 DEF With
  <1> QED
    BY <1>2, <1>3

\* The rows after a deletion.
LEMMA ClearedRows ==
  ASSUME Types, NEW r
  PROVE  /\ Cleared(r) \in [Lessons -> Docs]
         /\ \A l \in Lessons :
              Cleared(r)[l] = IF l \in r.lessons THEN content_without_block(saved[l], r.ex)
                                                 ELSE saved[l]
  <1>1. \A l \in Lessons : saved[l] \in Docs
    BY DEF Types, TypeOK
  <1>2. \A l \in Lessons : content_without_block(saved[l], r.ex) \in Docs
    BY <1>1, WithoutIs
  <1> QED
    BY <1>1, <1>2 DEF Cleared

\* The lesson is read.
LEMMA ReadIs ==
  ASSUME Types, NEW c \in creations, read_lesson(c)
  PROVE  \E r \in CreateT :
           /\ r.page = c.page /\ r.n = c.n /\ r.block = c.block
           /\ r.doc = saved[at[c.page]] /\ r.st = "read"
           /\ c.st = "sent" /\ c.page \in Editors /\ at[c.page] \in Lessons
           /\ creations' = (creations \ {c}) \cup {r}
           /\ UNCHANGED <<server, browser, saves, deletions, acts, faults, removed>>
  <1> DEFINE d == saved[at[c.page]]
             r == [c EXCEPT !.st = "read", !.doc = d]
  <1>1. /\ c \in CreateT /\ c.page \in Editors /\ at[c.page] \in Lessons
    BY PageHeld DEF Types, TypeOK, CreateT, read_lesson
  <1>2. d \in Docs
    BY <1>1 DEF Types, TypeOK
  <1>3. /\ creations' = (creations \ {c}) \cup {r} /\ c.st = "sent"
        /\ UNCHANGED <<server, browser, saves, deletions, acts, faults, removed>>
    BY DEF read_lesson
  <1>4. d = saved[at[c.page]]
    OBVIOUS
  <1> HIDE DEF d
  <1>5. r \in CreateT /\ r.page = c.page /\ r.n = c.n /\ r.block = c.block /\ r.doc = d
        /\ r.st = "read"
    BY <1>1, <1>2 DEF CreateT, RequestT
  <1> HIDE DEF r
  <1> QED
    BY <1>1, <1>3, <1>4, <1>5

LEMMA TypesRead ==
  ASSUME Types, NEW c \in creations, read_lesson(c)
  PROVE  Types'
  <1>1. PICK r \in CreateT :
          /\ r.doc = saved[at[c.page]] /\ r.st = "read" /\ at[c.page] \in Lessons
          /\ creations' = (creations \ {c}) \cup {r}
          /\ UNCHANGED <<server, browser, saves, deletions, acts, faults, removed>>
    BY ReadIs
  <1>2. InPosition(r.doc.pages)
    BY <1>1 DEF Types
  <1> QED
    BY <1>1, <1>2 DEF Types, TypeOK, server, browser, CreateT

\* What a creation does, with the exercise it makes.
LEMMA CreateIs ==
  ASSUME Types, NEW c \in creations, create_exercise(c)
  PROVE  \E x \in Unborn : \E r :
           /\ c.st # "created" /\ (c.page \in Editors => c.st = "read") /\ x \in Exercises
           /\ library' = [library EXCEPT ![x] = "live"]
           /\ r = [c EXCEPT !.st = "created", !.ex = x]
           /\ r \in CreateT
           /\ r.page = c.page /\ r.n = c.n /\ r.block = c.block /\ r.doc = c.doc
           /\ r.st = "created" /\ r.ex = x
           /\ creations' = (creations \ {c}) \cup {r}
           /\ Stored(With(c, x))
           /\ overtaken' = overtaken \cup
                (IF c.page \in Editors THEN Missed(at[c.page], Refs(c.doc.pages)) ELSE {})
           /\ UNCHANGED <<browser, saves, deletions, acts, faults, removed>>
  <1> DEFINE x == CHOOSE y \in Unborn : TRUE
             r == [c EXCEPT !.st = "created", !.ex = x]
  <1>1. x \in Unborn /\ x \in Exercises
    BY DEF create_exercise, Unborn
  <1>2. /\ c.st # "created" /\ (c.page \in Editors => c.st = "read")
        /\ library' = [library EXCEPT ![x] = "live"]
        /\ creations' = (creations \ {c}) \cup {r}
        /\ Stored(With(c, x))
        /\ overtaken' = overtaken \cup
             (IF c.page \in Editors THEN Missed(at[c.page], Refs(c.doc.pages)) ELSE {})
        /\ UNCHANGED <<browser, saves, deletions, acts, faults, removed>>
    BY DEF create_exercise
  <1> HIDE DEF x
  <1>3. /\ r \in CreateT
        /\ r.page = c.page /\ r.n = c.n /\ r.block = c.block /\ r.doc = c.doc
        /\ r.st = "created" /\ r.ex = x
    BY <1>1 DEF Types, TypeOK, CreateT, RequestT
  <1> QED
    BY <1>1, <1>2, <1>3

\* A creation and a deletion on the server, and the rest of what it does.
LEMMA TypesCreated ==
  ASSUME Types, NEW c \in creations, create_exercise(c)
  PROVE  Types'
  <1>1. PICK x, r :
           /\ x \in Unborn
           /\ x \in Exercises
           /\ library' = [library EXCEPT ![x] = "live"]
           /\ r \in CreateT
           /\ r.doc = c.doc /\ r.ex = x
           /\ creations' = (creations \ {c}) \cup {r}
           /\ Stored(With(c, x))
           /\ overtaken' = overtaken \cup
                (IF c.page \in Editors THEN Missed(at[c.page], Refs(c.doc.pages)) ELSE {})
           /\ UNCHANGED <<browser, saves, deletions, acts, faults, removed>>
    BY CreateIs
  <1>2. /\ With(c, x) \in [Lessons -> Docs]
        /\ \A l \in Lessons : \/ With(c, x)[l] = saved[l]
                              \/ With(c, x)[l].pages = with_exercise_block(c.doc, x).pages
    BY <1>1, WithRows
  <1>3. c.doc \in Docs /\ InPosition(c.doc.pages)
    BY DEF Types, TypeOK, RequestT
  <1>4. InPosition(with_exercise_block(c.doc, x).pages)
    <2>1. x \in Exercises
      BY <1>1
    <2> DEFINE e == with_exercise_block(c.doc, x)
    <2>2. e = with_exercise_block(c.doc, x)
      OBVIOUS
    <2> HIDE DEF e
    <2>3. InPosition(e.pages)
      BY <2>1, <2>2, <1>3, WithIs
    <2> QED
      BY <2>2, <2>3
  <1>5. \A l \in Lessons : InPosition(With(c, x)[l].pages)
    BY <1>2, <1>4 DEF Types
  <1>6. saved' = With(c, x) /\ last' \in [Lessons -> (Pages \X Nat) \cup {None}]
    BY <1>1, <1>2, StoredTypes
  <1>7. library' \in [Exercises -> {"unborn", "live", "deleted"}]
    BY <1>1 DEF Types, TypeOK
  <1>8. overtaken' \subseteq Lessons \X Exercises
    <2>1. c.page \in Editors => at[c.page] \in Lessons
      BY PageHeld DEF Types, TypeOK
    <2> QED
      BY <1>1, <2>1, MissedIs DEF Types, TypeOK
  <1>9. creations' \subseteq CreateT
    BY <1>1 DEF Types, TypeOK, CreateT
  <1>10. \A d \in creations' : /\ InPosition(d.doc.pages)
                               /\ d.st = "created" => d.ex \in Exercises
    BY <1>1, <1>3 DEF Types
  <1> QED
    BY <1>1, <1>2, <1>5, <1>6, <1>7, <1>8, <1>9, <1>10 DEF Types, TypeOK, browser, CreateT

LEMMA TypesDeleting ==
  ASSUME Types, NEW r \in deletions, delete_exercise(r)
  PROVE  Types'
  <1>1. \A l \in Lessons : saved[l] \in Docs /\ InPosition(saved[l].pages)
    BY DEF Types, TypeOK
  <1>2. /\ Cleared(r) \in [Lessons -> Docs]
        /\ \A l \in Lessons : \/ Cleared(r)[l] = content_without_block(saved[l], r.ex)
                              \/ Cleared(r)[l] = saved[l]
    BY ClearedRows
  <1>3. \A l \in Lessons : InPosition(content_without_block(saved[l], r.ex).pages)
    BY <1>1, WithoutIs
  <1>4. \A l \in Lessons : InPosition(Cleared(r)[l].pages)
    BY <1>1, <1>2, <1>3
  <1>5. saved' = Cleared(r) /\ last' \in [Lessons -> (Pages \X Nat) \cup {None}]
    BY <1>2, StoredTypes DEF delete_exercise
  <1>6. r.ex \in Exercises /\ [r EXCEPT !.st = "done"] \in DeleteT
    BY DEF Types, TypeOK, DeleteT, RequestT
  <1>7. library' \in [Exercises -> {"unborn", "live", "deleted"}] /\ deletions' \subseteq DeleteT
    BY <1>6 DEF delete_exercise, Types, TypeOK, DeleteT
  <1>8. Pending(r.ex) \subseteq Lessons \X Exercises
    <2>1. \A s \in saves : s.lesson \in Lessons
      BY DEF Types, TypeOK, SaveT
    <2>2. \A c \in creations : at[c.page] \in Lessons
      BY DEF Types, TypeOK, RequestT
    <2> QED
      BY <1>6, <2>1, <2>2 DEF Pending
  <1>9. /\ overtaken' = overtaken \cup Pending(r.ex)
        /\ UNCHANGED <<browser, saves, creations, acts, faults, removed>>
    BY DEF delete_exercise
  <1> QED
    BY <1>2, <1>4, <1>5, <1>7, <1>8, <1>9 DEF Types, TypeOK, browser, DeleteT

\* The lessons are found, or the exercise is not.
LEMMA FoundIs ==
  ASSUME Types, NEW r \in deletions, lessons_holding(r)
  PROVE  \E q \in DeleteT :
           /\ q.ex = r.ex
           /\ \/ q.st = "failed"
              \/ r.ex \in Live /\ q.lessons = {l \in Lessons : r.ex \in Refs(saved[l].pages)}
           /\ deletions' = (deletions \ {r}) \cup {q}
           /\ UNCHANGED <<server, browser, saves, creations, acts, faults, removed>>
  <1> DEFINE H == {l \in Lessons : r.ex \in Refs(saved[l].pages)}
             f == [r EXCEPT !.st = "found", !.lessons = H]
             g == [r EXCEPT !.st = "failed"]
             q == IF r.ex \in Live THEN f ELSE g
  <1>1. /\ deletions' = (deletions \ {r}) \cup {q} /\ r \in DeleteT
        /\ UNCHANGED <<server, browser, saves, creations, acts, faults, removed>>
    BY DEF lessons_holding, Types, TypeOK, DeleteT
  <1>2. H \in SUBSET Lessons /\ H = {l \in Lessons : r.ex \in Refs(saved[l].pages)}
    OBVIOUS
  <1> HIDE DEF H
  <1>3. f \in DeleteT /\ f.ex = r.ex /\ f.lessons = H
    BY <1>1, <1>2 DEF DeleteT, RequestT
  <1>4. g \in DeleteT /\ g.ex = r.ex /\ g.st = "failed"
    BY <1>1 DEF DeleteT, RequestT
  <1>5. (q = f /\ r.ex \in Live) \/ q = g
    OBVIOUS
  <1> HIDE DEF f, g, q
  <1> QED
    BY <1>1, <1>2, <1>3, <1>4, <1>5

LEMMA TypesServer ==
  ASSUME Types, (\E r \in deletions : lessons_holding(r) \/ DeleteLost(r)) \/ LibraryDelete
                \/ \E c \in creations : CreateLost(c)
  PROVE  Types'
  <1>1. ASSUME NEW r \in deletions, lessons_holding(r) PROVE Types'
    <2>1. PICK q \in DeleteT :
            /\ deletions' = (deletions \ {r}) \cup {q}
            /\ UNCHANGED <<server, browser, saves, creations, acts, faults, removed>>
      BY <1>1, FoundIs
    <2> QED
      BY <2>1 DEF Types, TypeOK, server, browser, DeleteT
  <1>2. ASSUME NEW r \in deletions PROVE [r EXCEPT !.st = "failed"] \in DeleteT
    <2>1. r \in DeleteT
      BY DEF Types, TypeOK, DeleteT
    <2> QED
      BY <2>1 DEF DeleteT, RequestT
  <1>3. ASSUME NEW r \in deletions, DeleteLost(r) PROVE Types'
    <2>1. deletions' \subseteq DeleteT
      BY <1>2, <1>3 DEF DeleteLost, Types, TypeOK, DeleteT
    <2>2. faults' \in 0 .. MaxFaults
      BY <1>3, BoundsAssumption DEF DeleteLost, Types, TypeOK
    <2> QED
      BY <1>3, <2>1, <2>2 DEF DeleteLost, Types, TypeOK, server, browser, DeleteT
  <1>4. CASE LibraryDelete
    <2>1. PICK x \in Live :
            deletions' = deletions
              \cup {Request("delete", Catalogue, New, <<"block", New>>, x, 0, NoDoc)}
      BY <1>4 DEF LibraryDelete
    <2> DEFINE r == Request("delete", Catalogue, New, <<"block", New>>, x, 0, NoDoc)
    <2>2. New \in Nat
      BY BoundsAssumption DEF New, Types, TypeOK
    <2>3. <<"block", New>> \in BlockIds /\ x \in Exercises
      BY <2>2 DEF BlockIds, Live
    <2>4. r \in DeleteT
      BY <2>2, <2>3, NoDocIs DEF Request, DeleteT, RequestT
    <2> HIDE DEF r
    <2>5. deletions' = deletions \cup {r}
      BY <2>1 DEF r
    <2>6. /\ UNCHANGED <<server, browser, saves, creations, faults, removed>>
          /\ acts' \in 0 .. MaxActs
      BY <1>4, ActsGrow DEF LibraryDelete
    <2> QED
      BY <2>4, <2>5, <2>6 DEF Types, TypeOK, server, browser, DeleteT
  <1>5. ASSUME NEW c \in creations, CreateLost(c) PROVE Types'
    <2>1. faults' \in 0 .. MaxFaults
      BY <1>5, BoundsAssumption DEF CreateLost, Types, TypeOK
    <2> QED
      BY <1>5, <2>1 DEF CreateLost, Types, TypeOK, server, browser
  <1> QED
    BY <1>1, <1>3, <1>4, <1>5

-----------------------------------------------------------------------------
(* The documents are sound, action by action.                                  *)

\* What is sound stays so when more has been made.
Later == acts' \in Nat /\ acts <= acts' /\ Born \subseteq Born' /\ Born' \in SUBSET Exercises

\* More has been made: what was sound is.
LEMMA SoundLater ==
  ASSUME Types, SoundDocs, Later
  PROVE  SoundAt(acts', Born')
  <1>1. acts \in Nat
    BY BoundsAssumption DEF Types, TypeOK
  <1> DEFINE B == Born
             C == Born'
             m == acts'
  <1>2. B \subseteq C /\ m \in Nat /\ acts <= m /\ SoundAt(acts, B)
    BY DEF Later, SoundDocs
  <1> HIDE DEF B, C, m
  <1>3. \A ps : SoundPages(ps, acts, B) => SoundPages(ps, m, C)
    BY <1>1, <1>2, SoundMono
  <1>4. SoundAt(m, C)
    BY <1>2, <1>3 DEF SoundAt
  <1> QED
    BY <1>4 DEF C, m

LEMMA SameBorn ==
  ASSUME UNCHANGED library
  PROVE  Born' = Born
  BY DEF Born

\* More has been made when a teacher acted, or nothing.
LEMMA LaterIs ==
  ASSUME Types, UNCHANGED library, acts' = acts \/ acts' = acts + 1
  PROVE  Later /\ acts \in Nat
  <1>1. acts \in Nat
    BY BoundsAssumption DEF Types, TypeOK
  <1> QED
    BY <1>1 DEF Later, Born

\* A page without a document names nothing.
LEMMA NoDocSound ==
  ASSUME NEW n, NEW B
  PROVE  SoundPages(NoDoc.pages, n, B) /\ Refs(NoDoc.pages) = {}
  BY NoDocIs DEF SoundPages, Refs

\* A creation under way stays as it should be.
LEMMA CreationStays ==
  ASSUME NEW c, CreationAt(c), Later, acts \in Nat,
         c.page \in Editors =>
           /\ phase'[c.page] \in {"editing", "left"}
           /\ c.st = "created" => c.ex \notin Refs(doc'[c.page].pages)
  PROVE  CreationAt(c)'
  <1>1. 0 .. acts \subseteq 0 .. acts'
    BY DEF Later
  <1>2. c.block \in {"block"} \X (0 .. acts) => c.block \in {"block"} \X (0 .. acts')
    BY <1>1
  <1>3. c.ex \in Born => c.ex \in Born'
    BY DEF Later
  <1> QED
    BY <1>2, <1>3 DEF CreationAt

\* No creation, and no document of an editor with one, changes.
LEMMA CreationsStay ==
  ASSUME SoundCreations, Later, acts \in Nat, creations' \subseteq creations,
         \A c \in creations : c.page \in Editors =>
           /\ phase'[c.page] \in {"editing", "left"}
           /\ Refs(doc'[c.page].pages) \subseteq Refs(doc[c.page].pages)
  PROVE  SoundCreations'
  <1>1. ASSUME NEW c \in creations' PROVE CreationAt(c)'
    <2>1. CreationAt(c) /\ c \in creations
      BY DEF SoundCreations
    <2>2. c.page \in Editors =>
           /\ phase'[c.page] \in {"editing", "left"}
           /\ c.st = "created" => c.ex \notin Refs(doc'[c.page].pages)
      BY <2>1 DEF CreationAt
    <2> QED
      BY <2>1, <2>2, CreationStays
  <1> QED
    BY <1>1 DEF SoundCreations

\* The stored lessons to begin with name what is there to begin with.
LEMMA SoundInit ==
  Init => SoundDocs /\ SoundCreations
  <1> SUFFICES ASSUME Init PROVE SoundDocs /\ SoundCreations
    OBVIOUS
  <1>1. Born = FirstLibrary /\ acts = 0
    BY LibraryAssumption DEF Init, Born
  <1>2. ASSUME NEW l \in Lessons PROVE SoundPages(saved[l].pages, acts, Born)
    <2>1. /\ saved[l].pages \in Seq(PageT) /\ ShownOnce(saved[l].pages)
          /\ Refs(saved[l].pages) \subseteq FirstLibrary
          /\ \A b \in Blocks(saved[l].pages) : b.id[1] = "stored"
      BY StoredAssumption DEF Init, Docs
    <2>2. ASSUME NEW b \in Blocks(saved[l].pages) PROVE GoodBlock(b, acts, Born)
      <3>1. b.id \in BlockIds
        BY <2>1, IdsAre DEF Ids
      <3>2. b.id \in {"stored"} \X Nat
        BY <2>1, <3>1 DEF BlockIds
      <3>3. b.kind = "exercise" /\ b.ref # Unset => b.ref \in FirstLibrary
        BY <2>1 DEF Refs
      <3> QED
        BY <1>1, <3>2, <3>3 DEF GoodBlock
    <2> QED
      BY <2>1, <2>2 DEF SoundPages
  <1>3. \A p \in Pages : SoundPages(doc[p].pages, acts, Born)
    BY NoDocSound DEF Init
  <1>4. /\ timers = {} /\ saves = {} /\ creations = {}
        /\ \A e \in Editors : load[e].lesson = <<>> /\ load[e].list = <<>>
    BY DEF Init
  <1> QED
    BY <1>2, <1>3, <1>4 DEF SoundDocs, SoundAt, SoundCreations

\* A document an editor made up.
LEMMA SoundMadeUp ==
  ASSUME Types, SoundAt(acts', Born'), NEW e \in Editors, NEW d \in Docs,
         SoundPages(d.pages, acts', Born'), doc' = [doc EXCEPT ![e] = d], triggerSave(e, d)
  PROVE  /\ \A p \in Pages : SoundPages(doc'[p].pages, acts', Born')
         /\ \A t \in timers' : SoundPages(t.doc.pages, acts', Born')
         /\ \A p \in Pages : p # e => doc'[p] = doc[p]
         /\ doc'[e] = d
  <1>1. \A p \in Pages : doc'[p] = IF p = e THEN d ELSE doc[p]
    BY DEF Types, TypeOK, Pages
  <1>2. \A t \in timers' : t \in timers \/ t.doc = d
    BY DEF triggerSave
  <1>3. e \in Pages
    BY DEF Pages
  <1> QED
    BY <1>1, <1>2, <1>3 DEF SoundAt

\* An edit of the document.
LEMMA SoundTyping ==
  ASSUME Types, SoundDocs, SoundCreations, NEW e \in Editors, Typing(e)
  PROVE  SoundDocs' /\ SoundCreations'
  <1>1. PICK ti, qs, gone : ti \in Int /\ Edit(e, ti, qs, gone) /\ Op(e, qs, gone)
    BY TypingIs
  <1>2. PICK d \in Docs :
           /\ d.pages = qs
           /\ acts < MaxActs /\ acts' = acts + 1
           /\ doc' = [doc EXCEPT ![e] = d]
           /\ triggerSave(e, d)
           /\ UNCHANGED <<server, requests, faults, phase, at, load, newest>>
    BY <1>1, EditIs
  <1>3. Later /\ Born' = Born /\ Born \in SUBSET Exercises
    BY <1>2, LaterIs, SameBorn DEF server, Born
  <1>4. SoundAt(acts', Born')
    BY <1>3, SoundLater
  <1>5. SoundPages(Ps(e), acts, Born)
    BY PageHeld DEF SoundDocs, SoundAt, Ps
  <1>6. SoundPages(qs, acts', Born') /\ Refs(qs) \subseteq Refs(Ps(e))
    BY <1>1, <1>2, <1>3, <1>5 DEF Op
  <1>7. /\ \A p \in Pages : SoundPages(doc'[p].pages, acts', Born')
        /\ \A t \in timers' : SoundPages(t.doc.pages, acts', Born')
        /\ \A p \in Pages : p # e => doc'[p] = doc[p]
        /\ doc'[e] = d
    BY <1>2, <1>4, <1>6, SoundMadeUp
  <1>8. SoundDocs'
    BY <1>2, <1>4, <1>7 DEF SoundDocs, SoundAt, server, requests
  <1>9. \A p \in Pages : Refs(doc'[p].pages) \subseteq Refs(doc[p].pages)
    BY <1>2, <1>6, <1>7 DEF Ps
  <1>10. SoundCreations'
    <2>1. \A c \in creations : c.page \in Editors => phase'[c.page] \in {"editing", "left"}
      BY <1>2 DEF SoundCreations, CreationAt
    <2> QED
      BY <1>2, <1>3, <1>9, <2>1, PageHeld, CreationsStay DEF requests, Pages
  <1> QED
    BY <1>8, <1>10

\* The editor of a creation has its document already.
LEMMA NotLoading ==
  ASSUME SoundCreations, NEW e \in Editors, phase[e] \in {"unopened", "loading"}
  PROVE  \A c \in creations : c.page # e
  BY DEF SoundCreations, CreationAt

\* The pages an editor opens with: those stored, and the exercises no block shows.
LEMMA AdoptSound ==
  ASSUME NEW lesson \in Docs, InPosition(lesson.pages), NEW list \in Seq(Exercises),
         Distinct(list), NEW n \in Nat, NEW B \in SUBSET Exercises, Range(list) \subseteq B,
         SoundPages(lesson.pages, n, B),
         NEW qs, qs = adoptDetachedExercises(extractPages(lesson), list)
  PROVE  SoundPages(qs, n, B)
  <1> DEFINE ps == extractPages(lesson)
  <1>0. qs = adoptDetachedExercises(ps, list)
    OBVIOUS
  <1>1. /\ ps \in Seq(PageT) /\ ps # <<>> /\ Blocks(ps) = Blocks(lesson.pages)
        /\ ShownOnce(ps)
    BY ExtractIs DEF SoundPages
  <1> HIDE DEF ps
  <1>2. SoundPages(ps, n, B)
    BY <1>1 DEF SoundPages
  <1>3. PICK new \in SUBSET BlockT :
           /\ Blocks(qs) = Blocks(ps) \cup new
           /\ \A b \in new : /\ b.kind = "exercise" /\ b.ref \in Range(list) \ Refs(ps)
                             /\ b.id = <<"adopted", b.ref>>
           /\ ShownOnce(ps) /\ Distinct(list) /\ (\A b \in new : b.id \notin Ids(ps))
                => ShownOnce(qs)
    BY <1>0, <1>1, AdoptIs
  <1>4. ASSUME NEW b \in new PROVE b.id \notin Ids(ps) /\ GoodBlock(b, n, B)
    <2>1. b.kind = "exercise" /\ b.ref \in B /\ b.ref \notin Refs(ps) /\ b.id = <<"adopted", b.ref>>
      BY <1>3
    <2>2. b.ref # Unset
      BY <2>1, LibraryAssumption
    <2>3. b.id \notin Ids(ps)
      BY <2>1, <2>2, <1>2, SoundIds
    <2>4. b.id \in {"server", "adopted"} \X B /\ b.ref = b.id[2]
      BY <2>1
    <2> QED
      BY <2>1, <2>3, <2>4 DEF GoodBlock
  <1> QED
    BY <1>1, <1>2, <1>3, <1>4 DEF SoundPages

\* A step that opens an editor.
LEMMA SoundOpened ==
  ASSUME SoundAt(acts', Born'), UNCHANGED <<server, requests>>,
         \A p \in Pages : SoundPages(doc'[p].pages, acts', Born'),
         \A t \in timers' : SoundPages(t.doc.pages, acts', Born'),
         \A e \in Editors :
           /\ \A i \in DOMAIN load'[e].lesson : SoundPages(load'[e].lesson[i].pages, acts', Born')
           /\ \A i \in DOMAIN load'[e].list :
                Distinct(load'[e].list[i]) /\ Range(load'[e].list[i]) \subseteq Born'
  PROVE  SoundDocs'
  BY DEF SoundDocs, SoundAt, server, requests

\* The opening, with the adoption of the exercises no block shows.
LEMMA SoundOpening ==
  ASSUME Types, SoundDocs, SoundCreations, NEW e \in Editors, Opening(e)
  PROVE  SoundDocs' /\ SoundCreations'
  <1>1. /\ UNCHANGED <<server, requests, acts>> /\ phase[e] \in {"unopened", "loading"}
        /\ phase' = phase \/ \E ph : phase' = [phase EXCEPT ![e] = ph]
        /\ doc' = doc \/ \E d : doc' = [doc EXCEPT ![e] = d]
    BY DEF Opening, Open, GetLesson, GetExercises, Loaded, LoadFails
  <1>2. Later /\ Born' = Born /\ acts' = acts /\ acts \in Nat
    BY <1>1, LaterIs, SameBorn, PageHeld DEF server
  <1>3. SoundAt(acts', Born')
    BY <1>2, SoundLater
  <1>4. e \in Pages /\ at[e] \in Lessons /\ Editors \subseteq Pages
    BY DEF Types, TypeOK, Pages
  <1>5. SoundCreations'
    <2>1. ASSUME NEW c \in creations, c.page \in Editors
          PROVE  phase'[c.page] = phase[c.page] /\ doc'[c.page] = doc[c.page]
      <3>1. c.page # e
        BY <1>1, NotLoading
      <3>2. c.page \in Pages
        BY <2>1, <1>4
      <3> QED
        BY <3>1, <3>2, <1>1 DEF Types, TypeOK
    <2>2. ASSUME NEW c \in creations, c.page \in Editors
          PROVE  phase'[c.page] \in {"editing", "left"}
      BY <2>1, <2>2 DEF SoundCreations, CreationAt
    <2> QED
      BY <1>1, <1>2, <2>1, <2>2, CreationsStay DEF requests
  <1> SUFFICES SoundDocs'
    BY <1>5
  <1> DEFINE Fine(r) ==
        /\ \A i \in DOMAIN r.lesson : SoundPages(r.lesson[i].pages, acts', Born')
        /\ \A i \in DOMAIN r.list : Distinct(r.list[i]) /\ Range(r.list[i]) \subseteq Born'
  <1>13. /\ \A p \in Pages : SoundPages(doc[p].pages, acts', Born')
         /\ \A t \in timers : SoundPages(t.doc.pages, acts', Born')
         /\ \A f \in Editors : Fine(load[f])
    BY <1>3 DEF SoundAt
  <1>14. ASSUME \A p \in Pages : SoundPages(doc'[p].pages, acts', Born'),
                \A t \in timers' : SoundPages(t.doc.pages, acts', Born'),
                \A f \in Editors : Fine(load'[f])
         PROVE  SoundDocs'
    BY <1>1, <1>3, <1>14, SoundOpened
  <1>6. CASE Open(e)
    <2>1. UNCHANGED <<doc, timers, load>>
      BY <1>6 DEF Open
    <2> QED
      BY <2>1, <1>13, <1>14
  <1>7. CASE GetLesson(e)
    <2> DEFINE one == <<saved[at[e]]>>
    <2>1. load' = [load EXCEPT ![e].lesson = one] /\ UNCHANGED <<doc, timers>>
      BY <1>7 DEF GetLesson
    <2>2. \A i \in DOMAIN one : SoundPages(one[i].pages, acts', Born')
      BY <1>3, <1>4 DEF SoundAt
    <2> HIDE DEF one
    <2>3. \A f \in Editors : /\ load'[f].list = load[f].list
                             /\ load'[f].lesson = IF f = e THEN one ELSE load[f].lesson
      BY <2>1 DEF Types, TypeOK
    <2>4. \A f \in Editors : Fine(load'[f])
      BY <1>13, <2>2, <2>3
    <2> QED
      BY <1>13, <1>14, <2>1, <2>4
  <1>8. CASE GetExercises(e)
    <2> DEFINE list == get_exercises_by_lesson(at[e])
               one == <<list>>
    <2>1. load' = [load EXCEPT ![e].list = one] /\ UNCHANGED <<doc, timers>>
      BY <1>8 DEF GetExercises
    <2>2. Distinct(list) /\ Range(list) \subseteq Live
      BY <1>4, ListIs DEF Types, TypeOK
    <2>3. Live \subseteq Born'
      BY <1>2 DEF Live, Born
    <2> HIDE DEF list
    <2>4. \A i \in DOMAIN one : Distinct(one[i]) /\ Range(one[i]) \subseteq Born'
      BY <2>2, <2>3
    <2> HIDE DEF one
    <2>5. \A f \in Editors : /\ load'[f].lesson = load[f].lesson
                             /\ load'[f].list = IF f = e THEN one ELSE load[f].list
      BY <2>1 DEF Types, TypeOK
    <2>6. \A f \in Editors : Fine(load'[f])
      BY <1>13, <2>4, <2>5
    <2> QED
      BY <1>13, <1>14, <2>1, <2>6
  <1>9. ASSUME load' = [load EXCEPT ![e] = [lesson |-> <<>>, list |-> <<>>]]
        PROVE  \A f \in Editors : Fine(load'[f])
    <2>1. \A f \in Editors : \/ load'[f] = load[f]
                             \/ load'[f].lesson = <<>> /\ load'[f].list = <<>>
      BY <1>9 DEF Types, TypeOK
    <2> QED
      BY <2>1, <1>13
  <1>10. CASE Loaded(e) /\ at[e] \in Legacy
    <2>1. UNCHANGED <<doc, timers>> /\ load' = [load EXCEPT ![e] = [lesson |-> <<>>, list |-> <<>>]]
      BY <1>10 DEF Loaded
    <2> QED
      BY <1>13, <1>14, <1>9, <2>1
  <1>11. CASE Loaded(e) /\ at[e] \notin Legacy
    <2> DEFINE lesson == load[e].lesson[1]
               list == load[e].list[1]
               qs == adoptDetachedExercises(extractPages(lesson), list)
               d == [lesson EXCEPT !.pages = qs]
    <2>1. load[e].lesson # <<>> /\ load[e].list # <<>>
      BY <1>11 DEF Loaded
    <2>2. /\ lesson \in Docs /\ list \in Seq(Exercises) /\ InPosition(lesson.pages)
          /\ 1 \in DOMAIN load[e].lesson /\ 1 \in DOMAIN load[e].list
      BY <2>1 DEF Types, TypeOK
    <2>3. /\ SoundPages(lesson.pages, acts', Born')
          /\ Distinct(list) /\ Range(list) \subseteq Born'
      BY <2>2, <1>3 DEF SoundAt
    <2>4. /\ doc' = [doc EXCEPT ![e] = d] /\ triggerSave(e, d)
          /\ load' = [load EXCEPT ![e] = [lesson |-> <<>>, list |-> <<>>]]
      BY <1>11 DEF Loaded
    <2>5. qs = adoptDetachedExercises(extractPages(lesson), list)
      OBVIOUS
    <2> HIDE DEF lesson, list
    <2>6. qs \in Seq(PageT)
      BY <2>2, ExtractIs, AdoptIs
    <2> HIDE DEF qs
    <2> DEFINE n == acts'
               B == Born'
    <2>11. n \in Nat /\ B \in SUBSET Exercises /\ Range(list) \subseteq B /\ SoundPages(lesson.pages, n, B)
      BY <1>2, <2>3 DEF Later
    <2> HIDE DEF n, B
    <2>7. SoundPages(qs, n, B)
      BY <2>2, <2>3, <2>5, <2>11, AdoptSound
    <2>8. d \in Docs /\ d.pages = qs
      BY <2>2, <2>6, PagesOf
    <2> HIDE DEF d
    <2>12. SoundPages(d.pages, acts', Born')
      BY <2>7, <2>8 DEF n, B
    <2>9. /\ \A p \in Pages : SoundPages(doc'[p].pages, acts', Born')
          /\ \A t \in timers' : SoundPages(t.doc.pages, acts', Born')
      BY <1>3, <2>4, <2>8, <2>12, SoundMadeUp
    <2> QED
      BY <1>14, <1>9, <2>4, <2>9
  <1>12. CASE LoadFails(e)
    <2> DEFINE d == [NoDoc EXCEPT !.pages = singlePage]
    <2>1. singlePage \in Seq(PageT) /\ Blocks(singlePage) = {} /\ ShownOnce(singlePage)
      BY BlankPages DEF singlePage
    <2>2. d.pages = singlePage
      BY <2>1, NoDocIs, PagesOf
    <2>3. SoundPages(d.pages, acts', Born')
      BY <2>1, <2>2 DEF SoundPages
    <2>4. /\ doc' = [doc EXCEPT ![e] = d] /\ UNCHANGED timers
          /\ load' = [load EXCEPT ![e] = [lesson |-> <<>>, list |-> <<>>]]
      BY <1>12 DEF LoadFails
    <2> HIDE DEF d
    <2>5. \A p \in Pages : SoundPages(doc'[p].pages, acts', Born')
      BY <1>3, <2>3, <2>4, <1>4 DEF SoundAt, Types, TypeOK
    <2> QED
      BY <1>13, <1>14, <1>9, <2>4, <2>5
  <1> QED
    BY <1>6, <1>7, <1>8, <1>10, <1>11, <1>12 DEF Opening

\* The editor's requests, and its end.
LEMMA SoundDelete ==
  ASSUME Types, SoundDocs, SoundCreations, acts' = acts + 1,
         UNCHANGED <<server, browser, saves, creations>>
  PROVE  SoundDocs' /\ SoundCreations'
  <1>1. Later /\ Born' = Born /\ acts \in Nat
    BY LaterIs, SameBorn DEF server
  <1>2. SoundAt(acts', Born')
    BY <1>1, SoundLater
  <1>3. SoundDocs'
    BY <1>2 DEF SoundDocs, SoundAt, server, browser
  <1>4. \A c \in creations : c.page \in Editors => phase'[c.page] \in {"editing", "left"}
    BY DEF SoundCreations, CreationAt, browser
  <1>5. SoundCreations'
    BY <1>1, <1>4, CreationsStay DEF browser
  <1> QED
    BY <1>3, <1>5

\* One creation more, of which nothing has been created yet.
LEMMA CreationsMore ==
  ASSUME Types, SoundCreations, Later, NEW r, creations' = creations \cup {r}, CreationAt(r)',
         r.st # "created", UNCHANGED <<phase, doc>>
  PROVE  SoundCreations'
  <1>1. acts \in Nat
    BY BoundsAssumption DEF Types, TypeOK
  <1>2. ASSUME NEW c \in creations PROVE CreationAt(c)'
    <2>1. CreationAt(c)
      BY DEF SoundCreations
    <2>2. c.page \in Editors =>
           /\ phase'[c.page] \in {"editing", "left"}
           /\ c.st = "created" => c.ex \notin Refs(doc'[c.page].pages)
      BY <2>1 DEF CreationAt
    <2> QED
      BY <1>1, <2>1, <2>2, CreationStays
  <1> QED
    BY <1>2 DEF SoundCreations

LEMMA SoundCreate ==
  ASSUME Types, SoundDocs, SoundCreations, NEW e \in Editors, createAndAttachExercise(e)
  PROVE  SoundDocs' /\ SoundCreations'
  <1>1. PICK b \in {c \in Blocks(Ps(e)) : c.kind = "exercise" /\ c.ref = Unset} :
          creations' = creations \cup {Request("create", e, New, b.id, Unset, 0, NoDoc)}
    BY DEF createAndAttachExercise
  <1>2. PICK r : /\ r.page = e /\ r.block = b.id /\ r.doc = NoDoc /\ r.st = "sent"
                 /\ creations' = creations \cup {r}
    BY <1>1 DEF Request
  <1>4. /\ UNCHANGED <<server, browser, saves, deletions, faults, removed>>
        /\ acts' = acts + 1 /\ phase[e] = "editing"
    BY DEF createAndAttachExercise
  <1>5. Later /\ Born' = Born
    BY <1>4, LaterIs, SameBorn DEF server
  <1>6. SoundAt(acts', Born')
    BY <1>5, SoundLater
  <1>7. SoundDocs'
    BY <1>2, <1>4, <1>6, NoDocSound DEF SoundDocs, SoundAt, server, browser
  <1>8. GoodBlock(b, acts, Born) /\ b.kind = "exercise" /\ b.ref = Unset
    BY <1>1, PageHeld DEF SoundDocs, SoundAt, SoundPages, Ps
  <1>9. Unset \notin Born
    BY LibraryAssumption DEF Born
  <1>10. b.id[1] \in {"stored", "block"}
    BY <1>8, <1>9 DEF GoodBlock
  <1>11. CreationAt(r)'
    BY <1>2, <1>4, <1>10, PagesAssumption DEF CreationAt, browser
  <1>12. SoundCreations'
    BY <1>2, <1>4, <1>5, <1>11, CreationsMore DEF browser
  <1> QED
    BY <1>7, <1>12

LEMMA SoundLeave ==
  ASSUME Types, SoundDocs, SoundCreations, NEW e \in Editors, Leave(e)
  PROVE  SoundDocs' /\ SoundCreations'
  <1>1. /\ phase' = [phase EXCEPT ![e] = "left"]
        /\ doc' = [doc EXCEPT ![e] = NoDoc]
        /\ timers' \subseteq timers
        /\ UNCHANGED <<server, requests, acts, load>>
    BY DEF Leave
  <1>2. Later /\ acts \in Nat
    BY <1>1, LaterIs, PageHeld DEF server
  <1>3. SoundAt(acts', Born')
    BY <1>2, SoundLater
  <1>4. \A p \in Pages : doc'[p] = IF p = e THEN NoDoc ELSE doc[p]
    BY <1>1 DEF Types, TypeOK
  <1>5. \A p \in Pages : SoundPages(doc'[p].pages, acts', Born')
    BY <1>3, <1>4, NoDocSound DEF SoundAt
  <1>6. SoundDocs'
    BY <1>1, <1>3, <1>5 DEF SoundDocs, SoundAt, server, requests
  <1>7. \A p \in Editors : /\ Refs(doc'[p].pages) \subseteq Refs(doc[p].pages)
                           /\ phase'[p] = IF p = e THEN "left" ELSE phase[p]
    BY <1>1, <1>4, NoDocSound DEF Types, TypeOK, Pages
  <1>8. \A c \in creations : c.page \in Editors => phase'[c.page] \in {"editing", "left"}
    BY <1>7 DEF SoundCreations, CreationAt
  <1>9. SoundCreations'
    BY <1>1, <1>2, <1>7, <1>8, CreationsStay DEF requests
  <1> QED
    BY <1>6, <1>9

\* The answers: a block goes, or names the exercise that was created for it.
LEMMA SoundDeleteAnswered ==
  ASSUME Types, SoundDocs, SoundCreations, NEW r \in deletions, DeleteAnswered(r)
  PROVE  SoundDocs' /\ SoundCreations'
  <1> DEFINE e == r.page
  <1>1. /\ r.block \in BlockIds
        /\ UNCHANGED <<server, saves, creations, acts, phase, load>>
    BY DEF Types, TypeOK, RequestT, DeleteAnswered
  <1>2. Later /\ acts \in Nat /\ acts' = acts /\ Born' = Born /\ Born \in SUBSET Exercises
    BY <1>1, LaterIs, SameBorn DEF server, Born
  <1>3. SoundAt(acts', Born')
    BY <1>2, SoundLater
  <1>4. \A c \in creations : c.page \in Editors => phase'[c.page] \in {"editing", "left"}
    BY <1>1 DEF SoundCreations, CreationAt
  <1>5. CASE e \in Editors /\ phase[e] = "editing"
    <2>1. PICK d \in Docs :
            /\ [doc[e] EXCEPT !.pages = DropBlock(@, r.block)] = d
            /\ d.pages = DropBlock(Ps(e), r.block)
      BY <1>1, <1>5, DropIs
    <2>2. doc' = [doc EXCEPT ![e] = d] /\ triggerSave(e, d)
      BY <1>5, <2>1 DEF DeleteAnswered
    <2>3. Edited(Ps(e), d.pages, {r.block}, {})
      BY <2>1, <1>1, <1>5, PageHeld, OpDrop
    <2>4. SoundPages(Ps(e), acts, Born)
      BY <1>1, <1>5, PageHeld DEF SoundDocs, SoundAt, Ps
    <2>5. SoundPages(d.pages, acts, Born) /\ Refs(d.pages) \subseteq Refs(Ps(e))
      <3>1. Covers(Ps(e), d.pages) /\ ShownOnce(d.pages)
        BY <2>3, <2>4 DEF Edited, SoundPages, Covers
      <3> QED
        BY <3>1, <2>4, CoversFacts, GoodSame DEF SoundPages, Covers
    <2>6. /\ \A p \in Pages : SoundPages(doc'[p].pages, acts', Born')
          /\ \A t \in timers' : SoundPages(t.doc.pages, acts', Born')
          /\ \A p \in Pages : p # e => doc'[p] = doc[p]
          /\ doc'[e] = d
      BY <1>1, <1>2, <1>3, <1>5, <2>2, <2>5, SoundMadeUp
    <2>7. SoundDocs'
      BY <1>1, <1>3, <2>6 DEF SoundDocs, SoundAt, server
    <2>8. \A p \in Editors : Refs(doc'[p].pages) \subseteq Refs(doc[p].pages)
      BY <2>5, <2>6 DEF Ps, Pages
    <2>9. SoundCreations'
      BY <1>1, <1>2, <1>4, <2>8, CreationsStay
    <2> QED
      BY <2>7, <2>9
  <1>6. CASE ~(e \in Editors /\ phase[e] = "editing")
    <2>1. UNCHANGED <<doc, timers>>
      BY <1>6 DEF DeleteAnswered
    <2>2. SoundDocs'
      BY <1>1, <1>3, <2>1 DEF SoundDocs, SoundAt, server
    <2>3. SoundCreations'
      BY <1>1, <1>2, <1>4, <2>1, CreationsStay
    <2> QED
      BY <2>2, <2>3
  <1> QED
    BY <1>5, <1>6

LEMMA SoundAttach ==
  ASSUME Types, SoundDocs, SoundCreations, NEW c \in creations, Attach(c)
  PROVE  SoundDocs' /\ SoundCreations'
  <1> DEFINE e == c.page
  <1>1. /\ e \in Editors /\ c.ex \in Exercises /\ c.block \in BlockIds /\ c.st = "created"
        /\ creations' = creations \ {c}
        /\ UNCHANGED <<server, saves, acts, phase, load>>
    BY DEF Types, TypeOK, RequestT, Attach
  <1>2. Later /\ acts \in Nat /\ acts' = acts /\ Born' = Born /\ Born \in SUBSET Exercises
    BY <1>1, LaterIs, SameBorn, PageHeld DEF server, Born
  <1>3. SoundAt(acts', Born')
    BY <1>2, SoundLater
  <1>4. \A d \in creations : d.page \in Editors => phase'[d.page] \in {"editing", "left"}
    BY <1>1 DEF SoundCreations, CreationAt
  <1>5. CASE phase[e] = "editing"
    <2>1. PICK d \in Docs :
            /\ [doc[e] EXCEPT !.pages = SetRef(@, c.block, c.ex)] = d
            /\ d.pages = SetRef(Ps(e), c.block, c.ex)
      BY <1>1, <1>5, AttachIs
    <2>2. doc' = [doc EXCEPT ![e] = d] /\ triggerSave(e, d)
      BY <1>5, <2>1 DEF Attach
    <2>3. SoundPages(Ps(e), acts, Born) /\ Ps(e) \in Seq(PageT) /\ Ps(e) # <<>>
      BY <1>1, <1>5, PageHeld DEF SoundDocs, SoundAt, Ps
    <2>4. /\ c.block[1] \in {"stored", "block"} /\ c.ex \in Born /\ c.ex \notin Refs(Ps(e))
          /\ c.ex \in Nat \cup Exercises \cup {Unset}
      BY <1>1 DEF SoundCreations, CreationAt, Ps
    <2> DEFINE ps == Ps(e)
               qs == d.pages
               x == c.ex
               id == c.block
               B == Born
    <2>5. /\ ps \in Seq(PageT) /\ ps # <<>> /\ qs = SetRef(ps, id, x) /\ acts \in Nat
          /\ SoundPages(ps, acts, B) /\ B \in SUBSET Exercises
          /\ id[1] \in {"stored", "block"} /\ x \in B \ Refs(ps)
          /\ x \in Nat \cup Exercises \cup {Unset}
      BY <1>2, <2>1, <2>3, <2>4
    <2> HIDE DEF ps, qs, x, id, B
    <2>6. SoundPages(qs, acts, B) /\ Refs(qs) \subseteq Refs(ps) \cup {x}
      BY <2>5, SoundSetRef
    <2>7. SoundPages(d.pages, acts', Born') /\ Refs(d.pages) \subseteq Refs(Ps(e)) \cup {c.ex}
      BY <1>2, <2>6 DEF ps, qs, x, B
    <2>8. /\ \A p \in Pages : SoundPages(doc'[p].pages, acts', Born')
          /\ \A t \in timers' : SoundPages(t.doc.pages, acts', Born')
          /\ \A p \in Pages : p # e => doc'[p] = doc[p]
          /\ doc'[e] = d
      BY <1>1, <1>3, <2>2, <2>7, SoundMadeUp
    <2>9. SoundDocs'
      BY <1>1, <1>3, <2>8 DEF SoundDocs, SoundAt, server
    <2>10. ASSUME NEW a \in creations' PROVE CreationAt(a)'
      <3>1. a \in creations /\ CreationAt(a) /\ (a.st = "created" => a.ex # c.ex)
        BY <1>1 DEF SoundCreations
      <3>2. a.page \in Editors /\ a.st = "created" => a.ex \notin Refs(doc'[a.page].pages)
        BY <2>7, <2>8, <3>1 DEF CreationAt, Ps, Pages
      <3> QED
        BY <1>2, <1>4, <3>1, <3>2, CreationStays
    <2>11. SoundCreations'
      BY <1>1, <2>10 DEF SoundCreations
    <2> QED
      BY <2>9, <2>11
  <1>6. CASE phase[e] # "editing"
    <2>1. UNCHANGED <<doc, timers>> /\ creations' \subseteq creations
      BY <1>1, <1>6 DEF Attach
    <2>2. SoundDocs'
      BY <1>1, <1>3, <2>1 DEF SoundDocs, SoundAt, server
    <2>3. SoundCreations'
      BY <1>1, <1>2, <1>4, <2>1, CreationsStay
    <2> QED
      BY <2>2, <2>3
  <1> QED
    BY <1>5, <1>6

\* A step that moves or makes up saves only.
LEMMA SoundSaves ==
  ASSUME Types, SoundDocs, SoundCreations,
         UNCHANGED <<saved, library, acts, at, doc, load>>,
         timers' \subseteq timers, creations' \subseteq creations,
         \A e \in Editors : phase'[e] = phase[e],
         \A s \in saves' : \E u \in saves \cup timers : s.doc = u.doc
  PROVE  SoundDocs' /\ SoundCreations'
  <1>1. Later /\ acts \in Nat
    BY LaterIs DEF Later, Types, TypeOK
  <1>2. SoundAt(acts', Born')
    BY <1>1, SoundLater
  <1>3. SoundDocs'
    BY <1>2 DEF SoundDocs, SoundAt
  <1>4. \A c \in creations : c.page \in Editors => phase'[c.page] \in {"editing", "left"}
    BY DEF SoundCreations, CreationAt
  <1>5. SoundCreations'
    BY <1>1, <1>4, CreationsStay
  <1> QED
    BY <1>3, <1>5

\* The saves: armed, checked, written, answered.
LEMMA SoundSaving ==
  ASSUME Types, SoundDocs, SoundCreations, NEW s \in saves,
         check_blocks(s) \/ Saved(s) \/ onChanged(s) \/ SaveLost(s)
  PROVE  SoundDocs' /\ SoundCreations'
  <1>1. Accepted(s) \/ (\E st : Moved(s, st))
          => \A u \in saves' : \E v \in saves \cup timers : u.doc = v.doc
    <2>1. \A st : [s EXCEPT !.st = st].doc = s.doc
      BY DEF Types, TypeOK, SaveT
    <2>2. ASSUME NEW st, Moved(s, st), NEW u \in saves'
          PROVE  \E v \in saves \cup timers : u.doc = v.doc
      <3>1. u \in saves \/ u.doc = s.doc
        BY <2>1, <2>2 DEF Moved
      <3> QED
        BY <3>1
    <2>3. ASSUME Accepted(s), NEW u \in saves'
          PROVE  \E v \in saves \cup timers : u.doc = v.doc
      <3>1. u \in saves \/ u.doc = s.doc
        BY <2>3, AcceptedIs
      <3> QED
        BY <3>1
    <2> QED
      BY <2>2, <2>3
  <1>2. /\ UNCHANGED <<saved, library, acts, at, doc, load, timers, creations>>
        /\ \A u \in saves' : \E v \in saves \cup timers : u.doc = v.doc
    BY <1>1 DEF check_blocks, Saved, onChanged, SaveLost, server, browser
  <1>3. \A e \in Editors : phase'[e] = phase[e]
    <2>1. CASE onChanged(s)
      <3>1. s.page \notin Editors
        BY <2>1, PagesAssumption DEF onChanged
      <3> QED
        BY <2>1, <3>1 DEF onChanged, Types, TypeOK, Pages
    <2>2. CASE ~ onChanged(s)
      BY <2>2 DEF check_blocks, Saved, SaveLost, browser
    <2> QED
      BY <2>1, <2>2
  <1> QED
    BY <1>2, <1>3, SoundSaves

LEMMA SoundFire ==
  ASSUME Types, SoundDocs, SoundCreations, NEW t \in timers, Fire(t)
  PROVE  SoundDocs' /\ SoundCreations'
  <1>1. /\ UNCHANGED <<saved, library, acts, at, doc, load, phase, creations>>
        /\ timers' \subseteq timers
        /\ saves' = saves \cup {Save(t.page, newest'[t.page], t.doc, t.seen)}
    BY DEF Fire, server
  <1>2. Save(t.page, newest'[t.page], t.doc, t.seen).doc = t.doc
    BY DEF Save
  <1>3. \A s \in saves' : \E u \in saves \cup timers : s.doc = u.doc
    BY <1>1, <1>2
  <1> QED
    BY <1>1, <1>3, SoundSaves

LEMMA SoundUpdate ==
  ASSUME Types, SoundDocs, SoundCreations, NEW s \in saves, update_lesson(s)
  PROVE  SoundDocs' /\ SoundCreations'
  <1>1. /\ s.lesson \in Lessons
        /\ saved' = [saved EXCEPT ![s.lesson] = Written(s)]
        /\ Written(s).pages \in Seq(PageT)
        /\ "content" \in s.writes => PagesCome(Written(s).pages, s.doc.pages)
        /\ "content" \notin s.writes => Written(s).pages = saved[s.lesson].pages
        /\ UNCHANGED <<library, browser, creations, acts>>
    BY RowIs DEF Docs
  <1>2. Later /\ acts \in Nat /\ Born' = Born /\ acts' = acts
    BY <1>1, LaterIs, SameBorn DEF Later, Types, TypeOK
  <1>3. SoundAt(acts', Born')
    BY <1>2, SoundLater
  <1>4. SoundPages(s.doc.pages, acts, Born)
    BY DEF SoundDocs, SoundAt
  <1>5. SoundPages(Written(s).pages, acts, Born)
    <2>1. SoundPages(saved[s.lesson].pages, acts, Born)
      BY <1>1 DEF SoundDocs, SoundAt
    <2> QED
      BY <1>1, <1>4, <2>1, SoundCome
  <1>6. \A l \in Lessons : SoundPages(saved'[l].pages, acts', Born')
    BY <1>1, <1>2, <1>3, <1>5 DEF SoundAt, Types, TypeOK
  <1>7. \A u \in saves' : \E v \in saves : u.doc = v.doc
    BY DEF update_lesson, Moved, Types, TypeOK, SaveT
  <1>8. SoundDocs'
    BY <1>1, <1>3, <1>6, <1>7 DEF SoundDocs, SoundAt, browser
  <1>9. \A c \in creations : c.page \in Editors => phase'[c.page] \in {"editing", "left"}
    BY <1>1 DEF SoundCreations, CreationAt, browser
  <1>10. SoundCreations'
    BY <1>1, <1>2, <1>9, CreationsStay DEF browser
  <1> QED
    BY <1>8, <1>10

\* The panel of the course page.
LEMMA SoundFetch ==
  ASSUME Types, SoundDocs, SoundCreations, NEW p \in Panels, fetchCourse(p)
  PROVE  SoundDocs' /\ SoundCreations'
  <1>1. /\ phase' = [phase EXCEPT ![p] = "open"] /\ doc' = [doc EXCEPT ![p] = saved[at[p]]]
        /\ UNCHANGED <<server, requests, acts, load, timers>>
    BY DEF fetchCourse
  <1>2. p \in Pages /\ p \notin Editors /\ at[p] \in Lessons
    BY PanelHeld DEF Types, TypeOK
  <1>3. Later /\ acts \in Nat
    BY <1>1, LaterIs DEF server, Later, Types, TypeOK
  <1>4. SoundAt(acts', Born')
    BY <1>3, SoundLater
  <1>5. \A q \in Pages : doc'[q] = IF q = p THEN saved[at[p]] ELSE doc[q]
    BY <1>1 DEF Types, TypeOK
  <1>6. \A q \in Pages : SoundPages(doc'[q].pages, acts', Born')
    BY <1>2, <1>4, <1>5 DEF SoundAt
  <1>7. SoundDocs'
    BY <1>1, <1>4, <1>6 DEF SoundDocs, SoundAt, server, requests
  <1>8. \A e \in Editors : doc'[e] = doc[e] /\ phase'[e] = phase[e]
    BY <1>1, <1>2, <1>5 DEF Types, TypeOK, Pages
  <1>9. \A c \in creations : c.page \in Editors => phase'[c.page] \in {"editing", "left"}
    BY <1>8 DEF SoundCreations, CreationAt
  <1>10. SoundCreations'
    BY <1>1, <1>3, <1>8, <1>9, CreationsStay DEF requests
  <1> QED
    BY <1>7, <1>10

LEMMA SoundAdd ==
  ASSUME Types, SoundDocs, SoundCreations, NEW p \in Panels, add(p)
  PROVE  SoundDocs' /\ SoundCreations'
  <1>1. PICK i \in DOMAIN extractPages(doc[p]) :
          creations' = creations
            \cup {Request("create", p, New, <<"block", New>>, Unset, i, doc[p])}
    BY DEF add
  <1>2. PICK r : /\ r.page = p /\ r.block = <<"block", New>> /\ r.doc = doc[p] /\ r.st = "sent"
                 /\ creations' = creations \cup {r}
    BY <1>1 DEF Request
  <1>3. UNCHANGED <<server, browser, saves>> /\ acts' = acts + 1 /\ acts \in Nat
    BY BoundsAssumption DEF add, Types, TypeOK
  <1>4. Later
    BY <1>3, LaterIs DEF server
  <1>5. SoundAt(acts', Born')
    BY <1>4, SoundLater
  <1>6. p \in Pages /\ p \notin Editors
    BY PanelHeld
  <1>7. SoundDocs'
    BY <1>2, <1>3, <1>5, <1>6 DEF SoundDocs, SoundAt, server, browser
  <1>8. <<"block", New>> \notin Ids(doc[p].pages)
    <2>1. SoundPages(doc[p].pages, acts, Born)
      BY <1>6 DEF SoundDocs, SoundAt
    <2> QED
      BY <2>1, <1>3, SoundIds DEF New
  <1>9. CreationAt(r)'
    <2>1. r.block \in {"block"} \X (0 .. acts')
      BY <1>2, <1>3 DEF New
    <2> QED
      BY <1>2, <1>3, <1>6, <1>8, <2>1 DEF CreationAt, browser
  <1>10. SoundCreations'
    BY <1>2, <1>3, <1>4, <1>9, CreationsMore DEF browser
  <1> QED
    BY <1>7, <1>10

\* The lesson a panel saves.
LEMMA PlacedSound ==
  ASSUME NEW d \in Docs, InPosition(d.pages), NEW i, NEW id, NEW x \in Exercises,
         NEW n \in Nat, NEW B \in SUBSET Exercises, SoundPages(d.pages, n, B),
         id \in {"block"} \X (0 .. n), id \notin Ids(d.pages), x \in B \ Refs(d.pages)
  PROVE  SoundPages(WithBlock(d, i, id, x).pages, n, B)
  <1>1. id \in BlockIds
    BY DEF BlockIds
  <1>2. PICK e \in Docs : \E k \in Nat :
           /\ WithBlock(d, i, id, x) = e
           /\ Blocks(e.pages) = Blocks(d.pages) \cup {Block(id, "exercise", x, k)}
           /\ ShownOnce(d.pages) /\ Fresh(Block(id, "exercise", x, k), d.pages)
                => ShownOnce(e.pages)
    BY <1>1, PlacedIs
  <1>3. PICK k \in Nat :
           /\ WithBlock(d, i, id, x) = e
           /\ Blocks(e.pages) = Blocks(d.pages) \cup {Block(id, "exercise", x, k)}
           /\ ShownOnce(d.pages) /\ Fresh(Block(id, "exercise", x, k), d.pages)
                => ShownOnce(e.pages)
    BY <1>2
  <1> DEFINE b == Block(id, "exercise", x, k)
  <1>4. b.id = id /\ b.kind = "exercise" /\ b.ref = x
    BY DEF Block
  <1> HIDE DEF b
  <1>5. Fresh(b, d.pages)
    BY <1>4, FreshIs
  <1>6. GoodBlock(b, n, B)
    BY <1>4 DEF GoodBlock
  <1> QED
    BY <1>3, <1>5, <1>6 DEF SoundPages, b

\* The panel saves a lesson with the exercise it has just had made, or an old one.
LEMMA SoundAddExercise ==
  ASSUME Types, SoundDocs, SoundCreations, NEW c \in creations, addExerciseToPage(c)
  PROVE  SoundDocs' /\ SoundCreations'
  <1>1. /\ c.doc \in Docs /\ c.ex \in Exercises /\ InPosition(c.doc.pages)
    BY DEF Types, TypeOK, RequestT, addExerciseToPage
  <1> DEFINE d == WithBlock(c.doc, c.index, c.block, c.ex)
  <1>2. /\ saves' = saves \cup {Save(c.page, c.n, d, Ids(c.doc.pages))}
        /\ creations' \subseteq creations
        /\ UNCHANGED <<server, browser, acts>>
        /\ c.page \in Panels /\ c.st = "created"
    BY DEF addExerciseToPage, WithBlock
  <1>3. Later /\ acts \in Nat /\ acts' = acts /\ Born' = Born /\ Born \in SUBSET Exercises
    BY <1>2, LaterIs, SameBorn DEF server, Born
  <1>4. SoundAt(acts', Born')
    BY <1>3, SoundLater
  <1>5. /\ c.block \in {"block"} \X (0 .. acts) /\ c.block \notin Ids(c.doc.pages)
        /\ c.ex \in Born \ Refs(c.doc.pages)
    BY <1>2 DEF SoundCreations, CreationAt
  <1>6. SoundPages(c.doc.pages, acts, Born)
    BY DEF SoundDocs, SoundAt
  <1> DEFINE B == Born
  <1>7. SoundPages(c.doc.pages, acts, B) /\ B \in SUBSET Exercises /\ c.ex \in B \ Refs(c.doc.pages)
    BY <1>3, <1>5, <1>6
  <1> HIDE DEF B
  <1>8. SoundPages(WithBlock(c.doc, c.index, c.block, c.ex).pages, acts, B)
    BY <1>1, <1>3, <1>5, <1>7, PlacedSound
  <1>9. SoundPages(d.pages, acts', Born')
    BY <1>3, <1>8 DEF B
  <1> HIDE DEF d
  <1>10. Save(c.page, c.n, d, Ids(c.doc.pages)).doc = d
    BY DEF Save
  <1>11. SoundDocs'
    BY <1>2, <1>4, <1>9, <1>10 DEF SoundDocs, SoundAt, server, browser
  <1>12. \A a \in creations : a.page \in Editors => phase'[a.page] \in {"editing", "left"}
    BY <1>2 DEF SoundCreations, CreationAt, browser
  <1>13. SoundCreations'
    BY <1>2, <1>3, <1>12, CreationsStay DEF browser
  <1> QED
    BY <1>11, <1>13

LEMMA SoundPlace ==
  ASSUME Types, SoundDocs, SoundCreations, NEW p \in Panels, placeExistingInPage(p)
  PROVE  SoundDocs' /\ SoundCreations'
  <1>1. /\ UNCHANGED <<server, creations, doc, load, timers>> /\ acts' = acts + 1
    BY DEF placeExistingInPage
  <1>2. Later /\ acts \in Nat /\ Born' = Born /\ Born \in SUBSET Exercises
    BY <1>1, LaterIs, SameBorn DEF server, Born, Later, Types, TypeOK
  <1>3. SoundAt(acts', Born')
    BY <1>2, SoundLater
  <1>4. PICK x \in Live, i \in DOMAIN extractPages(doc[p]) :
          IF x \in Refs(extractPages(doc[p]))
            THEN phase' = [phase EXCEPT ![p] = "refetching"] /\ UNCHANGED saves
            ELSE /\ saves' = saves \cup {Save(p, New,
                      [doc[p] EXCEPT !.pages =
                         AppendBlock(extractPages(doc[p]), i, <<"block", New>>, x)],
                      Ids(doc[p].pages))}
                 /\ UNCHANGED phase
    BY DEF placeExistingInPage
  <1> DEFINE id == <<"block", New>>
             d == WithBlock(doc[p], i, id, x)
  <1>5. \/ UNCHANGED saves
        \/ /\ saves' = saves \cup {Save(p, New, d, Ids(doc[p].pages))}
           /\ x \notin Refs(doc[p].pages)
    <2>1. Refs(extractPages(doc[p])) = Refs(doc[p].pages)
      BY PanelHeld DEF Refs
    <2> QED
      BY <1>4, <2>1 DEF WithBlock
  <1>6. \A e \in Editors : phase'[e] = phase[e]
    BY <1>4, PanelHeld DEF Types, TypeOK, Pages
  <1>7. /\ doc[p] \in Docs /\ InPosition(doc[p].pages) /\ x \in Exercises /\ x \in Born
        /\ SoundPages(doc[p].pages, acts, Born) /\ id \notin Ids(doc[p].pages)
        /\ id \in {"block"} \X (0 .. acts')
    <2>1. SoundPages(doc[p].pages, acts, Born)
      BY PanelHeld DEF SoundDocs, SoundAt
    <2>2. id \notin Ids(doc[p].pages)
      BY <2>1, <1>2, SoundIds DEF New
    <2> QED
      BY <2>1, <2>2, <1>1, <1>2, PanelHeld DEF Live, Born, New
  <1>8. ASSUME x \notin Refs(doc[p].pages) PROVE SoundPages(d.pages, acts', Born')
    <2> DEFINE B == Born
               n == acts'
    <2>1. SoundPages(doc[p].pages, n, B) /\ n \in Nat /\ B \in SUBSET Exercises
      BY <1>2, <1>3, PanelHeld DEF SoundAt, Later
    <2>2. x \in B \ Refs(doc[p].pages) /\ id \in {"block"} \X (0 .. n)
      BY <1>7, <1>8
    <2> HIDE DEF B, n, id
    <2>3. SoundPages(WithBlock(doc[p], i, id, x).pages, n, B)
      BY <1>7, <2>1, <2>2, PlacedSound
    <2> QED
      BY <2>3, <1>2 DEF B, n
  <1> HIDE DEF d
  <1>9. Save(p, New, d, Ids(doc[p].pages)).doc = d
    BY DEF Save
  <1>10. \A s \in saves' : SoundPages(s.doc.pages, acts', Born')
    BY <1>3, <1>5, <1>8, <1>9 DEF SoundAt
  <1>11. SoundDocs'
    BY <1>1, <1>3, <1>10 DEF SoundDocs, SoundAt, server
  <1>12. \A c \in creations : c.page \in Editors => phase'[c.page] \in {"editing", "left"}
    BY <1>6 DEF SoundCreations, CreationAt
  <1>13. SoundCreations'
    BY <1>1, <1>2, <1>12, CreationsStay
  <1> QED
    BY <1>11, <1>13

\* The server makes an exercise, with its block in the lesson of an editor.
\* A creation under way stays one while another is made or reads.
LEMMA SoundRead ==
  ASSUME Types, SoundDocs, SoundCreations, NEW c \in creations, read_lesson(c)
  PROVE  SoundDocs' /\ SoundCreations'
  <1>1. PICK r \in CreateT :
           /\ r.page = c.page /\ r.n = c.n /\ r.block = c.block
           /\ r.doc = saved[at[c.page]] /\ r.st = "read"
           /\ c.st = "sent" /\ c.page \in Editors /\ at[c.page] \in Lessons
           /\ creations' = (creations \ {c}) \cup {r}
           /\ UNCHANGED <<server, browser, saves, deletions, acts, faults, removed>>
    BY ReadIs
  <1>2. Later /\ acts \in Nat /\ acts' = acts
    BY <1>1, LaterIs DEF server, Later, Types, TypeOK
  <1>3. SoundAt(acts', Born')
    BY <1>2, SoundLater
  <1>4. SoundPages(r.doc.pages, acts', Born')
    BY <1>1, <1>3 DEF SoundAt
  <1>5. SoundDocs'
    BY <1>1, <1>3, <1>4 DEF SoundDocs, SoundAt, server, browser
  <1>6. UNCHANGED <<phase, doc>>
    BY <1>1 DEF browser
  <1>7. ASSUME NEW a \in creations PROVE CreationAt(a)'
    <2>1. CreationAt(a)
      BY DEF SoundCreations
    <2>2. a.page \in Editors =>
           /\ phase'[a.page] \in {"editing", "left"}
           /\ a.st = "created" => a.ex \notin Refs(doc'[a.page].pages)
      BY <1>6, <2>1 DEF CreationAt
    <2> QED
      BY <1>2, <2>1, <2>2, CreationStays
  <1>8. CreationAt(r)'
    <2>1. CreationAt(c)' /\ c.page \notin Panels
      BY <1>1, <1>7, PagesAssumption
    <2> QED
      BY <1>1, <2>1 DEF CreationAt
  <1>9. SoundCreations'
    BY <1>1, <1>7, <1>8 DEF SoundCreations
  <1> QED
    BY <1>5, <1>9

LEMMA SoundCreated ==
  ASSUME Types, SoundDocs, SoundCreations, NEW c \in creations, create_exercise(c)
  PROVE  SoundDocs' /\ SoundCreations'
  <1>1. PICK x, r :
           /\ x \in Unborn
           /\ x \in Exercises
           /\ library' = [library EXCEPT ![x] = "live"]
           /\ r.page = c.page /\ r.n = c.n /\ r.block = c.block /\ r.doc = c.doc
           /\ r.st = "created" /\ r.ex = x
           /\ creations' = (creations \ {c}) \cup {r}
           /\ Stored(With(c, x))
           /\ UNCHANGED <<browser, saves, deletions, acts, faults, removed>>
    BY CreateIs
  <1>2. /\ With(c, x) \in [Lessons -> Docs]
        /\ \A l \in Lessons : \/ With(c, x)[l] = saved[l]
                              \/ With(c, x)[l].pages = with_exercise_block(c.doc, x).pages
    BY <1>1, WithRows
  <1>3. saved' = With(c, x)
    BY <1>1 DEF Stored
  <1>4. Born' = Born \cup {x} /\ x \notin Born /\ x \in Exercises
    BY <1>1 DEF Born, Unborn, Types, TypeOK
  <1>5. Later /\ acts \in Nat /\ acts' = acts
    BY <1>1, <1>4, BoundsAssumption DEF Later, Types, TypeOK, Born
  <1>6. SoundAt(acts', Born')
    BY <1>5, SoundLater
  <1>7. ASSUME NEW l \in Lessons PROVE SoundPages(saved'[l].pages, acts', Born')
    <2>1. SoundPages(c.doc.pages, acts, Born) /\ SoundPages(c.doc.pages, acts', Born')
          /\ c.doc \in Docs /\ SoundPages(saved[l].pages, acts', Born')
      BY <1>6 DEF SoundDocs, SoundAt, Types, TypeOK, RequestT
    <2> DEFINE d == with_exercise_block(c.doc, x)
    <2>2. /\ \A b \in Blocks(d.pages) : \/ b \in Blocks(c.doc.pages)
                                        \/ b.id = <<"server", x>> /\ b.kind = "exercise" /\ b.ref = x
          /\ ShownOnce(c.doc.pages) /\ <<"server", x>> \notin Ids(c.doc.pages)
               => ShownOnce(d.pages)
      BY <2>1, <1>4, WithIs
    <2>3. <<"server", x>> \notin Ids(c.doc.pages)
      BY <2>1, <1>4, <1>5, SoundIds
    <2>4. d = with_exercise_block(c.doc, x)
      OBVIOUS
    <2> HIDE DEF d
    <2>5. \A b : b.id = <<"server", x>> /\ b.kind = "exercise" /\ b.ref = x
                   => GoodBlock(b, acts', Born')
      BY <1>4 DEF GoodBlock
    <2>6. SoundPages(d.pages, acts', Born')
      BY <2>1, <2>2, <2>3, <2>5 DEF SoundPages
    <2> QED
      BY <1>2, <1>3, <2>1, <2>4, <2>6
  <1>8. SoundDocs'
    BY <1>1, <1>6, <1>7 DEF SoundDocs, SoundAt, browser
  <1>9. ASSUME NEW a \in creations PROVE CreationAt(a)' /\ (a.st = "created" => a.ex # x)
    <2>1. CreationAt(a)
      BY DEF SoundCreations
    <2>2. a.page \in Editors =>
           /\ phase'[a.page] \in {"editing", "left"}
           /\ a.st = "created" => a.ex \notin Refs(doc'[a.page].pages)
      BY <1>1, <2>1 DEF CreationAt, browser
    <2> QED
      BY <1>4, <1>5, <2>1, <2>2, CreationStays DEF CreationAt
  <1>10. CreationAt(r)'
    <2>1. CreationAt(c)'
      BY <1>9
    <2>2. x \notin Refs(c.doc.pages)
      BY <1>4, SoundRefs DEF SoundDocs, SoundAt
    <2>3. c.page \in Editors => x \notin Refs(doc'[c.page].pages)
      <3>1. c.page \in Editors => SoundPages(doc[c.page].pages, acts, Born)
        BY DEF SoundDocs, SoundAt, Pages
      <3> QED
        BY <1>1, <1>4, <3>1, SoundRefs DEF browser
    <2> QED
      BY <1>1, <1>4, <2>1, <2>2, <2>3 DEF CreationAt
  <1>11. SoundCreations'
    BY <1>1, <1>9, <1>10 DEF SoundCreations
  <1> QED
    BY <1>8, <1>11

\* The server deletes an exercise and closes up the lessons it has found.
LEMMA SoundDeleting ==
  ASSUME Types, SoundDocs, SoundCreations, NEW r \in deletions, delete_exercise(r)
  PROVE  SoundDocs' /\ SoundCreations'
  <1>1. /\ saved' = Cleared(r) /\ library' = [library EXCEPT ![r.ex] = "deleted"]
        /\ UNCHANGED <<browser, saves, creations, acts>>
    BY DEF delete_exercise, Stored
  <1>2. Later /\ acts \in Nat
    <2>1. Born \subseteq Born' /\ Born' \in SUBSET Exercises
      BY <1>1 DEF Born, Types, TypeOK
    <2> QED
      BY <1>1, <2>1, BoundsAssumption DEF Later, Types, TypeOK
  <1>3. SoundAt(acts', Born')
    BY <1>2, SoundLater
  <1>4. ASSUME NEW l \in Lessons PROVE SoundPages(saved'[l].pages, acts', Born')
    <2> DEFINE d == content_without_block(saved[l], r.ex)
    <2>1. saved[l] \in Docs /\ SoundPages(saved[l].pages, acts', Born')
      BY <1>3 DEF SoundAt, Types, TypeOK
    <2>2. d \in Docs /\ PagesCome(d.pages, saved[l].pages)
      BY <2>1, WithoutIs
    <2>3. saved'[l] = d \/ saved'[l] = saved[l]
      BY <1>1, ClearedRows
    <2> HIDE DEF d
    <2>4. d.pages \in Seq(PageT)
      BY <2>2 DEF Docs
    <2> DEFINE n == acts'
               B == Born'
    <2>5. SoundPages(saved[l].pages, n, B)
      BY <2>1
    <2> HIDE DEF n, B
    <2>6. SoundPages(d.pages, n, B)
      BY <2>2, <2>4, <2>5, SoundCome
    <2> QED
      BY <2>3, <2>5, <2>6 DEF n, B
  <1>5. SoundDocs'
    BY <1>1, <1>3, <1>4 DEF SoundDocs, SoundAt, browser
  <1>6. \A c \in creations : c.page \in Editors => phase'[c.page] \in {"editing", "left"}
    BY <1>1 DEF SoundCreations, CreationAt, browser
  <1>7. SoundCreations'
    BY <1>1, <1>2, <1>6, CreationsStay DEF browser
  <1> QED
    BY <1>5, <1>7

LEMMA SoundServer ==
  ASSUME Types, SoundDocs, SoundCreations,
         (\E r \in deletions : lessons_holding(r) \/ DeleteLost(r)) \/ LibraryDelete
         \/ \E c \in creations : CreateLost(c)
  PROVE  SoundDocs' /\ SoundCreations'
  <1>1. ASSUME UNCHANGED <<server, browser, saves, acts>>, creations' \subseteq creations
        PROVE  SoundDocs' /\ SoundCreations'
    <2>1. \A s \in saves' : \E u \in saves \cup timers : s.doc = u.doc
      BY <1>1
    <2> QED
      BY <1>1, <2>1, SoundSaves DEF server, browser
  <1>2. ASSUME NEW r \in deletions, lessons_holding(r) PROVE SoundDocs' /\ SoundCreations'
    BY <1>1, <1>2 DEF lessons_holding
  <1>3. ASSUME NEW r \in deletions, DeleteLost(r) PROVE SoundDocs' /\ SoundCreations'
    BY <1>1, <1>3 DEF DeleteLost
  <1>4. CASE LibraryDelete
    BY <1>4, SoundDelete DEF LibraryDelete
  <1>5. ASSUME NEW c \in creations, CreateLost(c) PROVE SoundDocs' /\ SoundCreations'
    BY <1>1, <1>5 DEF CreateLost
  <1> QED
    BY <1>2, <1>3, <1>4, <1>5

-----------------------------------------------------------------------------
(* The step, the invariant and what follows from it.                           *)

\* A block that names an exercise is deleted: the exercise goes first.
Discard(e, b) ==
  /\ b.kind # "text" /\ b.ref # Unset
  /\ phase[e] = "editing" /\ acts < MaxActs /\ acts' = acts + 1
  /\ deletions' = deletions \cup {Request("delete", e, New, b.id, b.ref, 0, NoDoc)}
  /\ UNCHANGED <<server, browser, saves, creations, faults, removed>>

\* Next, with the edits of an editor together.
Step ==
  \/ \E e \in Editors :
       Opening(e) \/ Typing(e) \/ createAndAttachExercise(e) \/ Leave(e)
       \/ \E b \in Blocks(Ps(e)) : Discard(e, b)
  \/ \E p \in Panels : fetchCourse(p) \/ add(p) \/ placeExistingInPage(p)
  \/ \E t \in timers : Fire(t)
  \/ \E s \in saves :
       update_lesson(s) \/ check_blocks(s) \/ Saved(s) \/ onChanged(s) \/ SaveLost(s)
  \/ \E c \in creations :
       read_lesson(c) \/ create_exercise(c) \/ Attach(c) \/ addExerciseToPage(c)
  \/ \E r \in deletions : delete_exercise(r) \/ DeleteAnswered(r)
  \/ (\E r \in deletions : lessons_holding(r) \/ DeleteLost(r)) \/ LibraryDelete
     \/ \E c \in creations : CreateLost(c)

\* Every step is one of those.
LEMMA StepIs ==
  Next => Step
  <1>1. ASSUME NEW e \in Editors, deleteBlock(e)
        PROVE  Typing(e) \/ \E b \in Blocks(Ps(e)) : Discard(e, b)
    BY <1>1 DEF deleteBlock, Typing, Discard
  <1>2. ASSUME NEW e \in Editors, Editing(e)
        PROVE  Typing(e) \/ createAndAttachExercise(e) \/ Leave(e)
               \/ \E b \in Blocks(Ps(e)) : Discard(e, b)
    BY <1>1, <1>2 DEF Editing, Typing
  <1> QED
    BY <1>2 DEF Next, Step, Panel, Saving, Creating, Deleting, Losing

\* The invariant on which the others build: the types, the positions, and what is sound.
DocsInv == Types /\ SoundDocs /\ SoundCreations

\* One step keeps the invariant ...
LEMMA DocsStep ==
  ASSUME DocsInv, [Next]_vars
  PROVE  DocsInv'
  <1> USE DEF DocsInv
  <1>1. CASE UNCHANGED vars
    BY <1>1 DEF vars, Types, TypeOK, SoundDocs, SoundAt, SoundCreations, CreationAt, Born
  <1>2. CASE Next
    <2>1. ASSUME NEW e \in Editors, Opening(e) PROVE DocsInv'
      BY <2>1, TypesOpening, SoundOpening
    <2>2. ASSUME NEW e \in Editors, Typing(e) PROVE DocsInv'
      BY <2>2, TypesTyping, SoundTyping
    <2>3. ASSUME NEW e \in Editors, createAndAttachExercise(e) PROVE DocsInv'
      BY <2>3, TypesCreate, SoundCreate
    <2>4. ASSUME NEW e \in Editors, Leave(e) PROVE DocsInv'
      BY <2>4, TypesLeave, SoundLeave
    <2>5. ASSUME NEW e \in Editors, NEW b \in Blocks(Ps(e)), Discard(e, b) PROVE DocsInv'
      BY <2>5, TypesDelete, SoundDelete DEF Discard
    <2>6. ASSUME NEW p \in Panels, fetchCourse(p) \/ add(p) \/ placeExistingInPage(p)
          PROVE  DocsInv'
      BY <2>6, TypesFetch, SoundFetch, TypesAdd, SoundAdd, TypesPlace, SoundPlace
    <2>7. ASSUME NEW t \in timers, Fire(t) PROVE DocsInv'
      BY <2>7, TypesFire, SoundFire
    <2>8. ASSUME NEW s \in saves, update_lesson(s) PROVE DocsInv'
      BY <2>8, TypesUpdate, SoundUpdate
    <2>9. ASSUME NEW s \in saves, check_blocks(s) \/ Saved(s) \/ onChanged(s) \/ SaveLost(s)
          PROVE  DocsInv'
      BY <2>9, TypesSaving, SoundSaving
    <2>10. ASSUME NEW c \in creations, create_exercise(c) PROVE DocsInv'
      BY <2>10, TypesCreated, SoundCreated
    <2>11. ASSUME NEW c \in creations, Attach(c) PROVE DocsInv'
      BY <2>11, TypesAttach, SoundAttach
    <2>12. ASSUME NEW c \in creations, addExerciseToPage(c) PROVE DocsInv'
      BY <2>12, TypesAddExercise, SoundAddExercise
    <2>13. ASSUME NEW r \in deletions, DeleteAnswered(r) PROVE DocsInv'
      BY <2>13, TypesDeleteAnswered, SoundDeleteAnswered
    <2>14. ASSUME NEW c \in creations, read_lesson(c) PROVE DocsInv'
      BY <2>14, TypesRead, SoundRead
    <2>15. ASSUME NEW r \in deletions, delete_exercise(r) PROVE DocsInv'
      BY <2>15, TypesDeleting, SoundDeleting
    <2>16. CASE (\E r \in deletions : lessons_holding(r) \/ DeleteLost(r)) \/ LibraryDelete
                \/ \E c \in creations : CreateLost(c)
      BY <2>16, TypesServer, SoundServer
    <2> QED
      BY <1>2, <2>1, <2>2, <2>3, <2>4, <2>5, <2>6, <2>7, <2>8, <2>9, <2>10, <2>11, <2>12,
         <2>13, <2>14, <2>15, <2>16, StepIs DEF Step
  <1> QED
    BY <1>1, <1>2

\* ... and so it always holds.
LEMMA DocsHold ==
  Spec => []DocsInv
  <1>1. Init => DocsInv
    BY TypesInit, SoundInit DEF DocsInv
  <1> QED
    BY <1>1, DocsStep, PTL DEF Spec

\* Every document, timer, save and request under way has the form the code gives it, and
\* an editor always has a page to write on: deletePage puts a blank page in place of the
\* last one (edit/page.tsx), extractPages one in place of none (lesson-pages.ts).
THEOREM TypeCorrect ==
  Spec => []TypeOK
  <1>1. DocsInv => TypeOK
    BY DEF DocsInv, Types
  <1> QED
    BY <1>1, DocsHold, PTL

\* However the writers interleave (the autosave, the panel, the creation and the deletion
\* of an exercise) and whatever is lost, a stored lesson shows no exercise twice and stores
\* each block in its own position (buildPagesContent, lesson-pages.ts; with_exercise_block
\* and content_without_block, lesson_blocks.py).
THEOREM PagesSound ==
  Spec => []StoredPagesAreSound
  <1>1. DocsInv => StoredPagesAreSound
    BY DEF DocsInv, Types, SoundDocs, SoundAt, SoundPages, StoredPagesAreSound
  <1> QED
    BY <1>1, DocsHold, PTL

-----------------------------------------------------------------------------
(* References to exercises that do not exist.                                  *)

\* The rows are left alone; no save is checked or written, no lesson read or searched for.
Quiet ==
  /\ UNCHANGED <<server, at>>
  /\ \A s \in saves' : s \in saves \/ s.st \in {"sent", "refused", "failed"}
  /\ \A c \in creations' : c \in creations \/ c.st # "read"
  /\ \A r \in deletions' : r \in deletions \/ r.st # "found"

\* A new request has been sent, no more.
LEMMA SentFirst ==
  /\ \A p, n, d, held : Save(p, n, d, held).st = "sent"
  /\ \A kind, p, n, b, x, i, d : Request(kind, p, n, b, x, i, d).st = "sent"
  BY DEF Save, Request

\* What a teacher does is quiet, and so is what an answer does.
LEMMA QuietPages ==
  ASSUME Types
  PROVE  /\ \A e \in Editors :
              Opening(e) \/ Typing(e) \/ createAndAttachExercise(e) \/ Leave(e)
              \/ (\E b \in Blocks(Ps(e)) : Discard(e, b)) => Quiet
         /\ \A p \in Panels : fetchCourse(p) \/ add(p) \/ placeExistingInPage(p) => Quiet
         /\ \A t \in timers : Fire(t) => Quiet
         /\ LibraryDelete => Quiet
  <1>1. ASSUME NEW e \in Editors, Opening(e) \/ Leave(e) PROVE Quiet
    BY <1>1 DEF Opening, Open, GetLesson, GetExercises, Loaded, LoadFails, Leave,
                requests, server, Quiet
  <1>2. ASSUME NEW e \in Editors, Typing(e) PROVE Quiet
    <2>1. PICK ti, qs, gone : ti \in Int /\ Edit(e, ti, qs, gone)
      BY <1>2, TypingIs
    <2> QED
      BY <2>1 DEF Edit, requests, server, Quiet
  <1>3. ASSUME NEW e \in Editors,
               createAndAttachExercise(e) \/ \E b \in Blocks(Ps(e)) : Discard(e, b)
        PROVE  Quiet
    BY <1>3, SentFirst DEF createAndAttachExercise, Discard, server, browser, Quiet
  <1>4. ASSUME NEW p \in Panels, fetchCourse(p) \/ add(p) PROVE Quiet
    BY <1>4, SentFirst DEF fetchCourse, add, requests, server, browser, Quiet
  <1>5. ASSUME NEW p \in Panels, placeExistingInPage(p) PROVE Quiet
    <2>1. /\ UNCHANGED <<server, at, creations, deletions>>
          /\ \E s : s.st = "sent" /\ saves' \subseteq saves \cup {s}
      BY <1>5, SentFirst DEF placeExistingInPage, server
    <2> QED
      BY <2>1 DEF Quiet
  <1>6. ASSUME NEW t \in timers, Fire(t) PROVE Quiet
    BY <1>6, SentFirst DEF Fire, server, Quiet
  <1>7. LibraryDelete => Quiet
    BY SentFirst DEF LibraryDelete, server, browser, Quiet
  <1> QED
    BY <1>1, <1>2, <1>3, <1>4, <1>5, <1>6, <1>7

LEMMA QuietAnswers ==
  ASSUME Types
  PROVE  /\ \A s \in saves : Saved(s) \/ onChanged(s) \/ SaveLost(s) => Quiet
         /\ \A c \in creations : Attach(c) \/ addExerciseToPage(c) \/ CreateLost(c) => Quiet
         /\ \A r \in deletions : DeleteAnswered(r) \/ DeleteLost(r) => Quiet
  <1>1. \A s \in saves : [s EXCEPT !.st = "failed"].st = "failed"
    BY DEF Types, TypeOK, SaveT
  <1>2. \A r \in deletions : [r EXCEPT !.st = "failed"].st = "failed"
    BY DEF Types, TypeOK, RequestT
  <1>3. ASSUME NEW s \in saves, Saved(s) \/ onChanged(s) PROVE Quiet
    BY <1>3 DEF Saved, onChanged, server, Quiet
  <1>4. ASSUME NEW s \in saves, SaveLost(s) PROVE Quiet
    BY <1>1, <1>4 DEF SaveLost, Moved, server, browser, Quiet
  <1>5. ASSUME NEW c \in creations, Attach(c) \/ CreateLost(c) PROVE Quiet
    BY <1>5 DEF Attach, CreateLost, server, browser, Quiet
  <1>6. ASSUME NEW c \in creations, addExerciseToPage(c) PROVE Quiet
    BY <1>6, SentFirst DEF addExerciseToPage, server, browser, Quiet
  <1>7. ASSUME NEW r \in deletions, DeleteAnswered(r) PROVE Quiet
    BY <1>7 DEF DeleteAnswered, server, Quiet
  <1>8. ASSUME NEW r \in deletions, DeleteLost(r) PROVE Quiet
    BY <1>2, <1>8 DEF DeleteLost, server, browser, Quiet
  <1> QED
    BY <1>3, <1>4, <1>5, <1>6, <1>7, <1>8

\* The steps that say something of the stored rows, or of what will be written to them.
LEMMA StepKinds ==
  ASSUME Types, Next
  PROVE  \/ Quiet
         \/ \E s \in saves : check_blocks(s) \/ update_lesson(s)
         \/ \E c \in creations : read_lesson(c) \/ create_exercise(c)
         \/ \E r \in deletions : lessons_holding(r) \/ delete_exercise(r)
  BY StepIs, QuietPages, QuietAnswers DEF Step

\* The invariant: what is stored, what is to be written, and what was searched for.
Dangling == DanglingNeedsOverlap /\ ToWrite /\ Searched

\* What may be named goes on to be so, as long as nothing is deleted.
LEMMA MayNameMore ==
  ASSUME Live \subseteq Live', overtaken \subseteq overtaken'
  PROVE  \A l, x : MayName(l, x) => MayName(l, x)'
  BY DEF MayName

\* Rows in which every reference that is new may be there keep the property.
LEMMA StoredNames ==
  ASSUME DanglingNeedsOverlap, Live \subseteq Live', overtaken \subseteq overtaken',
         \A l \in Lessons : \A x \in Refs(saved'[l].pages) :
           x \in Refs(saved[l].pages) \/ MayName(l, x)'
  PROVE  DanglingNeedsOverlap'
  BY MayNameMore DEF DanglingNeedsOverlap, MayName

\* A save is checked.
LEMMA DanglingCheck ==
  ASSUME Types, Dangling, NEW s \in saves, check_blocks(s)
  PROVE  Dangling'
  <1>1. UNCHANGED <<server, at, creations, deletions>>
    BY DEF check_blocks, server, browser
  <1>2. \A l, x : MayName(l, x)' <=> MayName(l, x)
    BY <1>1 DEF MayName, Live, server
  <1>3. ASSUME NEW u \in saves', u.st = "checked"
        PROVE  u \in saves \/ (u.doc = s.doc /\ Refs(s.doc.pages) \subseteq Live)
    <2>1. CASE Refs(s.doc.pages) \subseteq Live
      <3>1. Accepted(s)
        BY <2>1 DEF check_blocks
      <3> QED
        BY <2>1, <3>1, AcceptedIs
    <2>2. CASE ~(Refs(s.doc.pages) \subseteq Live)
      <3>1. Moved(s, "refused")
        BY <2>2 DEF check_blocks
      <3>2. [s EXCEPT !.st = "refused"].st = "refused"
        BY DEF Types, TypeOK, SaveT
      <3> QED
        BY <1>3, <3>1, <3>2, MovedIs
    <2> QED
      BY <2>1, <2>2
  <1>4. ToWrite'
    <2>1. ASSUME NEW u \in saves', u.st = "checked", "content" \in u.writes,
                 NEW x \in Refs(u.doc.pages)
          PROVE  MayName(u.lesson, x)'
      <3>1. CASE u \in saves
        BY <1>2, <2>1, <3>1 DEF Dangling, ToWrite
      <3>2. CASE u.doc = s.doc /\ Refs(s.doc.pages) \subseteq Live
        BY <1>2, <2>1, <3>2 DEF MayName
      <3> QED
        BY <1>3, <2>1, <3>1, <3>2
    <2>2. \A c \in creations' : c.st = "read" =>
            \A x \in Refs(c.doc.pages) : MayName(at[c.page], x)'
      BY <1>1, <1>2 DEF Dangling, ToWrite
    <2> QED
      BY <2>1, <2>2 DEF ToWrite
  <1>5. DanglingNeedsOverlap' /\ Searched'
    BY <1>1 DEF server, Dangling, DanglingNeedsOverlap, Searched, Live, Unborn
  <1> QED
    BY <1>4, <1>5 DEF Dangling

\* A write leaves what is yet to be written as it is ...
LEMMA ToWriteMore ==
  ASSUME ToWrite, Live \subseteq Live', overtaken \subseteq overtaken', UNCHANGED at,
         \A s \in saves' : s \in saves \/ s.st # "checked",
         \A c \in creations' : c \in creations \/ c.st # "read"
  PROVE  ToWrite'
  <1>1. \A l, x : MayName(l, x) => MayName(l, x)'
    BY MayNameMore
  <1>2. ASSUME NEW s \in saves', s.st = "checked", "content" \in s.writes,
               NEW x \in Refs(s.doc.pages)
        PROVE  MayName(s.lesson, x)'
    BY <1>1, <1>2 DEF ToWrite
  <1>3. ASSUME NEW c \in creations', c.st = "read", NEW x \in Refs(c.doc.pages)
        PROVE  MayName(at[c.page], x)'
    BY <1>1, <1>3 DEF ToWrite
  <1> QED
    BY <1>2, <1>3 DEF ToWrite

\* ... and is in the history of each deletion that has not found the lesson.
LEMMA SearchedMore ==
  ASSUME Searched, overtaken \subseteq overtaken', Unborn' \subseteq Unborn,
         \A r \in deletions' : r \in deletions \/ r.st # "found",
         \A r \in deletions, l \in Lessons :
           r.st = "found" /\ r \in deletions' /\ r.ex \in Refs(saved'[l].pages) =>
             r.ex \in Refs(saved[l].pages) \/ l \in r.lessons \/ <<l, r.ex>> \in overtaken'
  PROVE  Searched'
  BY DEF Searched

\* A save is written.
LEMMA DanglingUpdate ==
  ASSUME Types, Dangling, NEW s \in saves, update_lesson(s)
  PROVE  Dangling'
  <1>1. /\ s.lesson \in Lessons /\ s.doc.pages \in Seq(PageT)
        /\ saved' = [saved EXCEPT ![s.lesson] = Written(s)]
        /\ Written(s) \in Docs
        /\ "content" \notin s.writes => Written(s).pages = saved[s.lesson].pages
        /\ "content" \in s.writes => PagesCome(Written(s).pages, s.doc.pages)
        /\ UNCHANGED <<library, browser, creations, deletions>>
    BY RowIs
  <1>2. /\ s.st = "checked" /\ Moved(s, "written")
        /\ overtaken' = overtaken \cup
             (IF "content" \in s.writes THEN Missed(s.lesson, Refs(s.doc.pages)) ELSE {})
    BY DEF update_lesson
  <1>3. Live' = Live /\ Unborn' = Unborn /\ overtaken \subseteq overtaken' /\ UNCHANGED at
    BY <1>1, <1>2 DEF Live, Unborn, browser
  <1>4. "content" \in s.writes => Refs(Written(s).pages) \subseteq Refs(s.doc.pages)
    BY <1>1, PagesComeFacts, CoversFacts DEF Docs
  <1>5. \A l \in Lessons : saved'[l] = IF l = s.lesson THEN Written(s) ELSE saved[l]
    BY <1>1 DEF Types, TypeOK
  <1>6. ASSUME NEW l \in Lessons, NEW x \in Refs(saved'[l].pages)
        PROVE  \/ x \in Refs(saved[l].pages)
               \/ l = s.lesson /\ "content" \in s.writes /\ x \in Refs(s.doc.pages)
    BY <1>1, <1>4, <1>5, <1>6
  <1>7. DanglingNeedsOverlap'
    <2>1. \A l \in Lessons : \A x \in Refs(saved'[l].pages) :
            x \in Refs(saved[l].pages) \/ MayName(l, x)
      BY <1>2, <1>6 DEF Dangling, ToWrite
    <2>2. \A l, x : MayName(l, x) => MayName(l, x)'
      BY <1>3, MayNameMore
    <2> QED
      BY <1>3, <2>1, <2>2, StoredNames DEF Dangling
  <1>8. ToWrite'
    <2>1. \A u \in saves' : u \in saves \/ u.st = "written"
      BY <1>2 DEF Moved, Types, TypeOK, SaveT
    <2> QED
      BY <1>1, <1>3, <2>1, ToWriteMore DEF Dangling
  <1>9. Searched'
    <2>1. ASSUME NEW r \in deletions, NEW l \in Lessons,
                 r.st = "found", r.ex \in Refs(saved'[l].pages)
          PROVE  r.ex \in Refs(saved[l].pages) \/ l \in r.lessons \/ <<l, r.ex>> \in overtaken'
      <3>1. CASE l = s.lesson /\ "content" \in s.writes /\ r.ex \in Refs(s.doc.pages)
        BY <1>2, <2>1, <3>1 DEF Missed
      <3> QED
        BY <1>6, <2>1, <3>1
    <2> QED
      BY <1>1, <1>3, <2>1, SearchedMore DEF Dangling
  <1> QED
    BY <1>7, <1>8, <1>9 DEF Dangling

\* A creation reads the lesson.
LEMMA DanglingRead ==
  ASSUME Types, Dangling, NEW c \in creations, read_lesson(c)
  PROVE  Dangling'
  <1>1. PICK r \in CreateT :
          /\ r.page = c.page /\ r.doc = saved[at[c.page]] /\ at[c.page] \in Lessons
          /\ creations' = (creations \ {c}) \cup {r}
          /\ UNCHANGED <<server, browser, saves, deletions, acts, faults, removed>>
    BY ReadIs
  <1>2. UNCHANGED <<server, at, saves, deletions>>
    BY <1>1 DEF browser
  <1>3. \A l, x : MayName(l, x)' <=> MayName(l, x)
    BY <1>2 DEF MayName, Live, server
  <1>4. ToWrite'
    <2>1. ASSUME NEW d \in creations', d.st = "read", NEW x \in Refs(d.doc.pages)
          PROVE  MayName(at[d.page], x)'
      <3>1. CASE d \in creations
        BY <1>2, <1>3, <2>1, <3>1 DEF Dangling, ToWrite
      <3>2. CASE d = r
        <4>1. x \in Refs(saved[at[c.page]].pages)
          BY <1>1, <2>1, <3>2
        <4>2. MayName(at[c.page], x)
          BY <1>1, <4>1 DEF Dangling, DanglingNeedsOverlap, MayName
        <4> QED
          BY <1>1, <1>2, <1>3, <3>2, <4>2
      <3> QED
        BY <1>1, <3>1, <3>2
    <2>2. \A u \in saves' : u.st = "checked" /\ "content" \in u.writes =>
            \A x \in Refs(u.doc.pages) : MayName(u.lesson, x)'
      BY <1>2, <1>3 DEF Dangling, ToWrite
    <2> QED
      BY <2>1, <2>2 DEF ToWrite
  <1>5. DanglingNeedsOverlap' /\ Searched'
    BY <1>2 DEF server, Dangling, DanglingNeedsOverlap, Searched, Live, Unborn
  <1> QED
    BY <1>4, <1>5 DEF Dangling

\* A creation writes the lesson.
LEMMA DanglingCreated ==
  ASSUME Types, Dangling, NEW c \in creations, create_exercise(c)
  PROVE  Dangling'
  <1>1. PICK x, r :
          /\ c.page \in Editors => c.st = "read"
          /\ x \in Unborn /\ x \in Exercises
          /\ library' = [library EXCEPT ![x] = "live"]
          /\ r.st = "created"
          /\ creations' = (creations \ {c}) \cup {r}
          /\ Stored(With(c, x))
          /\ overtaken' = overtaken \cup
               (IF c.page \in Editors THEN Missed(at[c.page], Refs(c.doc.pages)) ELSE {})
          /\ UNCHANGED <<browser, saves, deletions, acts, faults, removed>>
    BY CreateIs
  <1>2. Live' = Live \cup {x} /\ Unborn' = Unborn \ {x}
    BY <1>1 DEF Live, Unborn, Types, TypeOK
  <1>3. overtaken \subseteq overtaken' /\ UNCHANGED <<at, saves, deletions>>
    BY <1>1 DEF browser
  <1>4. saved' = With(c, x)
    BY <1>1 DEF Stored
  <1>5. ASSUME NEW l \in Lessons, NEW y \in Refs(saved'[l].pages)
        PROVE  \/ y \in Refs(saved[l].pages) \/ y = x
               \/ c.page \in Editors /\ l = at[c.page] /\ y \in Refs(c.doc.pages)
    <2>1. CASE With(c, x)[l] = saved[l]
      BY <1>4, <1>5, <2>1
    <2>2. CASE /\ c.page \in Editors /\ l = at[c.page]
               /\ With(c, x)[l].pages = with_exercise_block(c.doc, x).pages
      <3>1. c.doc \in Docs
        BY DEF Types, TypeOK, RequestT
      <3>2. Refs(with_exercise_block(c.doc, x).pages) \subseteq Refs(c.doc.pages) \cup {x}
        BY <1>1, <3>1, RefsAfter
      <3> QED
        BY <1>4, <1>5, <2>2, <3>2
    <2> QED
      BY <1>1, <2>1, <2>2, WithRows
  <1>6. DanglingNeedsOverlap'
    <2>1. ASSUME NEW l \in Lessons, NEW y \in Refs(saved'[l].pages)
          PROVE  y \in Refs(saved[l].pages) \/ MayName(l, y)'
      <3>1. \A k, z : MayName(k, z) => MayName(k, z)'
        BY <1>2, <1>3, MayNameMore
      <3>2. MayName(l, x)'
        BY <1>2 DEF MayName
      <3>3. c.page \in Editors /\ l = at[c.page] /\ y \in Refs(c.doc.pages) => MayName(l, y)
        BY <1>1 DEF Dangling, ToWrite
      <3> QED
        BY <1>5, <2>1, <3>1, <3>2, <3>3
    <2> QED
      BY <1>2, <1>3, <2>1, StoredNames DEF Dangling
  <1>7. ToWrite'
    <2>1. \A d \in creations' : d \in creations \/ d.st # "read"
      BY <1>1
    <2> QED
      BY <1>2, <1>3, <2>1, ToWriteMore DEF Dangling
  <1>8. Searched'
    <2>1. ASSUME NEW r1 \in deletions, NEW l \in Lessons,
                 r1.st = "found", r1.ex \in Refs(saved'[l].pages)
          PROVE  r1.ex \in Refs(saved[l].pages) \/ l \in r1.lessons \/ <<l, r1.ex>> \in overtaken'
      <3>1. r1.ex # x
        BY <1>1, <2>1 DEF Dangling, Searched
      <3>2. CASE c.page \in Editors /\ l = at[c.page] /\ r1.ex \in Refs(c.doc.pages)
        BY <1>1, <2>1, <3>2 DEF Missed
      <3> QED
        BY <1>5, <2>1, <3>1, <3>2
    <2> QED
      BY <1>2, <1>3, <2>1, SearchedMore DEF Dangling
  <1> QED
    BY <1>6, <1>7, <1>8 DEF Dangling

\* A deletion looks for the lessons.
LEMMA DanglingFound ==
  ASSUME Types, Dangling, NEW r \in deletions, lessons_holding(r)
  PROVE  Dangling'
  <1>1. PICK q :
          /\ q.ex = r.ex
          /\ \/ q.st = "failed"
             \/ r.ex \in Live /\ q.lessons = {l \in Lessons : r.ex \in Refs(saved[l].pages)}
          /\ deletions' = (deletions \ {r}) \cup {q}
          /\ UNCHANGED <<server, browser, saves, creations, acts, faults, removed>>
    BY FoundIs
  <1>2. UNCHANGED <<server, at, saves, creations>>
    BY <1>1 DEF browser
  <1>3. Searched'
    <2>1. ASSUME NEW d \in deletions', d.st = "found"
          PROVE  /\ d.ex \notin Unborn
                 /\ \A l \in Lessons : d.ex \in Refs(saved[l].pages) =>
                      l \in d.lessons \/ <<l, d.ex>> \in overtaken
      <3>1. CASE d \in deletions
        BY <2>1, <3>1 DEF Dangling, Searched
      <3>2. CASE d = q
        BY <1>1, <2>1, <3>2 DEF Live, Unborn
      <3> QED
        BY <1>1, <2>1, <3>1, <3>2
    <2> QED
      BY <1>2, <2>1 DEF Searched, server, Unborn
  <1>4. DanglingNeedsOverlap' /\ ToWrite'
    BY <1>2 DEF server, Dangling, DanglingNeedsOverlap, ToWrite, MayName, Live
  <1> QED
    BY <1>3, <1>4 DEF Dangling

\* A deletion clears the lessons it has found, and commits.
LEMMA DanglingDeleted ==
  ASSUME Types, Dangling, NEW r \in deletions, delete_exercise(r)
  PROVE  Dangling'
  <1>1. /\ r.st = "found" /\ r.ex \in Exercises
        /\ deletions' = (deletions \ {r}) \cup {[r EXCEPT !.st = "done"]}
        /\ library' = [library EXCEPT ![r.ex] = "deleted"]
        /\ saved' = Cleared(r)
        /\ overtaken' = overtaken \cup Pending(r.ex)
        /\ UNCHANGED <<at, saves, creations>>
    BY DEF delete_exercise, Stored, browser, Types, TypeOK, RequestT
  <1>2. Live' = Live \ {r.ex} /\ Unborn' \subseteq Unborn
    BY <1>1 DEF Live, Unborn, Types, TypeOK
  <1>3. ASSUME NEW l \in Lessons
        PROVE  /\ Refs(saved'[l].pages) \subseteq Refs(saved[l].pages)
               /\ l \in r.lessons => r.ex \notin Refs(saved'[l].pages)
    <2>1. saved[l] \in Docs
      BY DEF Types, TypeOK
    <2>2. Refs(content_without_block(saved[l], r.ex).pages) \subseteq Refs(saved[l].pages) \ {r.ex}
      BY <2>1, RefsAfter
    <2>3. saved'[l] = IF l \in r.lessons THEN content_without_block(saved[l], r.ex) ELSE saved[l]
      BY <1>1, ClearedRows
    <2> QED
      BY <2>2, <2>3
  <1>4. ASSUME NEW l, NEW x, MayName(l, x), x # r.ex \/ <<l, x>> \in overtaken'
        PROVE  MayName(l, x)'
    BY <1>1, <1>2, <1>4 DEF MayName
  <1>5. DanglingNeedsOverlap'
    <2>1. ASSUME NEW l \in Lessons, NEW x \in Refs(saved'[l].pages)
          PROVE  MayName(l, x)'
      <3>1. x \in Refs(saved[l].pages)
        BY <1>3, <2>1
      <3>2. MayName(l, x)
        BY <3>1 DEF Dangling, DanglingNeedsOverlap, MayName
      <3>3. x = r.ex => <<l, x>> \in overtaken
        BY <1>1, <1>3, <2>1, <3>1 DEF Dangling, Searched
      <3> QED
        BY <1>1, <1>4, <3>2, <3>3
    <2> QED
      BY <2>1 DEF DanglingNeedsOverlap, MayName
  <1>6. ToWrite'
    <2>1. ASSUME NEW s \in saves, s.st = "checked", "content" \in s.writes,
                 NEW x \in Refs(s.doc.pages)
          PROVE  MayName(s.lesson, x)'
      <3>1. MayName(s.lesson, x)
        BY <2>1 DEF Dangling, ToWrite
      <3>2. x = r.ex => <<s.lesson, x>> \in Pending(r.ex)
        BY <2>1 DEF Pending
      <3> QED
        BY <1>1, <1>4, <3>1, <3>2
    <2>2. ASSUME NEW c \in creations, c.st = "read", NEW x \in Refs(c.doc.pages)
          PROVE  MayName(at[c.page], x)'
      <3>1. MayName(at[c.page], x)
        BY <2>2 DEF Dangling, ToWrite
      <3>2. x = r.ex => <<at[c.page], x>> \in Pending(r.ex)
        BY <2>2 DEF Pending
      <3>3. MayName(at[c.page], x) /\ (x # r.ex \/ <<at[c.page], x>> \in overtaken')
        BY <1>1, <3>1, <3>2
      <3> QED
        BY <1>1, <1>2, <3>3 DEF MayName
    <2> QED
      BY <1>1, <2>1, <2>2 DEF ToWrite
  <1>7. Searched'
    <2>1. [r EXCEPT !.st = "done"].st = "done"
      BY DEF Types, TypeOK, RequestT
    <2>2. \A d \in deletions' : d \in deletions \/ d.st # "found"
      BY <1>1, <2>1
    <2> QED
      BY <1>1, <1>2, <1>3, <2>2, SearchedMore DEF Dangling
  <1> QED
    BY <1>5, <1>6, <1>7 DEF Dangling

\* One step keeps the invariant.
LEMMA DanglingStep ==
  ASSUME DocsInv, Dangling, [Next]_vars
  PROVE  Dangling'
  <1>1. Types
    BY DEF DocsInv
  <1>2. CASE UNCHANGED vars \/ Quiet
    <2>1. /\ UNCHANGED <<server, at>>
          /\ \A s \in saves' : s \in saves \/ s.st # "checked"
          /\ \A c \in creations' : c \in creations \/ c.st # "read"
          /\ \A r \in deletions' : r \in deletions \/ r.st # "found"
      BY <1>2 DEF vars, server, Quiet
    <2>2. Live' = Live /\ Unborn' = Unborn /\ UNCHANGED <<saved, overtaken>>
      BY <2>1 DEF server, Live, Unborn
    <2>3. DanglingNeedsOverlap'
      BY <2>2 DEF Dangling, DanglingNeedsOverlap
    <2>4. ToWrite'
      BY <2>1, <2>2, ToWriteMore DEF Dangling
    <2>5. Searched'
      BY <2>1, <2>2, SearchedMore DEF Dangling
    <2> QED
      BY <2>3, <2>4, <2>5 DEF Dangling
  <1>3. CASE Next /\ ~Quiet
    BY <1>1, <1>3, StepKinds, DanglingCheck, DanglingUpdate, DanglingRead, DanglingCreated,
       DanglingFound, DanglingDeleted
  <1> QED
    BY <1>2, <1>3

\* A stored block names an exercise that is gone only if a write of its lesson and the
\* deletion overlapped: a save between its check and its write (update_lesson,
\* courses/service.py), or a creation between its read of the lesson and its write
\* (create_exercise, exercises/service.py), with nothing locked in between, against a
\* deletion that searches, locks and clears (lesson_blocks.py).
THEOREM DanglingHolds ==
  Spec => []DanglingNeedsOverlap
  <1>1. Init => Dangling
    <2> SUFFICES ASSUME Init PROVE Dangling
      OBVIOUS
    <2>1. saves = {} /\ creations = {} /\ deletions = {} /\ Live = FirstLibrary
      BY LibraryAssumption DEF Init, Live
    <2>2. \A l \in Lessons : Refs(saved[l].pages) \subseteq FirstLibrary
      BY StoredAssumption DEF Init
    <2> QED
      BY <2>1, <2>2 DEF Dangling, ToWrite, Searched, DanglingNeedsOverlap
  <1>2. Dangling => DanglingNeedsOverlap
    BY DEF Dangling
  <1> QED
    BY <1>1, <1>2, DocsHold, DanglingStep, PTL DEF Spec

-----------------------------------------------------------------------------
(* What is at rest is stored.                                                  *)

\* The property and what it rests on.
Resting == Rest /\ RestMeansStored

\* A save in another state.
Like(u, s) == u.page = s.page /\ u.n = s.n /\ u.lesson = s.lesson /\ u.doc = s.doc

\* Rows that are each as before or nobody's.
LEMMA StoredRows ==
  ASSUME NEW cs, Stored(cs)
  PROVE  \A l \in Lessons : (saved'[l] = saved[l] /\ last'[l] = last[l]) \/ last'[l] = None
  BY DEF Stored

\* The editors are left alone, and no save of theirs is new.
LEMMA RestSame ==
  ASSUME Types, Resting, UNCHANGED <<at, timers, newest>>,
         \A e \in Editors : phase'[e] = phase[e] /\ doc'[e] = doc[e],
         \A u \in saves' : u.page \notin Editors \/ \E s \in saves : Like(u, s),
         \A l \in Lessons : (saved'[l] = saved[l] /\ last'[l] = last[l]) \/ last'[l] = None
  PROVE  Resting'
  <1> USE DEF Resting
  <1>1. \A t \in timers : t.page \in Editors
    BY DEF Types, TypeOK, TimerT
  <1>2. /\ \A s \in saves' : s.page \in Editors => s.n \in 1 .. newest'[s.page] /\ s.lesson = at'[s.page]
        /\ \A s \in saves' :
             /\ s.page \in Editors /\ phase'[s.page] = "editing" /\ s.n = newest'[s.page]
             /\ \A t \in timers' : t.page # s.page
             => s.doc = doc'[s.page]
    BY DEF Rest, Like
  <1>3. \A e \in Editors : newest[e] \in Nat /\ at[e] \in Lessons
    BY DEF Types, TypeOK, Pages
  <1>4. ASSUME NEW l \in Lessons, NEW e \in Editors, NEW n \in Nat, last'[l] = <<e, n>>, n > 0
        PROVE  saved'[l] = saved[l] /\ last'[l] = last[l]
    <2>1. last'[l] # None
      BY <1>4 DEF None
    <2> QED
      BY <2>1
  <1>5. ASSUME NEW l \in Lessons, NEW e \in Editors, NEW n \in Nat, last'[l] = <<e, n>>
        PROVE  n <= newest'[e]
    <2>1. CASE n > 0
      BY <1>4, <1>5, <2>1 DEF Rest
    <2>2. CASE ~ (n > 0)
      BY <1>3, <2>2
    <2> QED
      BY <2>1, <2>2
  <1>6. Rest'
    BY <1>1, <1>2, <1>5 DEF Rest
  <1>7. RestMeansStored'
    <2> SUFFICES ASSUME NEW e \in Editors, phase'[e] = "editing", newest'[e] > 0,
                        last'[at'[e]] = <<e, newest'[e]>>, \A t \in timers' : t.page # e
                 PROVE  /\ saved'[at'[e]].pages = buildPagesContent(doc'[e].pages)
                        /\ saved'[at'[e]].title = doc'[e].title
      BY DEF RestMeansStored
    <2>1. saved'[at[e]] = saved[at[e]] /\ last'[at[e]] = last[at[e]]
      BY <1>3, <1>4
    <2> QED
      BY <2>1 DEF RestMeansStored
  <1> QED
    BY <1>6, <1>7

\* An editor has a document of its own, and a timer for it.
LEMMA RestArmed ==
  ASSUME Types, Resting, NEW e \in Editors, NEW d, doc' = [doc EXCEPT ![e] = d],
         triggerSave(e, d), phase' = [phase EXCEPT ![e] = "editing"],
         UNCHANGED <<server, at, newest, saves>>
  PROVE  Resting'
  <1> USE DEF Resting
  <1>1. /\ \A t \in timers : t.page \in Editors
        /\ \A s \in saves : s.page \in Pages
        /\ Editors \subseteq Pages
    BY DEF Types, TypeOK, TimerT, SaveT, Pages
  <1>2. \A p \in Pages : /\ phase'[p] = IF p = e THEN "editing" ELSE phase[p]
                         /\ doc'[p] = IF p = e THEN d ELSE doc[p]
    BY DEF Types, TypeOK
  <1>3. PICK t : t.page = e /\ t.doc = d /\ timers' = {u \in timers : u.page # e} \cup {t}
    BY DEF triggerSave
  <1>4. \A f \in Editors : phase'[f] \in {"unopened", "loading"} =>
          newest'[f] = 0 /\ \A u \in timers' : u.page # f
    BY <1>1, <1>2, <1>3 DEF Rest
  <1>5. /\ \A u, v \in timers' : u.page = v.page => u = v
        /\ \A u \in timers' : phase'[u.page] = "editing" => u.doc = doc'[u.page]
    BY <1>1, <1>2, <1>3 DEF Rest
  <1>6. \A s \in saves' :
          /\ s.page \in Editors /\ phase'[s.page] = "editing" /\ s.n = newest'[s.page]
          /\ \A u \in timers' : u.page # s.page
          => s.doc = doc'[s.page]
    BY <1>1, <1>2, <1>3 DEF Rest
  <1>7. Rest'
    BY <1>4, <1>5, <1>6 DEF Rest, server
  <1>8. RestMeansStored'
    BY <1>1, <1>2, <1>3 DEF RestMeansStored, server
  <1> QED
    BY <1>7, <1>8

\* An editor without a save or a timer opens on a page, or is left.
LEMMA RestTurned ==
  ASSUME Types, Resting, NEW e \in Editors, NEW ph, ph \notin {"unopened", "loading"},
         ph = "editing" => phase[e] = "loading",
         phase' = [phase EXCEPT ![e] = ph], NEW d, doc' = [doc EXCEPT ![e] = d],
         timers' \subseteq timers, \A t \in timers : t.page # e => t \in timers',
         UNCHANGED <<server, at, newest, saves>>
  PROVE  Resting'
  <1> USE DEF Resting
  <1>1. /\ \A t \in timers : t.page \in Editors
        /\ \A s \in saves : s.page \in Pages
        /\ Editors \subseteq Pages
    BY DEF Types, TypeOK, TimerT, SaveT, Pages
  <1>2. \A p \in Pages : /\ phase'[p] = IF p = e THEN ph ELSE phase[p]
                         /\ doc'[p] = IF p = e THEN d ELSE doc[p]
    BY DEF Types, TypeOK
  <1>3. ph = "editing" => /\ newest[e] = 0 /\ \A t \in timers : t.page # e
                          /\ \A s \in saves : s.page = e => s.n \in 1 .. newest[e]
    BY DEF Rest
  <1>4. \A f \in Editors : phase'[f] \in {"unopened", "loading"} =>
          newest'[f] = 0 /\ \A u \in timers' : u.page # f
    BY <1>1, <1>2 DEF Rest
  <1>5. /\ \A u, v \in timers' : u.page = v.page => u = v
        /\ \A u \in timers' : phase'[u.page] = "editing" => u.doc = doc'[u.page]
    BY <1>1, <1>2, <1>3 DEF Rest
  <1>6. ASSUME NEW s \in saves', s.page \in Editors, phase'[s.page] = "editing",
               s.n = newest'[s.page], \A u \in timers' : u.page # s.page
        PROVE  s.doc = doc'[s.page]
    <2>1. CASE s.page = e
      BY <1>1, <1>2, <1>3, <1>6, <2>1
    <2>2. CASE s.page # e
      BY <1>1, <1>2, <1>6, <2>2 DEF Rest
    <2> QED
      BY <2>1, <2>2
  <1>7. Rest'
    BY <1>4, <1>5, <1>6 DEF Rest, server
  <1>8. RestMeansStored'
    <2> SUFFICES ASSUME NEW f \in Editors, phase'[f] = "editing", newest[f] > 0,
                        last[at[f]] = <<f, newest[f]>>, \A t \in timers' : t.page # f
                 PROVE  /\ saved[at[f]].pages = buildPagesContent(doc'[f].pages)
                        /\ saved[at[f]].title = doc'[f].title
      BY DEF RestMeansStored, server
    <2>1. f # e
      BY <1>1, <1>2, <1>3
    <2>2. \A t \in timers : t.page # f
      BY <2>1
    <2> QED
      BY <2>1, <2>2, <1>1, <1>2 DEF RestMeansStored
  <1> QED
    BY <1>7, <1>8

\* A timer fires: the save carries the document, and is the newest.
LEMMA RestFire ==
  ASSUME Types, Resting, NEW t \in timers, Fire(t)
  PROVE  Resting'
  <1> USE DEF Resting
  <1> DEFINE e == t.page
  <1>1. /\ e \in Editors /\ newest[e] \in Nat
        /\ \A u \in timers : u.page \in Editors
        /\ \A f \in Editors : newest[f] \in Nat /\ at[f] \in Lessons
    BY DEF Types, TypeOK, TimerT, Pages
  <1>2. /\ timers' = timers \ {t}
        /\ \A f \in Editors : newest'[f] = IF f = e THEN newest[e] + 1 ELSE newest[f]
        /\ UNCHANGED <<saved, last, phase, at, doc>>
    BY <1>1 DEF Fire, server, Types, TypeOK
  <1>3. PICK s : /\ s.page = e /\ s.n = newest[e] + 1 /\ s.lesson = at[e] /\ s.doc = t.doc
                 /\ saves' = saves \cup {s}
    BY <1>1, <1>2 DEF Fire, Save
  <1>4. \A f \in Editors : phase'[f] \in {"unopened", "loading"} =>
          newest'[f] = 0 /\ \A u \in timers' : u.page # f
    BY <1>1, <1>2 DEF Rest
  <1>5. /\ \A u, v \in timers' : u.page = v.page => u = v
        /\ \A u \in timers' : phase'[u.page] = "editing" => u.doc = doc'[u.page]
    BY <1>2 DEF Rest
  <1>6. ASSUME NEW u \in saves', u.page \in Editors
        PROVE  u.n \in 1 .. newest'[u.page] /\ u.lesson = at'[u.page]
    BY <1>1, <1>2, <1>3, <1>6 DEF Rest
  <1>7. ASSUME NEW u \in saves', u.page \in Editors, phase'[u.page] = "editing",
               u.n = newest'[u.page], \A v \in timers' : v.page # u.page
        PROVE  u.doc = doc'[u.page]
    <2>1. CASE u.page = e
      <3>1. u = s
        BY <1>1, <1>2, <1>3, <1>7, <2>1 DEF Rest
      <3> QED
        BY <1>2, <1>3, <1>7, <3>1 DEF Rest
    <2>2. CASE u.page # e
      BY <1>2, <1>3, <1>7, <2>2 DEF Rest
    <2> QED
      BY <2>1, <2>2
  <1>8. \A l \in Lessons, f \in Editors, n \in Nat : last'[l] = <<f, n>> => n <= newest'[f]
    BY <1>1, <1>2 DEF Rest
  <1>9. Rest'
    BY <1>4, <1>5, <1>6, <1>7, <1>8 DEF Rest
  <1>10. RestMeansStored'
    <2> SUFFICES ASSUME NEW f \in Editors, phase[f] = "editing", newest'[f] > 0,
                        last[at[f]] = <<f, newest'[f]>>, \A u \in timers' : u.page # f
                 PROVE  /\ saved[at[f]].pages = buildPagesContent(doc[f].pages)
                        /\ saved[at[f]].title = doc[f].title
      BY <1>2 DEF RestMeansStored
    <2>1. f # e
      BY <1>1, <1>2 DEF Rest
    <2> QED
      BY <2>1, <1>2 DEF RestMeansStored
  <1> QED
    BY <1>9, <1>10

\* A save that moves on is the same save.
LEMMA MovedLike ==
  ASSUME Types, NEW s \in saves, NEW st, Moved(s, st)
  PROVE  \A u \in saves' : \E v \in saves : Like(u, v)
  <1>1. Like([s EXCEPT !.st = st], s)
    BY DEF Like, Types, TypeOK, SaveT
  <1>2. \A u \in saves : Like(u, u)
    BY DEF Like
  <1> QED
    BY <1>1, <1>2 DEF Moved

\* ... and so is one that is accepted.
LEMMA CheckLike ==
  ASSUME Types, NEW s \in saves, check_blocks(s)
  PROVE  \A u \in saves' : \E v \in saves : Like(u, v)
  <1>1. CASE Accepted(s)
    <2>1. \A u \in saves' : u \in saves \/ Like(u, s)
      BY <1>1, AcceptedIs DEF Like
    <2>2. \A u \in saves : Like(u, u)
      BY DEF Like
    <2> QED
      BY <2>1, <2>2
  <1>2. CASE Moved(s, "refused")
    BY <1>2, MovedLike
  <1> QED
    BY <1>1, <1>2 DEF check_blocks

\* The newest save is written: the row is what the editor shows.
LEMMA RestUpdate ==
  ASSUME Types, Resting, NEW s \in saves, update_lesson(s)
  PROVE  Resting'
  <1> USE DEF Resting
  <1>1. /\ s.lesson \in Lessons /\ s.page \in Pages /\ s.n \in Nat
        /\ saved' = [saved EXCEPT ![s.lesson] = Written(s)]
        /\ last' = [last EXCEPT ![s.lesson] =
                      IF Written(s) = Sent(s) THEN <<s.page, s.n>> ELSE None]
        /\ Written(s) = Sent(s) =>
             /\ Written(s).pages = buildPagesContent(s.doc.pages)
             /\ s.page \in Editors => Written(s).title = s.doc.title
        /\ UNCHANGED browser
    BY RowIs
  <1>2. \A l \in Lessons :
          /\ saved'[l] = IF l = s.lesson THEN Written(s) ELSE saved[l]
          /\ last'[l] = IF l # s.lesson THEN last[l]
                        ELSE IF Written(s) = Sent(s) THEN <<s.page, s.n>> ELSE None
    BY <1>1 DEF Types, TypeOK
  <1>3. \A u \in saves' : \E v \in saves : Like(u, v)
    BY MovedLike DEF update_lesson
  <1>8. ASSUME NEW e \in Editors, NEW n \in Nat, n > 0, last'[s.lesson] = <<e, n>>
        PROVE  Written(s) = Sent(s) /\ s.page = e /\ s.n = n
    BY <1>1, <1>2, <1>8 DEF None
  <1>4. /\ \A u \in saves' : u.page \in Editors => u.n \in 1 .. newest[u.page] /\ u.lesson = at[u.page]
        /\ \A u \in saves' :
             /\ u.page \in Editors /\ phase[u.page] = "editing" /\ u.n = newest[u.page]
             /\ \A t \in timers : t.page # u.page
             => u.doc = doc[u.page]
    BY <1>3 DEF Rest, Like
  <1>5. ASSUME NEW l \in Lessons, NEW e \in Editors, NEW n \in Nat, last'[l] = <<e, n>>
        PROVE  n <= newest[e]
    <2>1. CASE l = s.lesson
      <3>1. newest[e] \in Nat
        BY DEF Types, TypeOK
      <3>2. CASE n > 0
        <4>1. s.page = e /\ s.n = n
          BY <1>5, <1>8, <2>1, <3>2
        <4> QED
          BY <3>1, <4>1 DEF Rest
      <3> QED
        BY <3>1, <3>2
    <2>2. CASE l # s.lesson
      BY <1>2, <1>5, <2>2 DEF Rest
    <2> QED
      BY <2>1, <2>2
  <1>6. Rest'
    BY <1>1, <1>4, <1>5 DEF Rest, browser
  <1>7. RestMeansStored'
    <2> SUFFICES ASSUME NEW e \in Editors, phase[e] = "editing", newest[e] > 0,
                        last'[at[e]] = <<e, newest[e]>>, \A t \in timers : t.page # e
                 PROVE  /\ saved'[at[e]].pages = buildPagesContent(doc[e].pages)
                        /\ saved'[at[e]].title = doc[e].title
      BY <1>1 DEF RestMeansStored, browser
    <2>0. at[e] \in Lessons /\ newest[e] \in Nat
      BY DEF Types, TypeOK, Pages
    <2>1. CASE at[e] = s.lesson
      <3>1. Written(s) = Sent(s) /\ s.page = e /\ s.n = newest[e]
        BY <1>8, <2>0, <2>1
      <3>2. s.doc = doc[e]
        BY <3>1 DEF Rest
      <3> QED
        BY <1>1, <1>2, <2>0, <2>1, <3>1, <3>2
    <2>2. CASE at[e] # s.lesson
      BY <1>2, <2>0, <2>2 DEF RestMeansStored
    <2> QED
      BY <2>1, <2>2
  <1> QED
    BY <1>6, <1>7

\* The opening of an editor, its work, its answers, the panel and the server.
LEMMA RestOpening ==
  ASSUME Types, Resting, NEW e \in Editors, Opening(e)
  PROVE  Resting'
  <1>0. /\ e \in Pages
        /\ doc = [doc EXCEPT ![e] = doc[e]]
        /\ \A u \in saves : Like(u, u)
    BY DEF Types, TypeOK, Pages, Like
  <1>1. CASE Open(e)
    <2>1. /\ phase[e] = "unopened" /\ phase' = [phase EXCEPT ![e] = "loading"]
          /\ UNCHANGED <<saved, last, saves, at, doc, timers, newest>>
      BY <1>1 DEF Open, server, requests
    <2>2. \A p \in Pages : phase'[p] = IF p = e THEN "loading" ELSE phase[p]
      BY <2>1 DEF Types, TypeOK
    <2>3. \A p \in Pages : phase'[p] = "editing" <=> phase[p] = "editing"
      BY <2>1, <2>2
    <2>4. (\A t \in timers : t.page \in Pages) /\ (\A s \in saves : s.page \in Pages)
      BY DEF Types, TypeOK, TimerT, SaveT, Pages
    <2>5. \A f \in Editors : phase'[f] \in {"unopened", "loading"} =>
            newest'[f] = 0 /\ \A t \in timers' : t.page # f
      BY <2>1, <2>2 DEF Resting, Rest, Pages
    <2>6. Rest'
      BY <2>1, <2>3, <2>4, <2>5 DEF Resting, Rest
    <2>7. RestMeansStored'
      BY <2>1, <2>3 DEF Resting, RestMeansStored, Pages
    <2> QED
      BY <2>6, <2>7 DEF Resting
  <1>2. CASE GetLesson(e) \/ GetExercises(e)
    BY <1>0, <1>2, RestSame DEF GetLesson, GetExercises, server, requests
  <1>3. CASE Loaded(e) /\ at[e] \in Legacy
    <2>1. /\ phase' = [phase EXCEPT ![e] = "legacy"]
          /\ UNCHANGED <<server, at, newest, saves, doc, timers>>
      BY <1>3 DEF Loaded, requests
    <2> QED
      BY <1>0, <2>1, RestTurned
  <1>4. CASE Loaded(e) /\ at[e] \notin Legacy
    <2>1. PICK d : /\ phase' = [phase EXCEPT ![e] = "editing"]
                   /\ doc' = [doc EXCEPT ![e] = d] /\ triggerSave(e, d)
                   /\ UNCHANGED <<server, at, newest, saves>>
      BY <1>4 DEF Loaded, requests
    <2> QED
      BY <2>1, RestArmed
  <1>5. CASE LoadFails(e)
    <2>1. PICK d : /\ phase' = [phase EXCEPT ![e] = "editing"] /\ phase[e] = "loading"
                   /\ doc' = [doc EXCEPT ![e] = d]
                   /\ UNCHANGED <<server, at, newest, saves, timers>>
      BY <1>5 DEF LoadFails, requests
    <2> QED
      BY <2>1, RestTurned
  <1> QED
    BY <1>1, <1>2, <1>3, <1>4, <1>5 DEF Opening

LEMMA RestEditor ==
  ASSUME Types, Resting, NEW e \in Editors,
         Typing(e) \/ createAndAttachExercise(e) \/ Leave(e)
         \/ \E b \in Blocks(Ps(e)) : Discard(e, b)
  PROVE  Resting'
  <1>0. /\ e \in Pages /\ \A u \in saves : Like(u, u)
        /\ phase[e] = "editing" => phase = [phase EXCEPT ![e] = "editing"]
    BY DEF Types, TypeOK, Pages, Like
  <1>1. CASE Typing(e)
    <2>1. PICK ti, qs, gone : ti \in Int /\ Edit(e, ti, qs, gone) /\ Op(e, qs, gone)
      BY <1>1, TypingIs
    <2>2. PICK d : /\ phase[e] = "editing" /\ doc' = [doc EXCEPT ![e] = d] /\ triggerSave(e, d)
                   /\ UNCHANGED <<server, phase, at, newest, saves>>
      BY <2>1, EditIs DEF requests
    <2> QED
      BY <1>0, <2>2, RestArmed
  <1>2. CASE createAndAttachExercise(e)
    BY <1>0, <1>2, RestSame DEF createAndAttachExercise, server, browser
  <1>3. ASSUME NEW b \in Blocks(Ps(e)), Discard(e, b) PROVE Resting'
    BY <1>0, <1>3, RestSame DEF Discard, server, browser
  <1>4. CASE Leave(e)
    <2>1. /\ phase' = [phase EXCEPT ![e] = "left"] /\ doc' = [doc EXCEPT ![e] = NoDoc]
          /\ timers' \subseteq timers /\ \A t \in timers : t.page # e => t \in timers'
          /\ UNCHANGED <<server, at, newest, saves>>
      BY <1>4 DEF Leave, requests
    <2> QED
      BY <2>1, RestTurned
  <1> QED
    BY <1>1, <1>2, <1>3, <1>4

LEMMA RestAnswers ==
  ASSUME Types, Resting,
         (\E c \in creations : Attach(c)) \/ (\E r \in deletions : DeleteAnswered(r))
  PROVE  Resting'
  <1>0. \A u \in saves : Like(u, u)
    BY DEF Like
  <1>1. ASSUME NEW e \in Editors, phase[e] = "editing", NEW d, doc' = [doc EXCEPT ![e] = d],
               triggerSave(e, d), UNCHANGED <<server, phase, at, newest, saves>>
        PROVE  Resting'
    <2>1. phase' = [phase EXCEPT ![e] = "editing"]
      BY <1>1 DEF Types, TypeOK
    <2> QED
      BY <1>1, <2>1, RestArmed
  <1>2. ASSUME UNCHANGED <<server, phase, at, newest, saves, doc, timers>> PROVE Resting'
    BY <1>0, <1>2, RestSame DEF server
  <1>3. ASSUME NEW c \in creations, Attach(c) PROVE Resting'
    <2>1. c.page \in Editors /\ UNCHANGED <<server, phase, at, newest, saves>>
      BY <1>3 DEF Attach
    <2>2. CASE phase[c.page] = "editing"
      <3>1. PICK d : doc' = [doc EXCEPT ![c.page] = d] /\ triggerSave(c.page, d)
        BY <1>3, <2>2 DEF Attach
      <3> QED
        BY <1>1, <2>1, <2>2, <3>1
    <2>3. CASE phase[c.page] # "editing"
      BY <1>2, <1>3, <2>1, <2>3 DEF Attach
    <2> QED
      BY <2>2, <2>3
  <1>4. ASSUME NEW r \in deletions, DeleteAnswered(r) PROVE Resting'
    <2>1. UNCHANGED <<server, phase, at, newest, saves>>
      BY <1>4 DEF DeleteAnswered
    <2>2. CASE r.page \in Editors /\ phase[r.page] = "editing"
      <3>1. PICK d : doc' = [doc EXCEPT ![r.page] = d] /\ triggerSave(r.page, d)
        BY <1>4, <2>2 DEF DeleteAnswered
      <3> QED
        BY <1>1, <2>1, <2>2, <3>1
    <2>3. CASE ~(r.page \in Editors /\ phase[r.page] = "editing")
      BY <1>2, <1>4, <2>1, <2>3 DEF DeleteAnswered
    <2> QED
      BY <2>2, <2>3
  <1> QED
    BY <1>3, <1>4

LEMMA RestPanel ==
  ASSUME Types, Resting,
         \/ \E p \in Panels : fetchCourse(p) \/ add(p) \/ placeExistingInPage(p)
         \/ \E c \in creations : addExerciseToPage(c)
         \/ \E s \in saves : check_blocks(s) \/ Saved(s) \/ onChanged(s) \/ SaveLost(s)
  PROVE  Resting'
  <1>0. /\ \A u \in saves : Like(u, u)
        /\ \A p \in Panels : p \in Pages /\ p \notin Editors
        /\ \A q, n, d, held : Save(q, n, d, held).page = q
    BY PanelHeld DEF Like, Save
  <1>1. ASSUME NEW p \in Panels, fetchCourse(p) PROVE Resting'
    <2>1. \A e \in Editors : phase'[e] = phase[e] /\ doc'[e] = doc[e]
      BY <1>0, <1>1 DEF fetchCourse, Types, TypeOK, Pages
    <2> QED
      BY <1>0, <1>1, <2>1, RestSame DEF fetchCourse, server, requests
  <1>2. ASSUME NEW p \in Panels, add(p) PROVE Resting'
    BY <1>0, <1>2, RestSame DEF add, server, browser
  <1>3. ASSUME NEW p \in Panels, placeExistingInPage(p) PROVE Resting'
    <2>1. \A e \in Editors : phase'[e] = phase[e]
      BY <1>0, <1>3 DEF placeExistingInPage, Types, TypeOK, Pages
    <2>2. \A u \in saves' : u.page = p \/ u \in saves
      BY <1>0, <1>3 DEF placeExistingInPage
    <2>3. UNCHANGED <<server, at, timers, newest, doc>>
      BY <1>3 DEF placeExistingInPage
    <2> QED
      BY <1>0, <2>1, <2>2, <2>3, RestSame DEF server
  <1>4. ASSUME NEW c \in creations, addExerciseToPage(c) PROVE Resting'
    <2>1. \A u \in saves' : u.page = c.page \/ u \in saves
      BY <1>0, <1>4 DEF addExerciseToPage
    <2>2. c.page \notin Editors /\ UNCHANGED <<server, browser>>
      BY <1>0, <1>4 DEF addExerciseToPage
    <2> QED
      BY <1>0, <2>1, <2>2, RestSame DEF server, browser
  <1>5. ASSUME NEW s \in saves, check_blocks(s) \/ Saved(s) \/ onChanged(s) \/ SaveLost(s)
        PROVE  Resting'
    <2>1. \A u \in saves' : \E v \in saves : Like(u, v)
      BY <1>0, <1>5, CheckLike, MovedLike DEF Saved, onChanged, SaveLost
    <2>2. UNCHANGED <<server, at, timers, newest, doc>>
      BY <1>5 DEF check_blocks, Saved, onChanged, SaveLost, browser
    <2>3. \A e \in Editors : phase'[e] = phase[e]
      <3>1. CASE onChanged(s)
        BY <1>0, <3>1 DEF onChanged, Types, TypeOK, Pages
      <3>2. CASE ~ onChanged(s)
        BY <1>5, <3>2 DEF check_blocks, Saved, SaveLost, browser
      <3> QED
        BY <3>1, <3>2
    <2> QED
      BY <2>1, <2>2, <2>3, RestSame DEF server
  <1> QED
    BY <1>1, <1>2, <1>3, <1>4, <1>5

LEMMA RestServer ==
  ASSUME Types, Resting,
         \/ \E c \in creations : read_lesson(c) \/ create_exercise(c) \/ CreateLost(c)
         \/ \E r \in deletions : lessons_holding(r) \/ delete_exercise(r) \/ DeleteLost(r)
         \/ LibraryDelete
  PROVE  Resting'
  <1>0. \A u \in saves : Like(u, u)
    BY DEF Like
  <1>1. UNCHANGED <<browser, saves>>
    BY DEF read_lesson, create_exercise, CreateLost, lessons_holding, delete_exercise,
           DeleteLost, LibraryDelete
  <1>2. UNCHANGED server \/ \E cs : Stored(cs)
    BY DEF read_lesson, create_exercise, CreateLost, lessons_holding, delete_exercise,
           DeleteLost, LibraryDelete
  <1>3. \A l \in Lessons : (saved'[l] = saved[l] /\ last'[l] = last[l]) \/ last'[l] = None
    BY <1>2, StoredRows DEF server
  <1> QED
    BY <1>0, <1>1, <1>3, RestSame DEF browser

\* A step keeps it.
LEMMA RestStep ==
  ASSUME Types, Resting, [Next]_vars
  PROVE  Resting'
  <1>1. CASE UNCHANGED vars
    BY <1>1 DEF vars, Resting, Rest, RestMeansStored
  <1>2. CASE Next
    BY <1>2, StepIs, RestOpening, RestEditor, RestPanel, RestFire, RestUpdate, RestAnswers,
       RestServer DEF Step
  <1> QED
    BY <1>1, <1>2

\* At the start nothing is saved.
LEMMA RestInit ==
  Init => Resting
  <1> SUFFICES ASSUME Init PROVE Resting
    OBVIOUS
  <1>1. /\ timers = {} /\ saves = {}
        /\ \A e \in Editors : newest[e] = 0 /\ phase[e] = "unopened"
        /\ \A l \in Lessons : last[l] = None
    BY DEF Init, Pages
  <1>2. \A e \in Editors, n \in Nat : None = <<e, n>> => n = 0
    BY DEF None
  <1> QED
    BY <1>1, <1>2 DEF Resting, Rest, RestMeansStored

\* When the newest save of an editor was the last to write its lesson and no timer is armed,
\* the row is what the editor shows: every change of the document, that of an answer
\* included, arms the autosave (triggerSave, edit/page.tsx), for any number of editors,
\* panels, losses and acts.
THEOREM RestHolds ==
  Spec => []RestMeansStored
  <1>1. Init => Resting
    BY RestInit
  <1>2. Resting => RestMeansStored
    BY DEF Resting
  <1>3. DocsInv => Types
    BY DEF DocsInv
  <1> QED
    BY <1>1, <1>2, <1>3, DocsHold, RestStep, PTL DEF Spec

-----------------------------------------------------------------------------
(* What a page has held is saved or was taken away.                            *)

\* Nothing new is held, and no document changes.
LEMMA HoldsSame ==
  ASSUME Types, Holds, removed \subseteq removed', timers' \subseteq timers,
         \A e \in Editors : doc'[e] = doc[e] /\ seen'[e] = seen[e]
           /\ (phase'[e] \in {"unopened", "loading", "editing"}
                 => phase'[e] = phase[e] \/ (phase'[e] = "loading" /\ phase[e] = "unopened")),
         \A s \in saves' : s.seen \subseteq Ids(s.doc.pages) \cup removed
  PROVE  Holds'
  <1>1. \A e \in Editors : /\ phase'[e] = "editing" => seen'[e] \subseteq Ids(doc'[e].pages) \cup removed'
                           /\ phase'[e] \in {"unopened", "loading"} => seen'[e] = {}
    BY DEF Holds
  <1>2. \A t \in timers' : t.seen \subseteq Ids(t.doc.pages) \cup removed'
    BY DEF Holds
  <1> QED
    BY <1>1, <1>2 DEF Holds

\* An editor has a document of its own, with what it holds.
LEMMA HoldsArmed ==
  ASSUME Types, Holds, NEW e \in Editors, NEW d, doc' = [doc EXCEPT ![e] = d],
         phase' = [phase EXCEPT ![e] = "editing"], removed \subseteq removed',
         triggerSave(e, d) \/ UNCHANGED timers, NEW held, seen' = [seen EXCEPT ![e] = held],
         held \subseteq Ids(d.pages) \cup removed',
         UNCHANGED saves
  PROVE  Holds'
  <1>1. \A p \in Pages : /\ phase'[p] = IF p = e THEN "editing" ELSE phase[p]
                         /\ doc'[p] = IF p = e THEN d ELSE doc[p]
                         /\ seen'[p] = IF p = e THEN held ELSE seen[p]
    BY DEF Types, TypeOK
  <1>2. e \in Pages /\ Editors \subseteq Pages
    BY DEF Pages
  <1>3. \A f \in Editors : /\ phase'[f] = "editing" => seen'[f] \subseteq Ids(doc'[f].pages) \cup removed'
                           /\ phase'[f] \in {"unopened", "loading"} => seen'[f] = {}
    BY <1>1, <1>2 DEF Holds
  <1>4. \A t \in timers' : t \in timers \/ (t.doc = d /\ t.seen = held)
    BY <1>1, <1>2 DEF triggerSave
  <1>5. \A t \in timers' : t.seen \subseteq Ids(t.doc.pages) \cup removed'
    BY <1>4 DEF Holds
  <1> QED
    BY <1>3, <1>5 DEF Holds

\* The opening of an editor, its work, its answers, the panel and the rest.
LEMMA HoldsOpening ==
  ASSUME Types, Holds, NEW e \in Editors, Opening(e)
  PROVE  Holds'
  <1>0. e \in Pages
    BY DEF Pages
  <1>1. CASE Open(e) \/ GetLesson(e) \/ GetExercises(e) \/ (Loaded(e) /\ at[e] \in Legacy)
    <2>1. /\ UNCHANGED <<doc, seen, removed, timers, saves>>
          /\ \/ phase' = phase
             \/ phase[e] = "unopened" /\ phase' = [phase EXCEPT ![e] = "loading"]
             \/ phase' = [phase EXCEPT ![e] = "legacy"]
      BY <1>1 DEF Open, GetLesson, GetExercises, Loaded, requests
    <2>2. \A p \in Pages : phase'[p] \in {"unopened", "loading", "editing"}
                 => phase'[p] = phase[p] \/ (phase'[p] = "loading" /\ phase[p] = "unopened")
      BY <2>1 DEF Types, TypeOK
    <2>3. \A s \in saves' : s.seen \subseteq Ids(s.doc.pages) \cup removed
      BY <2>1 DEF Holds
    <2> QED
      BY <2>1, <2>2, <2>3, HoldsSame DEF Pages
  <1>2. CASE Loaded(e) /\ at[e] \notin Legacy
    <2> DEFINE lesson == load[e].lesson[1]
               list == load[e].list[1]
               qs == adoptDetachedExercises(extractPages(lesson), list)
               d == [lesson EXCEPT !.pages = qs]
    <2>1. load[e].lesson # <<>> /\ load[e].list # <<>>
      BY <1>2 DEF Loaded
    <2>2. lesson \in Docs /\ list \in Seq(Exercises) /\ InPosition(lesson.pages)
      BY <2>1 DEF Types, TypeOK
    <2>3. qs \in Seq(PageT)
      BY <2>2, ExtractIs, AdoptIs
    <2>4. /\ doc' = [doc EXCEPT ![e] = d] /\ triggerSave(e, d)
          /\ phase' = [phase EXCEPT ![e] = "editing"]
          /\ seen' = [seen EXCEPT ![e] = Ids(qs)]
          /\ UNCHANGED <<removed, saves>>
      BY <1>2 DEF Loaded, requests
    <2> HIDE DEF qs, lesson
    <2>5. d.pages = qs
      BY <2>2, <2>3, PagesOf
    <2> HIDE DEF d
    <2> QED
      BY <2>4, <2>5, HoldsArmed
  <1>3. CASE LoadFails(e)
    <2>1. PICK d : /\ doc' = [doc EXCEPT ![e] = d] /\ phase' = [phase EXCEPT ![e] = "editing"]
                   /\ UNCHANGED <<seen, removed, saves, timers>> /\ phase[e] = "loading"
      BY <1>3 DEF LoadFails, requests
    <2>2. seen' = [seen EXCEPT ![e] = {}]
      BY <1>0, <2>1 DEF Holds, Types, TypeOK
    <2> QED
      BY <2>1, <2>2, HoldsArmed
  <1> QED
    BY <1>1, <1>2, <1>3 DEF Opening

LEMMA HoldsEditor ==
  ASSUME Types, Holds, NEW e \in Editors,
         Typing(e) \/ createAndAttachExercise(e) \/ Leave(e)
         \/ \E b \in Blocks(Ps(e)) : Discard(e, b)
  PROVE  Holds'
  <1>0. /\ e \in Pages /\ \A s \in saves : s.seen \subseteq Ids(s.doc.pages) \cup removed
        /\ phase[e] = "editing" => phase = [phase EXCEPT ![e] = "editing"]
    BY DEF Types, TypeOK, Pages, Holds
  <1>1. CASE Typing(e)
    <2>1. PICK ti, qs, gone : ti \in Int /\ Edit(e, ti, qs, gone) /\ Op(e, qs, gone)
      BY <1>1, TypingIs
    <2>2. PICK d : /\ phase[e] = "editing" /\ doc' = [doc EXCEPT ![e] = d] /\ triggerSave(e, d)
                   /\ d.pages = qs
                   /\ seen' = [seen EXCEPT ![e] = @ \cup Ids(qs)]
                   /\ removed' = removed \cup gone
                   /\ UNCHANGED <<phase, saves>>
      BY <2>1, EditIs DEF requests
    <2>3. Ids(Ps(e)) \subseteq Ids(qs) \cup gone
      BY <2>1 DEF Op
    <2> DEFINE held == seen[e] \cup Ids(qs)
    <2>4. held \subseteq Ids(d.pages) \cup removed'
      BY <2>2, <2>3 DEF Holds, Ps
    <2>5. seen' = [seen EXCEPT ![e] = held]
      BY <2>2
    <2> HIDE DEF held
    <2> QED
      BY <1>0, <2>2, <2>4, <2>5, HoldsArmed
  <1>2. CASE createAndAttachExercise(e)
    BY <1>0, <1>2, HoldsSame DEF createAndAttachExercise, browser
  <1>3. ASSUME NEW b \in Blocks(Ps(e)), Discard(e, b) PROVE Holds'
    BY <1>0, <1>3, HoldsSame DEF Discard, browser
  <1>4. CASE Leave(e)
    <2>1. /\ phase' = [phase EXCEPT ![e] = "left"] /\ doc' = [doc EXCEPT ![e] = NoDoc]
          /\ seen' = [seen EXCEPT ![e] = {}]
          /\ timers' \subseteq timers /\ UNCHANGED <<removed, saves>>
      BY <1>4 DEF Leave, requests
    <2>2. \A p \in Pages : IF p = e THEN phase'[p] = "left"
                           ELSE phase'[p] = phase[p] /\ doc'[p] = doc[p] /\ seen'[p] = seen[p]
      BY <2>1 DEF Types, TypeOK
    <2>3. \A f \in Editors : /\ phase'[f] = "editing" => seen'[f] \subseteq Ids(doc'[f].pages) \cup removed'
                             /\ phase'[f] \in {"unopened", "loading"} => seen'[f] = {}
      BY <2>1, <2>2 DEF Holds, Pages
    <2> QED
      BY <2>1, <2>3 DEF Holds
  <1> QED
    BY <1>1, <1>2, <1>3, <1>4

LEMMA HoldsAnswers ==
  ASSUME Types, Holds,
         (\E c \in creations : Attach(c)) \/ (\E r \in deletions : DeleteAnswered(r))
  PROVE  Holds'
  <1>0. /\ \A s \in saves : s.seen \subseteq Ids(s.doc.pages) \cup removed
        /\ \A e \in Editors : /\ phase[e] = "editing" => phase = [phase EXCEPT ![e] = "editing"]
                              /\ seen = [seen EXCEPT ![e] = seen[e]]
    BY DEF Types, TypeOK, Holds
  <1>1. ASSUME UNCHANGED <<phase, doc, seen, removed, timers, saves>> PROVE Holds'
    BY <1>0, <1>1, HoldsSame
  <1>2. ASSUME NEW c \in creations, Attach(c) PROVE Holds'
    <2> DEFINE e == c.page
    <2>1. /\ e \in Editors /\ c.ex \in Exercises /\ c.block \in BlockIds
          /\ UNCHANGED <<saves, phase, removed>>
      BY <1>2 DEF Types, TypeOK, RequestT, Attach
    <2>2. CASE phase[e] = "editing"
      <3>1. PICK d \in Docs :
              /\ [doc[e] EXCEPT !.pages = SetRef(@, c.block, c.ex)] = d
              /\ Ids(d.pages) = Ids(Ps(e))
        BY <2>1, <2>2, AttachIs
      <3>2. doc' = [doc EXCEPT ![e] = d] /\ triggerSave(e, d) /\ UNCHANGED seen
        BY <1>2, <2>2, <3>1 DEF Attach
      <3>3. seen[e] \subseteq Ids(d.pages) \cup removed'
        BY <2>1, <2>2, <3>1 DEF Holds, Ps
      <3>4. phase' = [phase EXCEPT ![e] = "editing"] /\ seen' = [seen EXCEPT ![e] = seen[e]]
        BY <1>0, <2>1, <2>2, <3>2
      <3> QED
        BY <2>1, <3>2, <3>3, <3>4, HoldsArmed
    <2>3. CASE phase[e] # "editing"
      BY <1>1, <1>2, <2>1, <2>3 DEF Attach
    <2> QED
      BY <2>2, <2>3
  <1>3. ASSUME NEW r \in deletions, DeleteAnswered(r) PROVE Holds'
    <2> DEFINE e == r.page
    <2>1. r.block \in BlockIds /\ UNCHANGED <<saves, phase>>
      BY <1>3 DEF Types, TypeOK, RequestT, DeleteAnswered
    <2>2. CASE e \in Editors /\ phase[e] = "editing"
      <3>1. PICK d \in Docs :
              /\ [doc[e] EXCEPT !.pages = DropBlock(@, r.block)] = d
              /\ Op(e, d.pages, {r.block})
        BY <2>1, <2>2, DropIs
      <3>2. /\ doc' = [doc EXCEPT ![e] = d] /\ triggerSave(e, d) /\ UNCHANGED seen
            /\ removed' = removed \cup {r.block}
        BY <1>3, <2>2, <3>1 DEF DeleteAnswered
      <3>3. seen[e] \subseteq Ids(d.pages) \cup removed'
        BY <2>1, <2>2, <3>1, <3>2 DEF Holds, Ps, Op
      <3>4. phase' = [phase EXCEPT ![e] = "editing"] /\ seen' = [seen EXCEPT ![e] = seen[e]]
        BY <1>0, <2>1, <2>2, <3>2
      <3> QED
        BY <2>1, <2>2, <3>2, <3>3, <3>4, HoldsArmed
    <2>3. CASE ~(e \in Editors /\ phase[e] = "editing")
      BY <1>1, <1>3, <2>1, <2>3 DEF DeleteAnswered
    <2> QED
      BY <2>2, <2>3
  <1> QED
    BY <1>2, <1>3

\* A placed block takes no other away.
LEMMA PlacedIds ==
  ASSUME NEW d \in Docs, InPosition(d.pages), NEW i, NEW id \in BlockIds, NEW x \in Exercises
  PROVE  Ids(d.pages) \subseteq Ids(WithBlock(d, i, id, x).pages)
  <1>1. ASSUME NEW n \in Nat PROVE  \E e \in Docs : \E k \in Nat :
           /\ WithBlock(d, i, id, x) = e
           /\ Blocks(e.pages) = Blocks(d.pages) \cup {Block(id, "exercise", x, k)}
           /\ ShownOnce(d.pages) /\ Fresh(Block(id, "exercise", x, k), d.pages)
                => ShownOnce(e.pages)
    BY PlacedIs
  <1>2. PICK e \in Docs : \E k \in Nat :
           /\ WithBlock(d, i, id, x) = e
           /\ Blocks(e.pages) = Blocks(d.pages) \cup {Block(id, "exercise", x, k)}
    BY <1>1
  <1> QED
    BY <1>2 DEF Ids

LEMMA HoldsPanel ==
  ASSUME Types, Holds,
         \/ \E p \in Panels : fetchCourse(p) \/ add(p) \/ placeExistingInPage(p)
         \/ \E c \in creations : addExerciseToPage(c)
  PROVE  Holds'
  <1>0. /\ \A s \in saves : s.seen \subseteq Ids(s.doc.pages) \cup removed
        /\ \A p \in Panels : p \in Pages /\ p \notin Editors
    BY PanelHeld DEF Holds
  <1>2. ASSUME NEW p \in Panels, fetchCourse(p) PROVE Holds'
    <2>1. \A e \in Editors : phase'[e] = phase[e] /\ doc'[e] = doc[e] /\ seen'[e] = seen[e]
      BY <1>0, <1>2 DEF fetchCourse, Types, TypeOK, Pages
    <2> QED
      BY <1>0, <1>2, <2>1, HoldsSame DEF fetchCourse, requests
  <1>3. ASSUME NEW p \in Panels, add(p) PROVE Holds'
    BY <1>0, <1>3, HoldsSame DEF add, browser
  <1>4. ASSUME NEW p \in Panels, placeExistingInPage(p) PROVE Holds'
    <2>1. \A e \in Editors : phase'[e] = phase[e]
      BY <1>0, <1>4 DEF placeExistingInPage, Types, TypeOK, Pages
    <2>2. PICK x, i :
            /\ x \in Live
            /\ \/ UNCHANGED saves
               \/ saves' = saves \cup {Save(p, New, WithBlock(doc[p], i, <<"block", New>>, x),
                                            Ids(doc[p].pages))}
      BY <1>4 DEF placeExistingInPage, WithBlock
    <2>3. /\ doc[p] \in Docs /\ InPosition(doc[p].pages) /\ <<"block", New>> \in BlockIds
          /\ x \in Exercises
      BY <2>2, PanelHeld DEF Live
    <2>4. Ids(doc[p].pages) \subseteq Ids(WithBlock(doc[p], i, <<"block", New>>, x).pages)
      BY <2>3, PlacedIds
    <2>5. \A s \in saves' : s.seen \subseteq Ids(s.doc.pages) \cup removed
      BY <1>0, <2>2, <2>4 DEF Save
    <2>6. UNCHANGED <<doc, seen, removed, timers>>
      BY <1>4 DEF placeExistingInPage
    <2> QED
      BY <2>1, <2>5, <2>6, HoldsSame
  <1>5. ASSUME NEW c \in creations, addExerciseToPage(c) PROVE Holds'
    <2>1. saves' = saves \cup {Save(c.page, c.n, WithBlock(c.doc, c.index, c.block, c.ex),
                                    Ids(c.doc.pages))}
      BY <1>5 DEF addExerciseToPage, WithBlock
    <2>2. /\ c.doc \in Docs /\ InPosition(c.doc.pages) /\ c.block \in BlockIds
          /\ c.ex \in Exercises
      BY <1>5 DEF Types, TypeOK, RequestT, addExerciseToPage
    <2>3. Ids(c.doc.pages) \subseteq Ids(WithBlock(c.doc, c.index, c.block, c.ex).pages)
      BY <2>2, PlacedIds
    <2>4. \A s \in saves' : s.seen \subseteq Ids(s.doc.pages) \cup removed
      BY <1>0, <2>1, <2>3 DEF Save
    <2> QED
      BY <1>5, <2>4, HoldsSame DEF addExerciseToPage, browser
  <1> QED
    BY <1>2, <1>3, <1>4, <1>5

LEMMA HoldsRest ==
  ASSUME Types, Holds,
         \/ \E t \in timers : Fire(t)
         \/ \E s \in saves :
              update_lesson(s) \/ check_blocks(s) \/ Saved(s) \/ onChanged(s) \/ SaveLost(s)
         \/ \E c \in creations : read_lesson(c) \/ create_exercise(c) \/ CreateLost(c)
         \/ \E r \in deletions : lessons_holding(r) \/ delete_exercise(r) \/ DeleteLost(r)
         \/ LibraryDelete
  PROVE  Holds'
  <1>0. /\ \A s \in saves : s.seen \subseteq Ids(s.doc.pages) \cup removed
        /\ \A t \in timers : t.seen \subseteq Ids(t.doc.pages) \cup removed
    BY DEF Holds
  <1>1. ASSUME NEW t \in timers, Fire(t) PROVE Holds'
    <2>1. \A s \in saves' : s.seen \subseteq Ids(s.doc.pages) \cup removed
      BY <1>0, <1>1 DEF Fire, Save
    <2> QED
      BY <1>1, <2>1, HoldsSame DEF Fire
  <1>2. ASSUME NEW s \in saves,
               update_lesson(s) \/ check_blocks(s) \/ Saved(s) \/ onChanged(s) \/ SaveLost(s)
        PROVE  Holds'
    <2>1. \A st : [s EXCEPT !.st = st].doc = s.doc /\ [s EXCEPT !.st = st].seen = s.seen
      BY DEF Types, TypeOK, SaveT
    <2>2. \A st : Moved(s, st) => \A u \in saves' : u.seen \subseteq Ids(u.doc.pages) \cup removed
      BY <1>0, <2>1 DEF Moved
    <2>5. Accepted(s) => \A u \in saves' : u.seen \subseteq Ids(u.doc.pages) \cup removed
      BY <1>0, AcceptedIs
    <2>3. /\ \A u \in saves' : u.seen \subseteq Ids(u.doc.pages) \cup removed
          /\ UNCHANGED <<doc, seen, removed, timers>>
      BY <1>0, <1>2, <2>2, <2>5
         DEF update_lesson, check_blocks, Saved, onChanged, SaveLost, browser
    <2>4. \A e \in Editors : phase'[e] = phase[e]
      <3>1. CASE onChanged(s)
        BY <3>1, PanelHeld DEF onChanged, Types, TypeOK, Pages
      <3>2. CASE ~ onChanged(s)
        BY <1>2, <3>2 DEF update_lesson, check_blocks, Saved, SaveLost, browser
      <3> QED
        BY <3>1, <3>2
    <2> QED
      BY <2>3, <2>4, HoldsSame
  <1>3. ASSUME UNCHANGED <<browser, saves, removed>> PROVE Holds'
    BY <1>0, <1>3, HoldsSame DEF browser
  <1> QED
    BY <1>1, <1>2, <1>3 DEF read_lesson, create_exercise, CreateLost, lessons_holding,
                           delete_exercise, DeleteLost, LibraryDelete

\* A step keeps it.
LEMMA HoldsStep ==
  ASSUME Types, Holds, Next
  PROVE  Holds'
  BY StepIs, HoldsOpening, HoldsEditor, HoldsAnswers, HoldsPanel, HoldsRest DEF Step

-----------------------------------------------------------------------------
(* One save to a number, one request to a panel.                               *)

\* The same save, or creation, in another state.
LEMMA OneMoved ==
  ASSUME Types, OneSave, NEW s \in saves, NEW st, Moved(s, st), UNCHANGED creations
  PROVE  OneSave'
  <1> DEFINE w == [s EXCEPT !.st = st]
  <1>1. w.page = s.page /\ w.n = s.n
    BY DEF Types, TypeOK, SaveT
  <1>2. saves' = (saves \ {s}) \cup {w}
    BY DEF Moved
  <1> HIDE DEF w
  <1>3. \A u, v \in saves' : u.page = v.page /\ (u.page \in Panels \/ u.n = v.n) => u = v
    BY <1>1, <1>2 DEF OneSave
  <1>4. \A c \in creations, u \in saves' : c.page = u.page => c.page \in Editors
    BY <1>1, <1>2 DEF OneSave
  <1> QED
    BY <1>3, <1>4 DEF OneSave

LEMMA OneAccepted ==
  ASSUME Types, OneSave, NEW s \in saves, Accepted(s), UNCHANGED creations
  PROVE  OneSave'
  <1> DEFINE W == Dirty(s)
             w == [s EXCEPT !.st = "checked", !.writes = W]
  <1>1. saves' = (saves \ {s}) \cup {w}
    BY DEF Accepted
  <1> HIDE DEF W
  <1>2. w.page = s.page /\ w.n = s.n
    BY DEF Types, TypeOK, SaveT
  <1> HIDE DEF w
  <1>3. \A u, v \in saves' : u.page = v.page /\ (u.page \in Panels \/ u.n = v.n) => u = v
    BY <1>1, <1>2 DEF OneSave
  <1>4. \A c \in creations, u \in saves' : c.page = u.page => c.page \in Editors
    BY <1>1, <1>2 DEF OneSave
  <1> QED
    BY <1>3, <1>4 DEF OneSave

\* A step keeps it: a new save of an editor has a new number, and a panel that is busy
\* sends nothing.
LEMMA OneStep ==
  ASSUME Types, Resting, OneSave, Next
  PROVE  OneSave'
  <1>1. ASSUME saves' \subseteq saves, creations' \subseteq creations PROVE OneSave'
    BY <1>1 DEF OneSave
  <1>2. ASSUME NEW e \in Editors, Opening(e) \/ Leave(e) \/ \E b \in Blocks(Ps(e)) : Discard(e, b)
        PROVE  OneSave'
    BY <1>1, <1>2 DEF Opening, Open, GetLesson, GetExercises, Loaded, LoadFails, Leave, Discard,
                      requests
  <1>3. ASSUME NEW e \in Editors, Typing(e) PROVE OneSave'
    <2>1. \E ti, qs, gone : ti \in Int /\ Edit(e, ti, qs, gone)
      BY <1>3, TypingIs
    <2> QED
      BY <1>1, <2>1 DEF Edit, requests
  <1>4. ASSUME NEW e \in Editors, createAndAttachExercise(e) PROVE OneSave'
    <2>1. PICK r : r.page = e /\ creations' = creations \cup {r}
      BY <1>4 DEF createAndAttachExercise, Request
    <2>2. e \notin Panels /\ UNCHANGED saves
      BY <1>4, PagesAssumption DEF createAndAttachExercise
    <2> QED
      BY <2>1, <2>2 DEF OneSave
  <1>5. ASSUME NEW p \in Panels, fetchCourse(p) PROVE OneSave'
    BY <1>1, <1>5 DEF fetchCourse, requests
  <1>6. ASSUME NEW p \in Panels, add(p) PROVE OneSave'
    <2>1. PICK r : r.page = p /\ creations' = creations \cup {r}
      BY <1>6 DEF add, Request
    <2>2. ~ busy(p) /\ UNCHANGED saves
      BY <1>6 DEF add, Ready
    <2> QED
      BY <2>1, <2>2 DEF OneSave, busy
  <1>7. ASSUME NEW p \in Panels, placeExistingInPage(p) PROVE OneSave'
    <2>0. \A n, d, held : Save(p, n, d, held).page = p
      BY DEF Save
    <2>1. UNCHANGED saves \/ \E s : s.page = p /\ saves' = saves \cup {s}
      BY <1>7, <2>0 DEF placeExistingInPage
    <2>2. ~ busy(p) /\ UNCHANGED creations
      BY <1>7 DEF placeExistingInPage, Ready
    <2> QED
      BY <2>1, <2>2 DEF OneSave, busy
  <1>8. ASSUME NEW t \in timers, Fire(t) PROVE OneSave'
    <2>1. t.page \in Editors /\ newest[t.page] \in Nat /\ t.page \notin Panels
      BY PagesAssumption DEF Types, TypeOK, TimerT
    <2>2. newest'[t.page] = newest[t.page] + 1 /\ UNCHANGED creations
      BY <2>1, <1>8 DEF Fire, Types, TypeOK
    <2>3. PICK s : s.page = t.page /\ s.n = newest[t.page] + 1 /\ saves' = saves \cup {s}
      BY <1>8, <2>2 DEF Fire, Save
    <2>4. \A u \in saves : u.page = t.page => u.n # s.n
      BY <2>1, <2>3 DEF Resting, Rest
    <2> QED
      BY <2>1, <2>2, <2>3, <2>4 DEF OneSave
  <1>9. ASSUME NEW s \in saves,
               update_lesson(s) \/ check_blocks(s) \/ Saved(s) \/ onChanged(s) \/ SaveLost(s)
        PROVE  OneSave'
    BY <1>1, <1>9, OneMoved, OneAccepted
       DEF update_lesson, check_blocks, Saved, onChanged, SaveLost
  <1>10. ASSUME NEW c \in creations, read_lesson(c) \/ create_exercise(c) PROVE OneSave'
    <2>1. PICK r : r.page = c.page /\ creations' = (creations \ {c}) \cup {r} /\ UNCHANGED saves
      BY <1>10, ReadIs, CreateIs
    <2>2. \A a, d \in creations' : a.page = d.page /\ a.page \in Panels => a = d
      BY <2>1 DEF OneSave
    <2>3. \A a \in creations', s \in saves : a.page = s.page => a.page \in Editors
      BY <2>1 DEF OneSave
    <2> QED
      BY <2>1, <2>2, <2>3 DEF OneSave
  <1>11. ASSUME NEW c \in creations, Attach(c) \/ CreateLost(c) PROVE OneSave'
    BY <1>1, <1>11 DEF Attach, CreateLost
  <1>12. ASSUME NEW c \in creations, addExerciseToPage(c) PROVE OneSave'
    <2>1. PICK s : s.page = c.page /\ saves' = saves \cup {s}
      BY <1>12 DEF addExerciseToPage, Save
    <2>2. c.page \in Panels /\ c.page \notin Editors /\ creations' = creations \ {c}
      BY <1>12, PagesAssumption DEF addExerciseToPage
    <2>3. \A u \in saves : u.page # c.page
      BY <2>2 DEF OneSave
    <2>4. \A a \in creations' : a.page # c.page
      BY <2>2 DEF OneSave
    <2> QED
      BY <2>1, <2>2, <2>3, <2>4 DEF OneSave
  <1>13. ASSUME NEW r \in deletions,
                DeleteAnswered(r) \/ lessons_holding(r) \/ delete_exercise(r) \/ DeleteLost(r)
         PROVE  OneSave'
    BY <1>1, <1>13 DEF DeleteAnswered, lessons_holding, delete_exercise, DeleteLost
  <1>14. CASE LibraryDelete
    BY <1>1, <1>14 DEF LibraryDelete
  <1> QED
    BY <1>2, <1>3, <1>4, <1>5, <1>6, <1>7, <1>8, <1>9, <1>10, <1>11, <1>12, <1>13, <1>14,
       StepIs DEF Step

\* The write of a save, which no other step can be taken for, keeps what the page held.
LEMMA KeepsWhatItSaw ==
  ASSUME Types, SoundDocs, Holds, OneSave, [Next]_vars,
         NEW s \in saves, s.st = "checked", [s EXCEPT !.st = "written"] \in saves'
  PROVE  Ids(saved[s.lesson].pages) \cap s.seen \subseteq Ids(saved'[s.lesson].pages) \cup removed
  <1> DEFINE w == [s EXCEPT !.st = "written"]
  <1>1. w.page = s.page /\ w.n = s.n /\ w.st = "written" /\ w.doc = s.doc /\ w.seen = s.seen
    BY DEF Types, TypeOK, SaveT
  <1>2. w \notin saves
    BY <1>1 DEF OneSave
  <1>3. w \in saves'
    OBVIOUS
  <1>4. Next
    BY <1>2, <1>3 DEF vars
  <1>5. ASSUME NEW u \in saves, update_lesson(u)
        PROVE  u = s
    <2>1. Moved(u, "written")
      BY <1>5 DEF update_lesson
    <2>2. w = [u EXCEPT !.st = "written"]
      BY <1>2, <1>3, <2>1 DEF Moved
    <2>3. w.page = u.page /\ w.n = u.n
      BY <2>2 DEF Types, TypeOK, SaveT
    <2> QED
      BY <1>1, <2>3 DEF OneSave
  <1>6. ASSUME update_lesson(s)
        PROVE  Ids(saved[s.lesson].pages) \cap s.seen \subseteq Ids(saved'[s.lesson].pages) \cup removed
    <2>1. /\ s.lesson \in Lessons
          /\ saved' = [saved EXCEPT ![s.lesson] = Written(s)]
          /\ "content" \notin s.writes => Written(s).pages = saved[s.lesson].pages
          /\ "content" \in s.writes => PagesCome(s.doc.pages, Written(s).pages)
          /\ s.doc.pages \in Seq(PageT)
      BY <1>6, RowIs
    <2>2. saved'[s.lesson] = Written(s)
      BY <2>1 DEF Types, TypeOK
    <2>3. "content" \in s.writes => Ids(s.doc.pages) \subseteq Ids(Written(s).pages)
      BY <2>1, PagesComeFacts, CoversFacts
    <2> QED
      BY <2>1, <2>2, <2>3 DEF Holds
  <1>7. ASSUME NEW u \in saves, check_blocks(u) PROVE FALSE
    <2>1. CASE Accepted(u)
      BY <1>1, <1>2, <1>3, <2>1, AcceptedIs
    <2>2. CASE Moved(u, "refused")
      <3>1. [u EXCEPT !.st = "refused"].st = "refused"
        BY DEF Types, TypeOK, SaveT
      <3> QED
        BY <1>1, <1>2, <1>3, <2>2, <3>1 DEF Moved
    <2> QED
      BY <1>7, <2>1, <2>2 DEF check_blocks
  <1>8. ASSUME UNCHANGED saves PROVE FALSE
    BY <1>2, <1>3, <1>8
  <1>9. ASSUME Quiet PROVE FALSE
    BY <1>1, <1>2, <1>3, <1>9 DEF Quiet
  <1>10. ASSUME NEW c \in creations, read_lesson(c) \/ create_exercise(c) PROVE FALSE
    BY <1>8, <1>10 DEF read_lesson, create_exercise
  <1>11. ASSUME NEW r \in deletions, lessons_holding(r) \/ delete_exercise(r) PROVE FALSE
    BY <1>8, <1>11 DEF lessons_holding, delete_exercise
  <1> QED
    BY <1>4, <1>5, <1>6, <1>7, <1>9, <1>10, <1>11, StepKinds

\* A save takes a block out of the stored lesson only if a teacher removed it or the page
\* never held it: no conversion, no operation of the editor, no placement by the panel and
\* no write of update_lesson drops one on the way, for any lessons and any interleaving.
THEOREM SavesHold ==
  Spec => SavesKeepWhatTheySaw
  <1> DEFINE Inv == DocsInv /\ Resting /\ Holds /\ OneSave
             A == \A s \in saves :
                    (s.st = "checked" /\ [s EXCEPT !.st = "written"] \in saves')
                      => Ids(saved[s.lesson].pages) \cap s.seen
                           \subseteq Ids(saved'[s.lesson].pages) \cup removed
  <1>1. Init => Resting /\ Holds /\ OneSave
    BY RestInit DEF Init, Holds, OneSave, Pages
  <1>2. Inv /\ [Next]_vars => Resting' /\ Holds' /\ OneSave'
    <2>1. UNCHANGED vars => (Inv => Holds' /\ OneSave')
      BY DEF vars, Holds, OneSave
    <2> QED
      BY <2>1, RestStep, HoldsStep, OneStep DEF DocsInv
  <1>3. Inv /\ [Next]_vars => A
    BY KeepsWhatItSaw DEF DocsInv
  <1> QED
    BY <1>1, <1>2, <1>3, DocsHold, PTL DEF Spec, SavesKeepWhatTheySaw
=============================================================================
