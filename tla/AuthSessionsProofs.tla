------------------------- MODULE AuthSessionsProofs -------------------------
(* Proofs about AuthSessions, for every number of tabs, calls, tokens, losses *)
(* and expiries.                                                              *)
EXTENDS AuthSessions, TLAPS

-----------------------------------------------------------------------------
(* The inductive invariant.                                                  *)

Granted == {r \in refreshes : r.st = "granted"}
LoggedIn == {c \in calls : c.kind = "login" /\ c.st = "ok"}

\* Nobody but the answer under way knows pair p: the browser has never sent it,
\* so no one can have spent it.
Fresh(p) ==
  /\ p \in Pairs /\ p <= issued /\ row[p] # "revoked" /\ spentBy[p] = Nobody
  /\ jar.refresh # p
  /\ \A r \in refreshes : r.token # p
  /\ \A c \in calls : c.refresh # p

\* The pairs in answers under way are fresh, and each is in one answer.
AnswersAreFresh ==
  /\ \A r \in Granted : Fresh(r.pair)
  /\ \A c \in LoggedIn : Fresh(c.pair)
AnswersDiffer ==
  /\ \A q, r \in Granted : q.pair = r.pair => q = r
  /\ \A c, d \in LoggedIn : c.pair = d.pair => c = d
  /\ \A r \in Granted, c \in LoggedIn : r.pair # c.pair

\* A refresh whose tab has gone is counted as lost.
GoneIsAstray == \A r \in refreshes : r.gone => r.token \in astray

\* refreshPromise: a tab waits for one refresh at a time.
SingleFlight ==
  \A q, r \in refreshes : (q.tab = r.tab /\ ~q.gone /\ ~r.gone) => q = r

\* The cookie was rotated by a tab only if the answer to that is under way.
CookieWaits ==
  (jar.refresh # 0 /\ spentBy[jar.refresh] # Nobody)
    => \/ jar.refresh \in astray
       \/ \E r \in Granted : r.token = jar.refresh /\ r.tab = spentBy[jar.refresh]

\* NeverRefusedByItself, of every refresh that was not granted.
NotMine(r) == r.token # 0 => (spentBy[r.token] # r.tab \/ r.token \in astray)
NoneIsMine == \A r \in refreshes : r.st # "granted" => NotMine(r)

\* Nobody has spent what was not issued.
UnissuedUnspent == \A k \in Pairs : k > issued => spentBy[k] = Nobody

Knowledge ==
  UnissuedUnspent /\ AnswersAreFresh /\ AnswersDiffer /\ GoneIsAstray /\ SingleFlight

Safe == Knowledge /\ CookieIsNeverSpent /\ CookieWaits /\ NoneIsMine
IInv == TypeOK /\ Safe

-----------------------------------------------------------------------------
(* Types.                                                                    *)

Statuses == {"sent", "ok", "bad", "401", "lost", "waiting"}

\* What a request may look like when i pairs were issued.
CallOK(c, i) == c \in CallType /\ c.access <= i /\ c.refresh <= i /\ c.pair <= i
RefreshOK(r, i) ==
  /\ r \in RefreshType /\ r.token <= i /\ r.pair <= i
  /\ r.st \in {"checked", "granted"} => r.token # 0

ServerOK ==
  /\ issued \in Pairs
  /\ row \in [Pairs -> {"unborn", "live", "revoked", "gone"}]
  /\ \A k \in Pairs : row[k] = "unborn" <=> k > issued
  /\ valid \subseteq 1 .. issued /\ active \in BOOLEAN
  /\ spentBy \in [Pairs -> Tabs \cup {Nobody}]
CallsOK == \A c \in calls : CallOK(c, issued)
RefreshesOK == \A r \in refreshes : RefreshOK(r, issued)
JarOK == jar \in [access : 0 .. issued, refresh : 0 .. issued]
PageOK == page \in [Tabs -> {"closed", "app", "login"}]
CountsOK ==
  /\ made \in 0 .. MaxCalls /\ lost \in 0 .. MaxLost /\ aged \in 0 .. MaxAged
  /\ astray \subseteq 0 .. MaxTokens

\* TypeOK without the history of logouts, in parts.
LEMMA TypeParts ==
  TypeOK <=> /\ ServerOK /\ CallsOK /\ RefreshesOK /\ JarOK /\ PageOK
             /\ CountsOK /\ out \in 0 .. MaxCalls
  BY DEF TypeOK, ServerOK, CallsOK, RefreshesOK, JarOK, PageOK, CountsOK, CallOK, RefreshOK

\* A call keeps its type when its status changes.
LEMMA CallMoves ==
  ASSUME NEW i, NEW c, CallOK(c, i), NEW s \in Statuses
  PROVE  /\ CallOK([c EXCEPT !.st = s], i)
         /\ CallOK([c EXCEPT !.st = s, !.retry = TRUE], i)
  BY DEF CallOK, CallType, Statuses

LEMMA CallSent ==
  ASSUME NEW i, NEW c, CallOK(c, i), NEW j, j \in [access : 0 .. i, refresh : 0 .. i],
         i \in Pairs, BoundsAssumption
  PROVE  CallOK(Sent(c, j), i)
  <1>1. j.access \in 0 .. MaxTokens /\ j.refresh \in 0 .. MaxTokens
        /\ j.access <= i /\ j.refresh <= i
    BY DEF Pairs, BoundsAssumption
  <1>2. c \in CallType /\ c.pair <= i
    BY DEF CallOK
  <1>3. Sent(c, j) \in CallType
    BY <1>1, <1>2 DEF Sent, CallType
  <1>4. /\ Sent(c, j).access = j.access /\ Sent(c, j).refresh = j.refresh
        /\ Sent(c, j).pair = c.pair
    BY <1>2 DEF Sent, CallType
  <1> QED BY <1>1, <1>2, <1>3, <1>4 DEF CallOK

LEMMA RefreshMoves ==
  ASSUME NEW i, NEW r, RefreshOK(r, i)
  PROVE  /\ RefreshOK([r EXCEPT !.st = "refused"], i)
         /\ r.token # 0 => RefreshOK([r EXCEPT !.st = "checked"], i)
         /\ RefreshOK([r EXCEPT !.gone = TRUE], i)
  BY DEF RefreshOK, RefreshType
Core == ServerOK /\ CallsOK /\ RefreshesOK /\ JarOK /\ PageOK /\ CountsOK

\* One call replaced by another, of as many pairs or more.
LEMMA CallReplaced ==
  ASSUME CallsOK, issued' \in Nat, issued \in Nat, issued <= issued', NEW c \in calls, NEW d,
         CallOK(d, issued'), Change(c, d)
  PROVE  CallsOK'
  BY DEF CallsOK, CallOK, CallType, Change

LEMMA CallTurns ==
  ASSUME CallsOK, issued \in Nat, issued' = issued, NEW c \in calls, NEW s \in Statuses,
         Change(c, [c EXCEPT !.st = s])
  PROVE  CallsOK'
  <1>1. CallOK([c EXCEPT !.st = s], issued)
    BY CallMoves DEF CallsOK
  <1> QED BY <1>1, CallReplaced

\* An answer brings the pair that was just issued.
LEMMA PairBrought ==
  ASSUME NEW i \in Nat, i + 1 \in Pairs
  PROVE  /\ \A c : CallOK(c, i) => CallOK([c EXCEPT !.st = "ok", !.pair = i + 1], i + 1)
         /\ \A r : RefreshOK(r, i) /\ r.token # 0
                 => RefreshOK([r EXCEPT !.st = "granted", !.pair = i + 1], i + 1)
  <1>1. i + 1 \in 0 .. MaxTokens
    BY DEF Pairs
  <1>2. ASSUME NEW c, CallOK(c, i)
        PROVE  CallOK([c EXCEPT !.st = "ok", !.pair = i + 1], i + 1)
    <2> DEFINE d == [c EXCEPT !.st = "ok", !.pair = i + 1]
    <2>1. d \in CallType BY <1>1, <1>2 DEF CallOK, CallType
    <2>2. d.access = c.access /\ d.refresh = c.refresh /\ d.pair = i + 1
      BY <1>2 DEF CallOK, CallType
    <2>3. c.access \in Nat /\ c.refresh \in Nat /\ c.access <= i /\ c.refresh <= i
      BY <1>2 DEF CallOK, CallType
    <2>4. CallOK(d, i + 1)
      <3> HIDE DEF d
      <3> QED BY <2>1, <2>2, <2>3 DEF CallOK
    <2> QED BY <2>4
  <1>3. ASSUME NEW r, RefreshOK(r, i), r.token # 0
        PROVE  RefreshOK([r EXCEPT !.st = "granted", !.pair = i + 1], i + 1)
    <2> DEFINE q == [r EXCEPT !.st = "granted", !.pair = i + 1]
    <2>1. q \in RefreshType BY <1>1, <1>3 DEF RefreshOK, RefreshType
    <2>2. q.token = r.token /\ q.pair = i + 1
      BY <1>3 DEF RefreshOK, RefreshType
    <2>3. r.token \in Nat /\ r.token <= i
      BY <1>3 DEF RefreshOK, RefreshType
    <2>4. RefreshOK(q, i + 1)
      <3> HIDE DEF q
      <3> QED BY <1>3, <2>1, <2>2, <2>3 DEF RefreshOK
    <2> QED BY <2>4
  <1> QED BY <1>2, <1>3

\* Fewer calls, and nothing issued.
LEMMA CallsDropped ==
  ASSUME CallsOK, issued' = issued, calls' \subseteq calls
  PROVE  CallsOK'
  BY DEF CallsOK

LEMMA RefreshReplaced ==
  ASSUME RefreshesOK, issued' \in Nat, issued \in Nat, issued <= issued',
         NEW r \in refreshes, NEW q, RefreshOK(q, issued'), Tell(r, q)
  PROVE  RefreshesOK'
  BY DEF RefreshesOK, RefreshOK, RefreshType, Tell

LEMMA RefreshTurns ==
  ASSUME RefreshesOK, issued \in Nat, issued' = issued, NEW r \in refreshes, NEW q,
         RefreshOK(q, issued), Tell(r, q)
  PROVE  RefreshesOK'
  <1>1. RefreshOK(q, issued') OBVIOUS
  <1>2. issued' \in Nat /\ issued <= issued' OBVIOUS
  <1> QED BY <1>1, <1>2, RefreshReplaced

\* A tab that loads /login keeps the types.
LEMMA BounceTypes ==
  ASSUME Core, NEW t \in Tabs, NEW r, Bounce(t, r), issued' = issued
  PROVE  CallsOK' /\ RefreshesOK' /\ PageOK' /\ astray' \subseteq 0 .. MaxTokens
  <1>1. CallsOK' BY CallsDropped DEF Core, Bounce
  <1>2. ASSUME NEW q \in refreshes' PROVE RefreshOK(q, issued)
    <2>1. PICK p \in refreshes : q = IF p.tab = t THEN [p EXCEPT !.gone = TRUE] ELSE p
      BY <1>2 DEF Bounce
    <2>2. RefreshOK(p, issued) BY DEF Core, RefreshesOK
    <2> QED BY <2>1, <2>2, RefreshMoves
  <1>3. RefreshesOK' BY <1>2 DEF RefreshesOK
  <1>4. PageOK' BY DEF Core, Bounce, PageOK
  <1>5. \A c \in calls : c.refresh \in 0 .. MaxTokens
    BY DEF Core, CallsOK, CallOK, CallType
  <1>6. \A q \in refreshes : q.token \in 0 .. MaxTokens
    BY DEF Core, RefreshesOK, RefreshOK, RefreshType
  <1>7. astray' \subseteq 0 .. MaxTokens
    BY <1>5, <1>6 DEF Core, CountsOK, Bounce
  <1> QED BY <1>1, <1>3, <1>4, <1>7

\* Issuing a pair keeps the types of the rows.
LEMMA IssueTypes ==
  ASSUME BoundsAssumption, ServerOK, NEW rows, Issue(rows),
         rows \in [Pairs -> {"unborn", "live", "revoked", "gone"}],
         \A k \in Pairs : rows[k] = "unborn" <=> k > issued
  PROVE  /\ issued' \in Pairs /\ issued' = issued + 1
         /\ row' \in [Pairs -> {"unborn", "live", "revoked", "gone"}]
         /\ \A k \in Pairs : row'[k] = "unborn" <=> k > issued'
         /\ valid' \subseteq 1 .. issued'
  BY DEF BoundsAssumption, ServerOK, Issue, Pairs

LEMMA UserTypes ==
  ASSUME BoundsAssumption, Core, NEW t \in Tabs, User(t)
  PROVE  Core'
  <1>1. PICK kind \in {"me", "page", "login", "logout"} : Make(t, kind)
    BY DEF User, Open, Ask, Login, logout
  <1>2. PageOK'
    BY DEF User, Open, Ask, Login, logout, Core, PageOK
  <1>3. CallOK(Call(t, kind), issued)
    BY <1>1 DEF Core, JarOK, ServerOK, Make, CallOK, Call, CallType, CountsOK, BoundsAssumption, Pairs
  <1>4. CallsOK'
    BY <1>1, <1>3 DEF Core, CallsOK, Make, server
  <1>5. ServerOK' /\ JarOK' /\ RefreshesOK' /\ CountsOK'
    BY <1>1 DEF Core, Make, server, ServerOK, JarOK, RefreshesOK, CountsOK, BoundsAssumption
  <1> QED BY <1>2, <1>4, <1>5 DEF Core

LEMMA ServingTypes ==
  ASSUME BoundsAssumption, Core, Serving
  PROVE  Core'
  <1>0. issued \in Nat /\ issued \in Pairs
    BY DEF Core, ServerOK, Pairs
  <1>1. ASSUME NEW c \in calls, Serve(c) PROVE Core'
    <2>1. PICK s \in Statuses : Change(c, [c EXCEPT !.st = s])
      BY <1>1 DEF Serve, Statuses
    <2>2. CallsOK'
      BY <1>0, <1>1, <2>1, CallTurns DEF Core, Serve, server
    <2> QED BY <1>1, <2>2 DEF Core, Serve, server, browser, ServerOK, JarOK, PageOK, RefreshesOK, CountsOK
  <1>2. ASSUME NEW c \in calls, login_endpoint(c) PROVE Core'
    <2>0. CallOK(c, issued) BY DEF Core, CallsOK
    <2>1. CASE active
      <3>1. Issue(row) /\ Change(c, [c EXCEPT !.st = "ok", !.pair = issued + 1])
        BY <1>2, <2>1 DEF login_endpoint
      <3>2. /\ issued' \in Pairs /\ issued' = issued + 1
            /\ row' \in [Pairs -> {"unborn", "live", "revoked", "gone"}]
            /\ \A k \in Pairs : row'[k] = "unborn" <=> k > issued'
            /\ valid' \subseteq 1 .. issued'
        BY <3>1, IssueTypes DEF Core, ServerOK
      <3>3. CallOK([c EXCEPT !.st = "ok", !.pair = issued + 1], issued')
        BY <1>0, <2>0, <3>2, PairBrought
      <3>4. CallsOK'
        BY <1>0, <3>1, <3>2, <3>3, CallReplaced DEF Core, Pairs
      <3>5. RefreshesOK' /\ JarOK'
        BY <1>0, <1>2, <3>2 DEF Core, RefreshesOK, RefreshOK, RefreshType, JarOK, login_endpoint, browser
      <3> QED BY <1>2, <3>2, <3>4, <3>5 DEF Core, login_endpoint, browser, ServerOK, PageOK, CountsOK
    <2>2. CASE ~active
      <3>1. "bad" \in Statuses BY DEF Statuses
      <3>2. CallsOK'
        BY <1>0, <1>2, <2>2, <3>1, CallTurns DEF Core, login_endpoint
      <3> QED BY <1>2, <2>2, <3>2 DEF Core, login_endpoint, browser, ServerOK, JarOK, PageOK, RefreshesOK, CountsOK
    <2> QED BY <2>1, <2>2
  <1>3. ASSUME NEW c \in calls, logout_endpoint(c) PROVE Core'
    <2>1. PICK s \in Statuses : Change(c, [c EXCEPT !.st = s])
      BY <1>3 DEF logout_endpoint, Statuses
    <2>2. CallsOK'
      BY <1>0, <1>3, <2>1, CallTurns DEF Core, logout_endpoint
    <2>3. /\ row' \in [Pairs -> {"unborn", "live", "revoked", "gone"}]
          /\ \A k \in Pairs : row'[k] = "unborn" <=> k > issued
      BY <1>3 DEF Core, ServerOK, logout_endpoint
    <2> QED BY <1>3, <2>2, <2>3 DEF Core, logout_endpoint, browser, ServerOK, JarOK, PageOK, RefreshesOK, CountsOK
  <1>4. ASSUME NEW r \in refreshes, CheckToken(r) PROVE Core'
    <2>0. RefreshOK(r, issued) BY DEF Core, RefreshesOK
    <2>1. PICK q : Tell(r, q) /\ RefreshOK(q, issued)
      BY <1>4, <2>0, RefreshMoves DEF CheckToken
    <2>2. RefreshesOK'
      BY <1>0, <1>4, <2>1, RefreshTurns DEF Core, CheckToken, server
    <2> QED BY <1>4, <2>2 DEF Core, CheckToken, server, ServerOK, JarOK, PageOK, CallsOK, CountsOK
  <1>5. ASSUME NEW r \in refreshes, Rotate(r) PROVE Core'
    <2>0. RefreshOK(r, issued) /\ r.token \in Pairs
      BY <1>5 DEF Core, RefreshesOK, RefreshOK, RefreshType, Rotate, Pairs
    <2>1. /\ issued' \in Pairs /\ issued' = issued + 1
          /\ row' \in [Pairs -> {"unborn", "live", "revoked", "gone"}]
          /\ \A k \in Pairs : row'[k] = "unborn" <=> k > issued'
          /\ valid' \subseteq 1 .. issued'
      <3> DEFINE rows == [row EXCEPT ![r.token] = "revoked"]
      <3>1. /\ rows \in [Pairs -> {"unborn", "live", "revoked", "gone"}]
            /\ \A k \in Pairs : rows[k] = "unborn" <=> k > issued
        BY <1>0, <2>0 DEF Core, ServerOK, RefreshOK, Pairs
      <3>2. Issue(rows) BY <1>5 DEF Rotate
      <3>3. ServerOK BY DEF Core
      <3> HIDE DEF rows
      <3> QED BY <3>1, <3>2, <3>3, IssueTypes
    <2>2. RefreshOK([r EXCEPT !.st = "granted", !.pair = issued + 1], issued')
      <3>1. r.token # 0 BY <2>0 DEF Pairs
      <3> QED BY <1>0, <2>0, <2>1, <3>1, PairBrought
    <2>3. RefreshesOK'
      BY <1>0, <1>5, <2>1, <2>2, RefreshReplaced DEF Core, Rotate, Pairs
    <2>4. CallsOK' /\ JarOK'
      BY <1>0, <1>5, <2>1 DEF Core, CallsOK, CallOK, CallType, JarOK, Rotate
    <2>5. spentBy' \in [Pairs -> Tabs \cup {Nobody}]
      BY <1>5, <2>0 DEF Core, ServerOK, Rotate, RefreshOK, RefreshType
    <2> QED BY <1>5, <2>1, <2>3, <2>4, <2>5 DEF Core, Rotate, ServerOK, PageOK, CountsOK
  <1> QED BY <1>1, <1>2, <1>3, <1>4, <1>5 DEF Serving
LEMMA AnsweringTypes ==
  ASSUME BoundsAssumption, Core, Answering
  PROVE  Core'
  <1>0. issued \in Nat /\ issued \in Pairs
    BY DEF Core, ServerOK, Pairs
  <1>c. \A c \in calls : CallOK(c, issued) /\ c.tab \in Tabs /\ c.pair \in 0 .. issued
    BY <1>0 DEF Core, CallsOK, CallOK, CallType
  <1>r. \A r \in refreshes : RefreshOK(r, issued) /\ r.tab \in Tabs /\ r.pair \in 0 .. issued
    BY <1>0 DEF Core, RefreshesOK, RefreshOK, RefreshType
  <1>1. ASSUME NEW c \in calls, Answered(c) PROVE Core'
    <2>1. CallsOK' BY <1>1, CallsDropped DEF Core, Answered, server
    <2>2. JarOK' BY <1>0, <1>1, <1>c DEF Core, JarOK, Answered, server
    <2>3. PageOK' BY <1>1, <1>c DEF Core, PageOK, Answered
    <2> QED BY <1>1, <2>1, <2>2, <2>3 DEF Core, Answered, server, ServerOK, RefreshesOK, CountsOK
  <1>2. ASSUME NEW c \in calls, WakeRetry(c) PROVE Core'
    <2> DEFINE d == [Sent(c, jar) EXCEPT !.wakes = @ + 1]
    <2>1. CallOK(Sent(c, jar), issued)
      BY <1>0, <1>c, CallSent DEF Core, JarOK
    <2>2. Sent(c, jar).wakes = c.wakes /\ c.wakes \in Nat /\ c.wakes < MaxWakes
      BY <1>2, <1>c DEF CallOK, CallType, Sent, WakeRetry
    <2>3. CallOK(d, issued)
      BY <2>1, <2>2 DEF CallOK, CallType, BoundsAssumption
    <2>4. CallsOK'
      <3> HIDE DEF d
      <3>1. CallOK(d, issued') /\ issued' = issued BY <1>2, <2>3 DEF WakeRetry, server
      <3>2. Change(c, d) BY <1>2 DEF WakeRetry, d
      <3> QED BY <1>0, <3>1, <3>2, CallReplaced DEF Core
    <2> QED BY <1>2, <2>4 DEF Core, WakeRetry, server, ServerOK, RefreshesOK, JarOK, PageOK, CountsOK
  <1>3. ASSUME NEW c \in calls, GiveUp(c) \/ UnauthorizedAgain(c) PROVE Core'
    <2>1. CallsOK' BY <1>3, CallsDropped DEF Core, GiveUp, UnauthorizedAgain, Reject, server
    <2>2. PageOK' BY <1>3, <1>c DEF Core, PageOK, GiveUp, UnauthorizedAgain, Reject
    <2> QED BY <1>3, <2>1, <2>2 DEF Core, GiveUp, UnauthorizedAgain, server, ServerOK, RefreshesOK, JarOK, CountsOK
  <1>4. ASSUME NEW c \in calls, Unauthorized(c) PROVE Core'
    <2>0. issued' = issued BY <1>4 DEF Unauthorized, server
    <2>1. CallsOK'
      <3>1. "waiting" \in Statuses BY DEF Statuses
      <3>2. CallOK([c EXCEPT !.st = "waiting", !.retry = TRUE], issued)
        BY <1>c, <3>1, CallMoves
      <3> QED BY <1>0, <1>4, <2>0, <3>2, CallReplaced DEF Core, Unauthorized
    <2>2. RefreshOK(Refresh(c), issued)
      BY <1>0, <1>c DEF Core, JarOK, Refresh, RefreshOK, RefreshType, CallOK, CallType, Pairs, BoundsAssumption
    <2>3. RefreshesOK'
      BY <1>4, <1>r, <2>0, <2>2 DEF Core, RefreshesOK, Unauthorized, performRefresh
    <2> QED BY <1>4, <2>1, <2>3 DEF Core, Unauthorized, server, ServerOK, JarOK, PageOK, CountsOK
  <1>5. ASSUME NEW c \in calls, UnauthorizedLogout(c) PROVE Core'
    <2>1. CallsOK' /\ RefreshesOK' /\ PageOK' /\ astray' \subseteq 0 .. MaxTokens
      BY <1>5, <1>c, BounceTypes DEF UnauthorizedLogout, server
    <2> QED BY <1>5, <2>1 DEF Core, UnauthorizedLogout, server, ServerOK, JarOK, CountsOK
  <1>6. ASSUME NEW r \in refreshes, RefreshFailed(r) PROVE Core'
    <2>1. CallsOK' /\ RefreshesOK' /\ PageOK' /\ astray' \subseteq 0 .. MaxTokens
      BY <1>6, <1>r, BounceTypes DEF RefreshFailed, server
    <2> QED BY <1>6, <2>1 DEF Core, RefreshFailed, server, ServerOK, JarOK, CountsOK
  <1>7. ASSUME NEW r \in refreshes, Refreshed(r) PROVE Core'
    <2>1. jar' \in [access : 0 .. issued, refresh : 0 .. issued]
      BY <1>7, <1>r DEF Refreshed
    <2>2. \A c \in calls : CallOK(Sent(c, jar'), issued)
      BY <1>0, <1>c, <2>1, CallSent
    <2>3. CallsOK'
      BY <1>7, <1>c, <2>2 DEF Core, CallsOK, Refreshed, server
    <2> QED BY <1>7, <2>1, <2>3 DEF Core, Refreshed, server, ServerOK, RefreshesOK, JarOK, PageOK, CountsOK
  <1>8. ASSUME NEW r \in refreshes, RefreshOrphaned(r) PROVE Core'
    <2>1. jar' \in [access : 0 .. issued, refresh : 0 .. issued]
      BY <1>8, <1>r DEF RefreshOrphaned, Core, JarOK
    <2> QED BY <1>8, <2>1 DEF Core, RefreshOrphaned, server, ServerOK, RefreshesOK, CallsOK, JarOK, PageOK, CountsOK
  <1> QED BY <1>1, <1>2, <1>3, <1>4, <1>5, <1>6, <1>7, <1>8 DEF Answering

LEMMA FailingTypes ==
  ASSUME BoundsAssumption, Core, Failing
  PROVE  Core'
  <1>0. issued \in Nat /\ issued \in Pairs
    BY DEF Core, ServerOK, Pairs
  <1>1. CASE AccessExpires
    <2>1. ServerOK' /\ JarOK' BY <1>0, <1>1 DEF Core, ServerOK, JarOK, AccessExpires
    <2> QED BY <1>1, <2>1 DEF Core, AccessExpires, Ages, CallsOK, RefreshesOK, PageOK, CountsOK
  <1>2. CASE RefreshExpires
    <2>1. ServerOK' BY <1>0, <1>2 DEF Core, ServerOK, RefreshExpires
    <2>2. JarOK' BY <1>0, <1>2 DEF Core, JarOK, RefreshExpires
    <2> QED BY <1>2, <2>1, <2>2 DEF Core, RefreshExpires, Ages, CallsOK, RefreshesOK, PageOK, CountsOK
  <1>3. CASE Deactivate
    <2>1. active' \in BOOLEAN BY <1>3 DEF Deactivate
    <2>2. CountsOK' BY <1>3 DEF Core, CountsOK, Deactivate, Ages
    <2>3. CallsOK' /\ RefreshesOK' /\ JarOK' /\ PageOK'
      BY <1>3 DEF Core, Deactivate, CallsOK, RefreshesOK, JarOK, PageOK
    <2> QED BY <1>3, <2>1, <2>2, <2>3 DEF Core, Deactivate, ServerOK
  <1>4. ASSUME NEW c \in calls, CallLost(c) PROVE Core'
    <2>0. CallOK(c, issued) /\ issued' = issued
      BY <1>4 DEF Core, CallsOK, CallLost, server
    <2>1. CallOK([c EXCEPT !.st = "lost", !.pair = 0], issued)
      <3> DEFINE d == [c EXCEPT !.st = "lost", !.pair = 0]
      <3>1. 0 \in 0 .. MaxTokens BY DEF BoundsAssumption
      <3>2. d \in CallType BY <2>0, <3>1 DEF CallOK, CallType
      <3>3. d.access = c.access /\ d.refresh = c.refresh /\ d.pair = 0
        BY <2>0 DEF CallOK, CallType
      <3>4. CallOK(d, issued)
        <4> HIDE DEF d
        <4> QED BY <1>0, <2>0, <3>2, <3>3 DEF CallOK
      <3> QED BY <3>4
    <2>2. CallsOK' BY <1>0, <1>4, <2>0, <2>1, CallReplaced DEF Core, CallLost
    <2>3. astray' \subseteq 0 .. MaxTokens
      BY <1>4, <2>0 DEF Core, CountsOK, CallLost, CallOK, CallType
    <2> QED BY <1>4, <2>2, <2>3 DEF Core, CallLost, Loses, server, ServerOK, RefreshesOK, JarOK, PageOK, CountsOK
  <1>5. ASSUME NEW r \in refreshes, RefreshLost(r) PROVE Core'
    <2>0. RefreshOK(r, issued) /\ issued' = issued
      BY <1>5 DEF Core, RefreshesOK, RefreshLost, server
    <2>1. RefreshOK([r EXCEPT !.st = "lost", !.pair = 0], issued)
      <3> DEFINE q == [r EXCEPT !.st = "lost", !.pair = 0]
      <3>1. 0 \in 0 .. MaxTokens BY DEF BoundsAssumption
      <3>2. q \in RefreshType BY <2>0, <3>1 DEF RefreshOK, RefreshType
      <3>3. q.token = r.token /\ q.pair = 0 /\ q.st = "lost"
        BY <2>0 DEF RefreshOK, RefreshType
      <3>4. RefreshOK(q, issued)
        <4> HIDE DEF q
        <4> QED BY <1>0, <2>0, <3>2, <3>3 DEF RefreshOK
      <3> QED BY <3>4
    <2>2. RefreshesOK' BY <1>0, <1>5, <2>0, <2>1, RefreshTurns DEF Core, RefreshLost
    <2>3. astray' \subseteq 0 .. MaxTokens
      BY <1>5, <2>0 DEF Core, CountsOK, RefreshLost, RefreshOK, RefreshType
    <2> QED BY <1>5, <2>2, <2>3 DEF Core, RefreshLost, Loses, server, ServerOK, CallsOK, JarOK, PageOK, CountsOK
  <1> QED BY <1>1, <1>2, <1>3, <1>4, <1>5 DEF Failing

LEMMA CoreInit == ASSUME BoundsAssumption, Init PROVE Core
  BY DEF BoundsAssumption, Init, Core, ServerOK, CallsOK, RefreshesOK, JarOK, PageOK, CountsOK, Pairs

\* The types hold in every state: no action makes a request, a row or a cookie
\* of another shape, and no pair is known before it is issued.
THEOREM Types == Spec => []TypeOK
  <1> USE BoundsAssumption
  <1>1. Init => TypeOK
    BY CoreInit, TypeParts DEF Core, Init, BoundsAssumption
  <1>2. ASSUME TypeOK, [Next]_vars PROVE TypeOK'
    <2>0. Core /\ out \in 0 .. MaxCalls /\ made \in 0 .. MaxCalls
      BY <1>2, TypeParts DEF Core, CountsOK
    <2>1. CASE Next
      <3>1. Core'
        BY <2>0, <2>1, UserTypes, ServingTypes, AnsweringTypes, FailingTypes DEF Next
      <3>2. out' \in 0 .. MaxCalls
        BY <2>0, <2>1, <3>1 DEF Next, SignedOut, Core, CountsOK
      <3> QED BY <3>1, <3>2, TypeParts DEF TypeOK, Core, ServerOK, CallsOK, RefreshesOK, JarOK, PageOK, CountsOK, CallOK, RefreshOK
    <2>2. CASE UNCHANGED vars
      BY <1>2, <2>2 DEF TypeOK, vars
    <2> QED BY <1>2, <2>1, <2>2
  <1> QED BY <1>1, <1>2, PTL DEF Spec
-----------------------------------------------------------------------------
(* What the cookie and the answers under way say.                            *)

\* A step of calls alone: rows, refreshes and the refresh cookie stay, no call
\* learns of a token that was not known, none becomes a login with a pair, and
\* the answer to a logout is there until it is counted as lost.
Quiet ==
  /\ UNCHANGED <<issued, row, spentBy, refreshes>>
  /\ jar'.refresh = jar.refresh
  /\ astray \subseteq astray'
  /\ \A c \in calls' : c.refresh = jar.refresh \/ \E d \in calls : c.refresh = d.refresh
  /\ LoggedIn' \subseteq LoggedIn
  /\ \A c \in calls : (c.kind = "logout" /\ c.st = "ok") => (c \in calls' \/ c.refresh \in astray')

LEMMA QuietStep ==
  ASSUME Safe, Quiet
  PROVE  Safe'
  <1>1. Granted' = Granted BY DEF Quiet, Granted
  <1>2. AnswersAreFresh'
    <2>1. \A p : Fresh(p) => Fresh(p)' BY DEF Fresh, Quiet
    <2> QED BY <1>1, <2>1 DEF Safe, Knowledge, AnswersAreFresh, Quiet
  <1>3. AnswersDiffer' BY <1>1 DEF Safe, Knowledge, AnswersDiffer, Quiet
  <1>4. UnissuedUnspent' /\ GoneIsAstray' /\ SingleFlight'
    BY DEF Safe, Knowledge, UnissuedUnspent, GoneIsAstray, SingleFlight, Quiet
  <1>5. CookieIsNeverSpent' BY DEF Safe, CookieIsNeverSpent, Quiet
  <1>6. CookieWaits' BY <1>1 DEF Safe, CookieWaits, Quiet
  <1>7. NoneIsMine' BY DEF Safe, NoneIsMine, NotMine, Quiet
  <1> QED BY <1>2, <1>3, <1>4, <1>5, <1>6, <1>7 DEF Safe, Knowledge

\* One call becomes another that sends nothing new.
LEMMA QuietChange ==
  ASSUME NEW c \in calls, NEW d, Change(c, d), d.refresh = c.refresh \/ d.refresh = jar.refresh,
         ~(d.kind = "login" /\ d.st = "ok"), ~(c.kind = "logout" /\ c.st = "ok") \/ c.refresh \in astray',
         UNCHANGED <<issued, row, spentBy, refreshes>>, jar'.refresh = jar.refresh,
         astray \subseteq astray'
  PROVE  Quiet
  BY DEF Quiet, Change, LoggedIn

LEMMA QuietUser ==
  ASSUME Core, NEW t \in Tabs, User(t)
  PROVE  Quiet
  <1>1. PICK kind : Make(t, kind)
    BY DEF User, Open, Ask, Login, logout
  <1>2. /\ Call(t, kind).refresh = jar.refresh /\ Call(t, kind).st = "sent"
    BY DEF Call
  <1>3. LoggedIn' \subseteq LoggedIn
    BY <1>1, <1>2 DEF Make, LoggedIn
  <1> QED BY <1>1, <1>2, <1>3 DEF Make, server, Quiet

LEMMA QuietServing ==
  ASSUME Core, NEW c \in calls,
         \/ Serve(c)
         \/ login_endpoint(c) /\ ~active
         \/ logout_endpoint(c) /\ ~get_current_user(c)
  PROVE  Quiet
  <1>1. CallOK(c, issued) BY DEF Core, CallsOK
  <1>2. PICK s \in Statuses : /\ Change(c, [c EXCEPT !.st = s])
                             /\ ~(c.kind = "login" /\ s = "ok")
    BY DEF Serve, login_endpoint, logout_endpoint, Statuses
  <1>3. /\ [c EXCEPT !.st = s].refresh = c.refresh
        /\ [c EXCEPT !.st = s].kind = c.kind
        /\ [c EXCEPT !.st = s].st = s
    BY <1>1 DEF CallOK, CallType
  <1>4. c.st = "sent" /\ UNCHANGED <<issued, row, spentBy, refreshes, jar, astray>>
    BY DEF Serve, login_endpoint, logout_endpoint, server, browser
  <1> HIDE DEF Serve, login_endpoint, logout_endpoint
  <1> QED BY <1>2, <1>3, <1>4, QuietChange

LEMMA QuietAnswering ==
  ASSUME Core, NEW c \in calls,
         \/ WakeRetry(c) \/ GiveUp(c) \/ UnauthorizedAgain(c)
         \/ Answered(c) /\ ~(c.kind \in {"login", "logout"} /\ c.st = "ok")
  PROVE  Quiet
  <1>1. CallOK(c, issued) BY DEF Core, CallsOK
  <1>2. CASE WakeRetry(c)
    <2> DEFINE d == [Sent(c, jar) EXCEPT !.wakes = @ + 1]
    <2>1. d.refresh = jar.refresh /\ d.st = "sent"
      BY <1>1 DEF CallOK, CallType, Sent
    <2>2. Change(c, d) /\ c.st = "lost"
      BY <1>2 DEF WakeRetry
    <2>3. UNCHANGED <<issued, row, spentBy, refreshes, jar, astray>>
      BY <1>2 DEF WakeRetry, server
    <2> HIDE DEF d
    <2> QED BY <2>1, <2>2, <2>3, QuietChange
  <1>3. CASE GiveUp(c) \/ UnauthorizedAgain(c)
    BY <1>3 DEF GiveUp, UnauthorizedAgain, Reject, server, Quiet, LoggedIn
  <1>4. CASE Answered(c) /\ ~(c.kind \in {"login", "logout"} /\ c.st = "ok")
    <2>1. jar' = jar BY <1>4 DEF Answered
    <2> QED BY <1>4, <2>1 DEF Answered, server, Quiet, LoggedIn
  <1> QED BY <1>2, <1>3, <1>4

LEMMA QuietFailing ==
  ASSUME Core, AccessExpires \/ Deactivate \/ \E c \in calls : CallLost(c)
  PROVE  Quiet
  <1>1. CASE AccessExpires
    <2>1. jar'.refresh = jar.refresh BY <1>1 DEF AccessExpires, Core, JarOK
    <2> QED BY <1>1, <2>1 DEF AccessExpires, Quiet, LoggedIn
  <1>2. CASE Deactivate
    BY <1>2 DEF Deactivate, Quiet, LoggedIn
  <1>3. ASSUME NEW c \in calls, CallLost(c) PROVE Quiet
    <2> DEFINE d == [c EXCEPT !.st = "lost", !.pair = 0]
    <2>1. d.refresh = c.refresh /\ d.st = "lost"
      BY DEF Core, CallsOK, CallOK, CallType
    <2>2. Change(c, d) /\ UNCHANGED <<issued, row, spentBy, refreshes, jar>>
      BY <1>3 DEF CallLost, server
    <2>3. /\ astray \subseteq astray'
          /\ c.kind = "logout" => c.refresh \in astray'
      BY <1>3 DEF CallLost
    <2> HIDE DEF d
    <2> QED BY <2>1, <2>2, <2>3, QuietChange
  <1> QED BY <1>1, <1>2, <1>3
\* The answer of a logout that is on its way.
Leaving == {c \in calls : c.kind = "logout" /\ c.st = "ok"}

LEMMA LoginSafe ==
  ASSUME BoundsAssumption, Core, Safe, NEW c \in calls, login_endpoint(c), active
  PROVE  Safe'
  <1>0. PICK p : p = issued + 1 OBVIOUS
  <1> DEFINE d == [c EXCEPT !.st = "ok", !.pair = p]
  <1>1. /\ issued \in Nat /\ issued' = p /\ p \in Pairs
        /\ row' = [row EXCEPT ![p] = "live"]
        /\ UNCHANGED <<spentBy, jar, refreshes, astray>>
        /\ Change(c, d) /\ c.st = "sent" /\ c.kind = "login"
    <2>1. issued \in Nat /\ issued \in Pairs BY DEF Core, ServerOK, Pairs
    <2>2. issued < MaxTokens /\ issued' = p /\ row' = [row EXCEPT ![p] = "live"]
      BY <1>0 DEF login_endpoint, Issue
    <2>3. p \in Pairs BY <1>0, <2>1, <2>2 DEF BoundsAssumption, Pairs
    <2> QED BY <1>0, <2>1, <2>2, <2>3 DEF login_endpoint, browser
  <1>2. d.refresh = c.refresh /\ d.pair = p /\ d.st = "ok" /\ d.kind = "login"
    BY <1>1 DEF Core, CallsOK, CallOK, CallType
  <1>3. /\ \A r \in refreshes : r.token \in Nat /\ r.token <= issued /\ r.pair <= issued
        /\ \A e \in calls : e.refresh \in Nat /\ e.refresh <= issued /\ e.pair <= issued
        /\ jar.refresh \in Nat /\ jar.refresh <= issued
    BY DEF Core, RefreshesOK, RefreshOK, RefreshType, CallsOK, CallOK, CallType, JarOK
  <1>4. row \in [Pairs -> {"unborn", "live", "revoked", "gone"}]
    BY DEF Core, ServerOK
  <1> HIDE DEF d
  <1>5. Granted' = Granted /\ LoggedIn' = LoggedIn \cup {d}
    BY <1>1, <1>2 DEF Granted, LoggedIn, Change
  <1>6. ASSUME NEW q, Fresh(q) PROVE Fresh(q)'
    <2>1. q \in Pairs /\ q <= issued' BY <1>0, <1>1, <1>6 DEF Fresh, Pairs
    <2>2. row'[q] # "revoked" BY <1>1, <1>4, <1>6 DEF Fresh
    <2>3. \A e \in calls' : e.refresh # q BY <1>1, <1>2, <1>6 DEF Fresh, Change
    <2> QED BY <1>1, <1>6, <2>1, <2>2, <2>3 DEF Fresh
  <1>7. Fresh(p)'
    <2>1. row'[p] = "live" BY <1>1, <1>4
    <2>2. spentBy[p] = Nobody BY <1>0, <1>1 DEF Safe, Knowledge, UnissuedUnspent
    <2>3. jar.refresh # p /\ \A r \in refreshes : r.token # p
      BY <1>0, <1>1, <1>3
    <2>4. \A e \in calls' : e.refresh # p
      BY <1>0, <1>1, <1>2, <1>3 DEF Change
    <2>5. p <= p BY <1>1 DEF Pairs
    <2> QED BY <1>1, <2>1, <2>2, <2>3, <2>4, <2>5 DEF Fresh
  <1>8. AnswersAreFresh'
    <2>1. (\A x \in Granted : Fresh(x.pair)) /\ (\A x \in LoggedIn : Fresh(x.pair))
      BY DEF Safe, Knowledge, AnswersAreFresh
    <2>2. (\A x \in Granted : Fresh(x.pair)') /\ (\A x \in LoggedIn : Fresh(x.pair)')
      BY <1>6, <2>1
    <2> QED BY <1>2, <1>5, <1>7, <2>2 DEF AnswersAreFresh
  <1>9. AnswersDiffer'
    BY <1>0, <1>1, <1>2, <1>3, <1>5 DEF Safe, Knowledge, AnswersDiffer, Granted, LoggedIn
  <1>10. UnissuedUnspent' /\ GoneIsAstray' /\ SingleFlight'
    BY <1>0, <1>1 DEF Safe, Knowledge, UnissuedUnspent, GoneIsAstray, SingleFlight, Pairs
  <1>11. CookieIsNeverSpent'
    <2>1. Leaving' = Leaving
      BY <1>1, <1>2 DEF Leaving, Change
    <2>2. jar.refresh # 0 => row'[jar.refresh] = row[jar.refresh]
      BY <1>0, <1>1, <1>3, <1>4 DEF Pairs
    <2> QED BY <1>1, <2>1, <2>2 DEF Safe, CookieIsNeverSpent, Leaving
  <1>12. CookieWaits' /\ NoneIsMine'
    BY <1>1, <1>5 DEF Safe, CookieWaits, NoneIsMine, NotMine
  <1> QED BY <1>8, <1>9, <1>10, <1>11, <1>12 DEF Safe, Knowledge

LEMMA LogoutSafe ==
  ASSUME BoundsAssumption, Core, Safe, NEW c \in calls, logout_endpoint(c), get_current_user(c)
  PROVE  Safe'
  <1> DEFINE d == [c EXCEPT !.st = "ok"]
  <1>1. /\ row' = [k \in Pairs |-> IF k = c.refresh /\ row[k] = "live" THEN "revoked" ELSE row[k]]
        /\ UNCHANGED <<issued, spentBy, jar, refreshes, astray>>
        /\ Change(c, d) /\ c.st = "sent" /\ c.kind = "logout"
    BY DEF logout_endpoint, browser
  <1>2. d.refresh = c.refresh /\ d.st = "ok" /\ d.kind = "logout"
    BY <1>1 DEF Core, CallsOK, CallOK, CallType
  <1> HIDE DEF d
  <1>3. Granted' = Granted /\ LoggedIn' = LoggedIn
    BY <1>1, <1>2 DEF Granted, LoggedIn, Change
  <1>4. ASSUME NEW q, Fresh(q) PROVE Fresh(q)'
    BY <1>1, <1>2, <1>4 DEF Fresh, Change
  <1>5. AnswersAreFresh' /\ AnswersDiffer'
    BY <1>3, <1>4 DEF Safe, Knowledge, AnswersAreFresh, AnswersDiffer
  <1>6. UnissuedUnspent' /\ GoneIsAstray' /\ SingleFlight'
    BY <1>1 DEF Safe, Knowledge, UnissuedUnspent, GoneIsAstray, SingleFlight
  <1>7. CookieIsNeverSpent'
    <2>1. Leaving' = Leaving \cup {d}
      BY <1>1, <1>2 DEF Leaving, Change
    <2>2. jar.refresh \in Pairs \/ jar.refresh = 0
      BY DEF Core, JarOK, ServerOK, Pairs, BoundsAssumption
    <2>3. CASE jar.refresh = c.refresh
      BY <1>1, <1>2, <2>1, <2>3 DEF CookieIsNeverSpent, Leaving
    <2>4. CASE jar.refresh # c.refresh
      BY <1>1, <2>1, <2>2, <2>4 DEF Safe, CookieIsNeverSpent, Leaving
    <2> QED BY <2>3, <2>4
  <1>8. CookieWaits' /\ NoneIsMine'
    BY <1>1, <1>3 DEF Safe, CookieWaits, NoneIsMine, NotMine
  <1> QED BY <1>5, <1>6, <1>7, <1>8 DEF Safe, Knowledge

LEMMA CheckSafe ==
  ASSUME Core, Safe, NEW r \in refreshes, CheckToken(r)
  PROVE  Safe'
  <1>1. PICK s \in {"checked", "refused"} :
          /\ Tell(r, [r EXCEPT !.st = s]) /\ r.st = "sent"
          /\ UNCHANGED <<issued, row, spentBy, jar, calls, astray>>
    BY DEF CheckToken, server
  <1> DEFINE q == [r EXCEPT !.st = s]
  <1>2. q.token = r.token /\ q.tab = r.tab /\ q.gone = r.gone /\ q.st = s
    BY <1>1 DEF Core, RefreshesOK, RefreshOK, RefreshType
  <1>3. refreshes' = (refreshes \ {r}) \cup {q}
    BY <1>1 DEF Tell
  <1> HIDE DEF q
  <1>4. Granted' = Granted /\ LoggedIn' = LoggedIn
    BY <1>1, <1>2, <1>3 DEF Granted, LoggedIn
  <1>5. ASSUME NEW p, Fresh(p) PROVE Fresh(p)'
    BY <1>1, <1>2, <1>3, <1>5 DEF Fresh
  <1>6. AnswersAreFresh' /\ AnswersDiffer' /\ UnissuedUnspent'
    BY <1>1, <1>4, <1>5 DEF Safe, Knowledge, AnswersAreFresh, AnswersDiffer, UnissuedUnspent
  <1>7. GoneIsAstray' /\ SingleFlight'
    BY <1>1, <1>2, <1>3 DEF Safe, Knowledge, GoneIsAstray, SingleFlight
  <1>8. CookieIsNeverSpent' /\ CookieWaits'
    BY <1>1, <1>4 DEF Safe, CookieIsNeverSpent, CookieWaits, Granted
  <1>9. NoneIsMine'
    BY <1>1, <1>2, <1>3 DEF Safe, NoneIsMine, NotMine
  <1> QED BY <1>6, <1>7, <1>8, <1>9 DEF Safe, Knowledge

LEMMA RotateSafe ==
  ASSUME BoundsAssumption, Core, Safe, NEW r \in refreshes, Rotate(r), TabsAssumption
  PROVE  Safe'
  <1>0. PICK p : p = issued + 1 OBVIOUS
  <1> DEFINE q == [r EXCEPT !.st = "granted", !.pair = p]
             k == r.token
  <1>1. /\ issued \in Nat /\ issued' = p /\ p \in Pairs
        /\ row' = [[row EXCEPT ![k] = "revoked"] EXCEPT ![p] = "live"]
        /\ spentBy' = [spentBy EXCEPT ![k] = r.tab]
        /\ UNCHANGED <<jar, calls, astray>>
        /\ refreshes' = (refreshes \ {r}) \cup {q} /\ r.st = "checked"
    <2>1. issued \in Nat /\ issued \in Pairs BY DEF Core, ServerOK, Pairs
    <2>2. /\ issued < MaxTokens /\ issued' = p
          /\ row' = [[row EXCEPT ![k] = "revoked"] EXCEPT ![p] = "live"]
      BY <1>0 DEF Rotate, Issue
    <2>3. p \in Pairs BY <1>0, <2>1, <2>2 DEF BoundsAssumption, Pairs
    <2> QED BY <1>0, <2>1, <2>2, <2>3 DEF Rotate, Tell
  <1>2. q.token = k /\ q.tab = r.tab /\ q.gone = r.gone /\ q.st = "granted" /\ q.pair = p
    BY DEF Core, RefreshesOK, RefreshOK, RefreshType
  <1>3. /\ \A x \in refreshes : x.token \in Nat /\ x.token <= issued /\ x.pair <= issued
        /\ \A c \in calls : c.refresh \in Nat /\ c.refresh <= issued /\ c.pair <= issued
        /\ jar.refresh \in Nat /\ jar.refresh <= issued
        /\ k \in Pairs /\ k # p /\ k <= issued
    <2>1. RefreshOK(r, issued) /\ k # 0 BY <1>1 DEF Core, RefreshesOK, RefreshOK
    <2>2. k \in Nat /\ k <= issued /\ k \in Pairs
      BY <2>1, <1>1 DEF RefreshOK, RefreshType, Pairs
    <2>3. k # p BY <1>0, <1>1, <2>2
    <2> HIDE DEF k
    <2> QED BY <1>1, <2>2, <2>3
         DEF Core, RefreshesOK, RefreshOK, RefreshType, CallsOK, CallOK, CallType, JarOK
  <1>4. row \in [Pairs -> {"unborn", "live", "revoked", "gone"}] /\ DOMAIN spentBy = Pairs
    BY DEF Core, ServerOK
  <1> HIDE DEF q, k
  <1>5. Granted' = Granted \cup {q} /\ LoggedIn' = LoggedIn
    BY <1>1, <1>2 DEF Granted, LoggedIn
  <1>6. ASSUME NEW x, Fresh(x) PROVE Fresh(x)'
    <2>1. x # k BY <1>6 DEF Fresh, k
    <2>2. row'[x] # "revoked" /\ spentBy'[x] = Nobody
      BY <1>1, <1>4, <1>6, <2>1 DEF Fresh
    <2>3. x <= issued' BY <1>0, <1>1, <1>6 DEF Fresh, Pairs
    <2>4. \A y \in refreshes' : y.token # x
      BY <1>1, <1>2, <1>6, <2>1 DEF Fresh
    <2> QED BY <1>1, <1>6, <2>2, <2>3, <2>4 DEF Fresh
  <1>7. Fresh(p)'
    <2>1. row'[p] = "live" BY <1>1, <1>3, <1>4
    <2>2. spentBy'[p] = Nobody
      BY <1>0, <1>1, <1>3, <1>4 DEF Safe, Knowledge, UnissuedUnspent
    <2>3. jar.refresh # p /\ (\A c \in calls : c.refresh # p)
      BY <1>0, <1>1, <1>3
    <2>4. \A y \in refreshes' : y.token # p
      BY <1>0, <1>1, <1>2, <1>3
    <2>5. p <= p BY <1>1 DEF Pairs
    <2> QED BY <1>1, <2>1, <2>2, <2>3, <2>4, <2>5 DEF Fresh
  <1>8. AnswersAreFresh'
    <2>1. (\A x \in Granted : Fresh(x.pair)) /\ (\A x \in LoggedIn : Fresh(x.pair))
      BY DEF Safe, Knowledge, AnswersAreFresh
    <2>2. (\A x \in Granted : Fresh(x.pair)') /\ (\A x \in LoggedIn : Fresh(x.pair)')
      BY <1>6, <2>1
    <2> QED BY <1>2, <1>5, <1>7, <2>2 DEF AnswersAreFresh
  <1>9. AnswersDiffer'
    BY <1>0, <1>1, <1>2, <1>3, <1>5 DEF Safe, Knowledge, AnswersDiffer, Granted, LoggedIn
  <1>10. UnissuedUnspent'
    BY <1>0, <1>1, <1>3, <1>4 DEF Safe, Knowledge, UnissuedUnspent, Pairs
  <1>11. GoneIsAstray' /\ SingleFlight'
    BY <1>1, <1>2 DEF Safe, Knowledge, GoneIsAstray, SingleFlight, k
  <1>12. CookieIsNeverSpent'
    <2>1. CASE jar.refresh = k
      BY <1>1, <1>2, <2>1 DEF CookieIsNeverSpent
    <2>2. CASE jar.refresh # k
      <3>0. jar.refresh # 0 => jar.refresh \in Pairs /\ jar.refresh # p
        BY <1>0, <1>1, <1>3 DEF Pairs, BoundsAssumption
      <3>1. jar.refresh # 0 => row'[jar.refresh] = row[jar.refresh]
        BY <1>1, <1>4, <2>2, <3>0
      <3>2. \A x \in refreshes : x.st = "granted" => x \in refreshes'
        BY <1>1
      <3> QED BY <1>1, <3>1, <3>2 DEF Safe, CookieIsNeverSpent
    <2> QED BY <2>1, <2>2
  <1>13. CookieWaits'
    <2>1. CASE jar.refresh = k
      BY <1>1, <1>2, <1>3, <1>4, <1>5, <2>1 DEF CookieWaits
    <2>2. CASE jar.refresh # k
      <3>1. spentBy'[jar.refresh] = spentBy[jar.refresh]
        BY <1>1, <1>4, <2>2
      <3> QED BY <1>1, <1>5, <3>1 DEF Safe, CookieWaits
    <2> QED BY <2>1, <2>2
  <1>14. NoneIsMine'
    <2>1. ASSUME NEW x \in refreshes', x.st # "granted" PROVE NotMine(x)'
      <3>1. x \in refreshes /\ x # r BY <1>1, <1>2, <2>1
      <3>2. NotMine(x) BY <2>1, <3>1 DEF Safe, NoneIsMine
      <3>3. CASE x.token # k
        <4>1. spentBy'[x.token] = spentBy[x.token] BY <1>1, <1>4, <3>3
        <4> QED BY <1>1, <3>2, <4>1 DEF NotMine
      <3>4. CASE x.token = k /\ x.tab = r.tab
        <4>1. x.gone \/ r.gone BY <3>1, <3>4 DEF Safe, Knowledge, SingleFlight
        <4>2. k \in astray BY <3>1, <3>4, <4>1 DEF Safe, Knowledge, GoneIsAstray, k
        <4> QED BY <1>1, <3>4, <4>2 DEF NotMine
      <3>5. CASE x.token = k /\ x.tab # r.tab
        BY <1>1, <1>3, <1>4, <3>5 DEF NotMine
      <3> QED BY <3>3, <3>4, <3>5
    <2> QED BY <2>1 DEF NoneIsMine
  <1> QED BY <1>8, <1>9, <1>10, <1>11, <1>12, <1>13, <1>14 DEF Safe, Knowledge
LEMMA UnauthorizedSafe ==
  ASSUME Core, Safe, NEW c \in calls, Unauthorized(c), TabsAssumption
  PROVE  Safe'
  <1> DEFINE d == [c EXCEPT !.st = "waiting", !.retry = TRUE]
  <1>1. /\ Change(c, d) /\ c.st = "401"
        /\ UNCHANGED <<issued, row, spentBy, jar, astray>>
    BY DEF Unauthorized, server
  <1>2. d.refresh = c.refresh /\ d.st = "waiting" /\ c.tab \in Tabs
    BY <1>1 DEF Core, CallsOK, CallOK, CallType
  <1> HIDE DEF d
  <1>3. /\ refreshes \subseteq refreshes'
        /\ \A r \in refreshes' \ refreshes :
             r = Refresh(c) /\ \A q \in refreshes : q.tab = c.tab => q.gone
    BY DEF Unauthorized, performRefresh, refreshPromise
  <1>4. /\ Refresh(c).token = jar.refresh /\ Refresh(c).tab = c.tab
        /\ Refresh(c).st = "sent" /\ ~Refresh(c).gone
    BY DEF Refresh
  <1>5. Granted' = Granted /\ LoggedIn' = LoggedIn
    BY <1>1, <1>2, <1>3, <1>4 DEF Granted, LoggedIn, Change
  <1>6. ASSUME NEW p, Fresh(p) PROVE Fresh(p)'
    BY <1>1, <1>2, <1>3, <1>4, <1>6 DEF Fresh, Change
  <1>7. AnswersAreFresh' /\ AnswersDiffer' /\ UnissuedUnspent'
    BY <1>1, <1>5, <1>6 DEF Safe, Knowledge, AnswersAreFresh, AnswersDiffer, UnissuedUnspent
  <1>8. GoneIsAstray' /\ SingleFlight'
    BY <1>1, <1>3, <1>4 DEF Safe, Knowledge, GoneIsAstray, SingleFlight
  <1>9. CookieIsNeverSpent' /\ CookieWaits'
    <2>1. Leaving' = Leaving BY <1>1, <1>2 DEF Leaving, Change
    <2> QED BY <1>1, <1>3, <1>5, <2>1 DEF Safe, CookieIsNeverSpent, CookieWaits, Leaving
  <1>10. NoneIsMine'
    <2>1. ASSUME NEW r \in refreshes', r \notin refreshes PROVE NotMine(r)'
      <3>1. r = Refresh(c) /\ \A q \in refreshes : q.tab = c.tab => q.gone
        BY <1>3, <2>1
      <3>2. CASE jar.refresh # 0 /\ spentBy[jar.refresh] = c.tab
        <4>1. jar.refresh \in astray
          BY <1>2, <3>1, <3>2 DEF Safe, CookieWaits, Knowledge, GoneIsAstray, Granted, TabsAssumption
        <4> QED BY <1>1, <1>4, <3>1, <4>1 DEF NotMine
      <3>3. CASE ~(jar.refresh # 0 /\ spentBy[jar.refresh] = c.tab)
        BY <1>1, <1>4, <3>1, <3>3 DEF NotMine
      <3> QED BY <3>2, <3>3
    <2>2. \A r \in refreshes : NotMine(r)' <=> NotMine(r)
      BY <1>1 DEF NotMine
    <2> QED BY <2>1, <2>2 DEF Safe, NoneIsMine
  <1> QED BY <1>7, <1>8, <1>9, <1>10 DEF Safe, Knowledge

\* A tab loads /login because of x, which is not an answer that grants a pair.
LEMMA BounceSafe ==
  ASSUME Core, Safe, NEW t \in Tabs, NEW x, x.st # "granted", Bounce(t, x),
         UNCHANGED <<issued, row, spentBy, jar>>
  PROVE  Safe'
  <1> DEFINE g(q) == IF q.tab = t THEN [q EXCEPT !.gone = TRUE] ELSE q
  <1>1. refreshes' = {g(q) : q \in refreshes \ {x}}
    BY DEF Bounce
  <1>2. \A q \in refreshes : /\ g(q).token = q.token /\ g(q).tab = q.tab
                            /\ g(q).st = q.st /\ g(q).pair = q.pair
                            /\ (g(q).gone <=> (q.gone \/ q.tab = t))
    BY DEF Core, RefreshesOK, RefreshOK, RefreshType
  <1>3. /\ \A q \in refreshes' : \E r \in refreshes \ {x} : q = g(r)
        /\ \A r \in Granted : g(r) \in refreshes'
    BY <1>1 DEF Granted
  <1>4. \A r \in refreshes \ {x} : r.tab = t => r.token \in astray'
    BY DEF Bounce
  <1>5. astray \subseteq astray' /\ (\A c \in Leaving : c \in calls' \/ c.refresh \in astray')
    BY DEF Bounce, Leaving
  <1>6. calls' \subseteq calls /\ LoggedIn' \subseteq LoggedIn
    BY DEF Bounce, LoggedIn
  <1> HIDE DEF g
  <1>7. \A q \in Granted' : \E r \in Granted : q = g(r)
    BY <1>2, <1>3 DEF Granted
  <1>8. \A r \in Granted : g(r) \in Granted'
    BY <1>2, <1>3 DEF Granted
  <1>9. ASSUME NEW p, Fresh(p) PROVE Fresh(p)'
    <2>1. \A q \in refreshes' : q.token # p BY <1>2, <1>3, <1>9 DEF Fresh
    <2> QED BY <1>6, <1>9, <2>1 DEF Fresh
  <1>10. AnswersAreFresh'
    <2>1. \A q \in Granted' : Fresh(q.pair)'
      <3> TAKE q \in Granted'
      <3>1. PICK r \in Granted : q = g(r) BY <1>7
      <3>2. q.pair = r.pair BY <1>2, <3>1 DEF Granted
      <3> QED BY <1>9, <3>2 DEF Safe, Knowledge, AnswersAreFresh
    <2>2. \A c \in LoggedIn' : Fresh(c.pair)'
      BY <1>6, <1>9 DEF Safe, Knowledge, AnswersAreFresh
    <2> QED BY <2>1, <2>2 DEF AnswersAreFresh
  <1>11. AnswersDiffer'
    <2>1. \A r \in Granted : g(r).pair = r.pair BY <1>2 DEF Granted
    <2> QED BY <1>6, <1>7, <2>1 DEF Safe, Knowledge, AnswersDiffer
  <1>12. GoneIsAstray'
    <2> SUFFICES ASSUME NEW q \in refreshes', q.gone PROVE q.token \in astray'
      BY DEF GoneIsAstray
    <2>1. PICK r \in refreshes \ {x} : q = g(r) BY <1>3
    <2>2. q.token = r.token /\ (r.gone \/ r.tab = t) BY <1>2, <2>1
    <2> QED BY <1>4, <1>5, <2>2 DEF Safe, Knowledge, GoneIsAstray
  <1>13. SingleFlight'
    <2> SUFFICES ASSUME NEW q1 \in refreshes', NEW q2 \in refreshes',
                        q1.tab = q2.tab, ~q1.gone, ~q2.gone
                 PROVE  q1 = q2
      BY DEF SingleFlight
    <2>1. PICK r1 \in refreshes \ {x} : q1 = g(r1) BY <1>3
    <2>2. PICK r2 \in refreshes \ {x} : q2 = g(r2) BY <1>3
    <2>3. r1.tab = r2.tab /\ ~r1.gone /\ ~r2.gone BY <1>2, <2>1, <2>2
    <2> QED BY <2>1, <2>2, <2>3 DEF Safe, Knowledge, SingleFlight
  <1>14. UnissuedUnspent' BY DEF Safe, Knowledge, UnissuedUnspent
  <1>15. CookieIsNeverSpent'
    <2>1. \A r \in Granted : \E q \in Granted' : q.token = r.token
      BY <1>2, <1>8 DEF Granted
    <2> QED BY <1>5, <2>1 DEF Safe, CookieIsNeverSpent, Granted, Leaving
  <1>16. CookieWaits'
    <2>1. \A r \in Granted : \E q \in Granted' : q.token = r.token /\ q.tab = r.tab
      BY <1>2, <1>8 DEF Granted
    <2> QED BY <1>5, <2>1 DEF Safe, CookieWaits
  <1>17. NoneIsMine'
    BY <1>2, <1>3, <1>5 DEF Safe, NoneIsMine, NotMine
  <1> QED BY <1>10, <1>11, <1>12, <1>13, <1>14, <1>15, <1>16, <1>17 DEF Safe, Knowledge

\* A pair arrives: it is the cookie now, and the answer is gone.
LEMMA ArrivalSafe ==
  ASSUME Core, Safe, NEW p, Fresh(p), jar'.refresh = p,
         UNCHANGED <<issued, row, spentBy, astray>>,
         refreshes' \subseteq refreshes, LoggedIn' \subseteq LoggedIn,
         \A r \in Granted' : r.pair # p, \A c \in LoggedIn' : c.pair # p,
         \A c \in calls' : c.refresh = p \/ \E d \in calls : c.refresh = d.refresh
  PROVE  Safe'
  <1>1. Granted' \subseteq Granted BY DEF Granted
  <1>2. ASSUME NEW q, Fresh(q), q # p PROVE Fresh(q)'
    BY <1>2 DEF Fresh
  <1>3. AnswersAreFresh'
    BY <1>1, <1>2 DEF Safe, Knowledge, AnswersAreFresh
  <1>4. AnswersDiffer'
    BY <1>1 DEF Safe, Knowledge, AnswersDiffer
  <1>5. UnissuedUnspent' /\ GoneIsAstray' /\ SingleFlight'
    BY DEF Safe, Knowledge, UnissuedUnspent, GoneIsAstray, SingleFlight
  <1>6. CookieIsNeverSpent' /\ CookieWaits'
    BY DEF CookieIsNeverSpent, CookieWaits, Fresh
  <1>7. NoneIsMine'
    BY DEF Safe, NoneIsMine, NotMine
  <1> QED BY <1>3, <1>4, <1>5, <1>6, <1>7 DEF Safe, Knowledge
LEMMA ServingSafe ==
  ASSUME BoundsAssumption, TabsAssumption, Core, Safe, Serving
  PROVE  Safe'
  <1>1. ASSUME NEW c \in calls, Serve(c) \/ login_endpoint(c) \/ logout_endpoint(c)
        PROVE  Safe'
    <2>1. CASE login_endpoint(c) /\ active
      BY <2>1, LoginSafe
    <2>2. CASE logout_endpoint(c) /\ get_current_user(c)
      BY <2>2, LogoutSafe
    <2>3. CASE \/ Serve(c)
               \/ login_endpoint(c) /\ ~active
               \/ logout_endpoint(c) /\ ~get_current_user(c)
      BY <2>3, QuietServing, QuietStep
    <2> QED BY <1>1, <2>1, <2>2, <2>3
  <1>2. ASSUME NEW r \in refreshes, CheckToken(r) \/ Rotate(r) PROVE Safe'
    BY <1>2, CheckSafe, RotateSafe
  <1> QED BY <1>1, <1>2 DEF Serving

LEMMA AnsweringSafe ==
  ASSUME TabsAssumption, Core, Safe, Answering
  PROVE  Safe'
  <1>c. \A c \in calls : CallOK(c, issued) /\ c.tab \in Tabs
    BY DEF Core, CallsOK, CallOK, CallType
  <1>r. \A r \in refreshes : RefreshOK(r, issued) /\ r.tab \in Tabs
    BY DEF Core, RefreshesOK, RefreshOK, RefreshType
  <1>1. ASSUME NEW c \in calls, Answered(c), c.kind = "login", c.st = "ok"
        PROVE  Safe'
    <2>1. /\ jar'.refresh = c.pair /\ calls' = calls \ {c}
          /\ UNCHANGED <<issued, row, spentBy, astray, refreshes>>
      BY <1>1 DEF Answered, server
    <2>2. c \in LoggedIn BY <1>1 DEF LoggedIn
    <2>3. Fresh(c.pair) BY <2>2 DEF Safe, Knowledge, AnswersAreFresh
    <2>4. /\ LoggedIn' = LoggedIn \ {c} /\ Granted' = Granted
      BY <2>1 DEF LoggedIn, Granted
    <2>5. /\ \A r \in Granted' : r.pair # c.pair
          /\ \A d \in LoggedIn' : d.pair # c.pair
      BY <2>2, <2>4 DEF Safe, Knowledge, AnswersDiffer
    <2> QED BY <2>1, <2>3, <2>4, <2>5, ArrivalSafe
  <1>2. ASSUME NEW c \in calls, Answered(c), c.kind = "logout", c.st = "ok"
        PROVE  Safe'
    <2>1. /\ jar'.refresh = 0 /\ calls' = calls \ {c}
          /\ UNCHANGED <<issued, row, spentBy, astray, refreshes>>
      BY <1>2 DEF Answered, server
    <2>2. /\ LoggedIn' \subseteq LoggedIn /\ Granted' = Granted
      BY <2>1 DEF LoggedIn, Granted
    <2>3. ASSUME NEW p, Fresh(p) PROVE Fresh(p)'
      BY <2>1, <2>3 DEF Fresh, Pairs
    <2>4. AnswersAreFresh' /\ AnswersDiffer'
      BY <2>2, <2>3 DEF Safe, Knowledge, AnswersAreFresh, AnswersDiffer
    <2> QED BY <2>1, <2>4 DEF Safe, Knowledge, UnissuedUnspent, GoneIsAstray, SingleFlight,
         CookieIsNeverSpent, CookieWaits, NoneIsMine, NotMine
  <1>3. ASSUME NEW c \in calls,
               \/ WakeRetry(c) \/ GiveUp(c) \/ UnauthorizedAgain(c)
               \/ Answered(c) /\ ~(c.kind \in {"login", "logout"} /\ c.st = "ok")
        PROVE  Safe'
    BY <1>3, QuietAnswering, QuietStep
  <1>4. ASSUME NEW c \in calls, Unauthorized(c) PROVE Safe'
    BY <1>4, UnauthorizedSafe
  <1>5. ASSUME NEW c \in calls, UnauthorizedLogout(c) PROVE Safe'
    BY <1>5, <1>c, BounceSafe DEF UnauthorizedLogout, server
  <1>6. ASSUME NEW r \in refreshes, RefreshFailed(r) PROVE Safe'
    BY <1>6, <1>r, BounceSafe DEF RefreshFailed, server
  <1>7. ASSUME NEW r \in refreshes, r.st = "granted", refreshes' = refreshes \ {r},
               jar'.refresh = r.pair, UNCHANGED <<issued, row, spentBy, astray>>,
               LoggedIn' \subseteq LoggedIn,
               \A c \in calls' : c.refresh = r.pair \/ \E d \in calls : c.refresh = d.refresh
        PROVE  Safe'
    <2>1. r \in Granted BY <1>7 DEF Granted
    <2>2. Fresh(r.pair) BY <2>1 DEF Safe, Knowledge, AnswersAreFresh
    <2>3. Granted' = Granted \ {r} BY <1>7 DEF Granted
    <2>4. /\ \A q \in Granted' : q.pair # r.pair
          /\ \A d \in LoggedIn' : d.pair # r.pair
      BY <1>7, <2>1, <2>3 DEF Safe, Knowledge, AnswersDiffer
    <2> QED BY <1>7, <2>2, <2>4, ArrivalSafe
  <1>8. ASSUME NEW r \in refreshes, Refreshed(r) PROVE Safe'
    <2>1. \A c \in calls : /\ Sent(c, jar').refresh = r.pair /\ Sent(c, jar').st = "sent"
      BY <1>8, <1>c DEF Refreshed, Sent, CallOK, CallType
    <2>2. /\ LoggedIn' \subseteq LoggedIn
          /\ \A c \in calls' : c.refresh = r.pair \/ \E d \in calls : c.refresh = d.refresh
      BY <1>8, <2>1 DEF Refreshed, LoggedIn
    <2>3. /\ r.st = "granted" /\ refreshes' = refreshes \ {r} /\ jar'.refresh = r.pair
          /\ UNCHANGED <<issued, row, spentBy, astray>>
      BY <1>8 DEF Refreshed, server
    <2> QED BY <1>7, <2>2, <2>3
  <1>9. ASSUME NEW r \in refreshes, RefreshOrphaned(r) PROVE Safe'
    <2>1. /\ r.gone /\ refreshes' = refreshes \ {r}
          /\ UNCHANGED <<issued, row, spentBy, astray, calls>>
      BY <1>9 DEF RefreshOrphaned, server
    <2>2. CASE r.st = "granted" /\ jar'.refresh = r.pair
      <3>1. LoggedIn' \subseteq LoggedIn BY <2>1 DEF LoggedIn
      <3> QED BY <1>7, <2>1, <2>2, <3>1
    <2>3. CASE jar' = jar
      <3>1. r.token \in astray BY <2>1 DEF Safe, Knowledge, GoneIsAstray
      <3>2. Granted' \subseteq Granted /\ LoggedIn' = LoggedIn BY <2>1 DEF Granted, LoggedIn
      <3>3. ASSUME NEW p, Fresh(p) PROVE Fresh(p)' BY <2>1, <2>3, <3>3 DEF Fresh
      <3>4. AnswersAreFresh' /\ AnswersDiffer'
        BY <3>2, <3>3 DEF Safe, Knowledge, AnswersAreFresh, AnswersDiffer
      <3>5. UnissuedUnspent' /\ GoneIsAstray' /\ SingleFlight' /\ NoneIsMine'
        BY <2>1 DEF Safe, Knowledge, UnissuedUnspent, GoneIsAstray, SingleFlight, NoneIsMine, NotMine
      <3>6. CookieIsNeverSpent' /\ CookieWaits'
        BY <2>1, <2>3, <3>1 DEF Safe, CookieIsNeverSpent, CookieWaits, Granted
      <3> QED BY <3>4, <3>5, <3>6 DEF Safe, Knowledge
    <2> QED BY <1>9, <2>2, <2>3 DEF RefreshOrphaned
  <1> QED BY <1>1, <1>2, <1>3, <1>4, <1>5, <1>6, <1>8, <1>9 DEF Answering

LEMMA FailingSafe ==
  ASSUME BoundsAssumption, Core, Safe, Failing
  PROVE  Safe'
  <1>1. CASE AccessExpires \/ Deactivate \/ \E c \in calls : CallLost(c)
    BY <1>1, QuietFailing, QuietStep
  <1>2. CASE RefreshExpires
    <2>1. PICK k \in Pairs : /\ row' = [row EXCEPT ![k] = "gone"]
                             /\ jar' = [jar EXCEPT !.refresh = IF @ = k THEN 0 ELSE @]
      BY <1>2 DEF RefreshExpires
    <2>2. UNCHANGED <<issued, spentBy, calls, refreshes, astray>>
      BY <1>2 DEF RefreshExpires
    <2>3. jar'.refresh = IF jar.refresh = k THEN 0 ELSE jar.refresh
      BY <2>1 DEF Core, JarOK
    <2>4. row \in [Pairs -> {"unborn", "live", "revoked", "gone"}]
      BY DEF Core, ServerOK
    <2>5. Granted' = Granted /\ LoggedIn' = LoggedIn BY <2>2 DEF Granted, LoggedIn
    <2>6. ASSUME NEW p, Fresh(p) PROVE Fresh(p)'
      BY <2>1, <2>2, <2>3, <2>4, <2>6 DEF Fresh, Pairs
    <2>7. AnswersAreFresh' /\ AnswersDiffer'
      BY <2>5, <2>6 DEF Safe, Knowledge, AnswersAreFresh, AnswersDiffer
    <2>8. UnissuedUnspent' /\ GoneIsAstray' /\ SingleFlight' /\ NoneIsMine'
      BY <2>2 DEF Safe, Knowledge, UnissuedUnspent, GoneIsAstray, SingleFlight, NoneIsMine, NotMine
    <2>9. CookieIsNeverSpent'
      <3>1. jar'.refresh # 0 => jar'.refresh = jar.refresh /\ jar.refresh # k
        BY <2>3
      <3>2. jar.refresh # k => row'[jar.refresh] = row[jar.refresh]
        BY <2>1, <2>4
      <3> QED BY <2>2, <3>1, <3>2 DEF Safe, CookieIsNeverSpent
    <2>10. CookieWaits'
      BY <2>2, <2>3, <2>5 DEF Safe, CookieWaits
    <2> QED BY <2>7, <2>8, <2>9, <2>10 DEF Safe, Knowledge
  <1>3. ASSUME NEW r \in refreshes, RefreshLost(r) PROVE Safe'
    <2> DEFINE q == [r EXCEPT !.st = "lost", !.pair = 0]
    <2>1. /\ refreshes' = (refreshes \ {r}) \cup {q} /\ astray' = astray \cup {r.token}
          /\ UNCHANGED <<issued, row, spentBy, jar, calls>>
      BY <1>3 DEF RefreshLost, Tell, server
    <2>2. q.token = r.token /\ q.tab = r.tab /\ q.gone = r.gone /\ q.st = "lost"
      BY DEF Core, RefreshesOK, RefreshOK, RefreshType
    <2> HIDE DEF q
    <2>3. Granted' = Granted \ {r} /\ LoggedIn' = LoggedIn
      BY <2>1, <2>2 DEF Granted, LoggedIn
    <2>4. ASSUME NEW p, Fresh(p) PROVE Fresh(p)'
      BY <2>1, <2>2, <2>4 DEF Fresh
    <2>5. AnswersAreFresh' /\ AnswersDiffer' /\ UnissuedUnspent'
      BY <2>1, <2>3, <2>4 DEF Safe, Knowledge, AnswersAreFresh, AnswersDiffer, UnissuedUnspent
    <2>6. GoneIsAstray' /\ SingleFlight'
      BY <2>1, <2>2 DEF Safe, Knowledge, GoneIsAstray, SingleFlight
    <2>7. CookieIsNeverSpent' /\ CookieWaits'
      BY <2>1, <2>3 DEF Safe, CookieIsNeverSpent, CookieWaits, Granted
    <2>8. NoneIsMine'
      BY <2>1, <2>2 DEF Safe, NoneIsMine, NotMine
    <2> QED BY <2>5, <2>6, <2>7, <2>8 DEF Safe, Knowledge
  <1> QED BY <1>1, <1>2, <1>3 DEF Failing

LEMMA SafeInit == ASSUME BoundsAssumption, Init PROVE Safe
  BY DEF BoundsAssumption, Init, Safe, Knowledge, UnissuedUnspent, AnswersAreFresh, AnswersDiffer,
         GoneIsAstray, SingleFlight, CookieIsNeverSpent, CookieWaits, NoneIsMine,
         Granted, LoggedIn, Pairs

LEMMA Inductive == Spec => [](Core /\ Safe)
  <1> USE BoundsAssumption, TabsAssumption
  <1>1. Init => Core /\ Safe
    BY CoreInit, SafeInit
  <1>2. ASSUME Core, Safe, [Next]_vars PROVE Core' /\ Safe'
    <2>1. CASE Next
      <3>1. Core'
        BY <1>2, <2>1, UserTypes, ServingTypes, AnsweringTypes, FailingTypes DEF Next
      <3>2. Safe'
        BY <1>2, <2>1, QuietUser, QuietStep, ServingSafe, AnsweringSafe, FailingSafe DEF Next
      <3> QED BY <3>1, <3>2
    <2>2. CASE UNCHANGED vars
      <3>1. Core'
        BY <1>2, <2>2 DEF vars, Core, ServerOK, CallsOK, RefreshesOK, JarOK, PageOK, CountsOK
      <3>2. Safe'
        <4>1. Quiet BY <2>2 DEF vars, Quiet, LoggedIn
        <4> QED BY <1>2, <4>1, QuietStep
      <3> QED BY <3>1, <3>2
    <2> QED BY <1>2, <2>1, <2>2
  <1> QED BY <1>1, <1>2, PTL DEF Spec

\* Whatever tabs, expiries and lost answers do, the browser keeps a refresh
\* cookie that the server has revoked only until the answer that replaces or
\* clears it arrives, or because that answer was lost.
THEOREM CookiesStayUsable == Spec => []CookieIsNeverSpent
  <1>1. Safe => CookieIsNeverSpent BY DEF Safe
  <1> QED BY <1>1, Inductive, PTL

\* No tab has a refresh refused because of a refresh of its own that it knows of.
THEOREM TabsShareOneRefresh == Spec => []NeverRefusedByItself
  <1>1. Safe => NeverRefusedByItself
    BY DEF Safe, NoneIsMine, NotMine, NeverRefusedByItself
  <1> QED BY <1>1, Inductive, PTL
=============================================================================
