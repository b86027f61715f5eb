---------------------------- MODULE AuthSessions ----------------------------
(***************************************************************************)
(* The session of one browser: the tabs of the application, which share    *)
(* the cookies, the client that renews them when a call is answered 401,   *)
(* and the server, which spends a refresh token and issues the next one.   *)
(*                                                                         *)
(*   lib/api-client.ts (performRefresh, the response interceptor),         *)
(*   stores/auth-store.ts, the layouts of the dashboard and the admin area *)
(*   auth/router.py (login, refresh, logout), auth/dependencies.py         *)
(*                                                                         *)
(* The two tokens of an answer are issued together and have one number     *)
(* here.  A call carries the cookies the browser has when it is sent; the  *)
(* cookies of an answer are set when it arrives.                           *)
(***************************************************************************)
EXTENDS Naturals

CONSTANTS
  Tabs,
  MaxWakes,    \* MAX_WAKE_RETRIES: how often a lost call is sent again
  MaxCalls,    \* bound: calls made by the pages and their users
  MaxTokens,   \* bound: pairs of tokens issued
  MaxLost,     \* bound: requests or answers lost
  MaxAged      \* bound: tokens that run out, accounts that are blocked

ASSUME BoundsAssumption ==
  MaxWakes \in Nat /\ MaxCalls \in Nat /\ MaxTokens \in Nat \ {0}
  /\ MaxLost \in Nat /\ MaxAged \in Nat

Nobody == "nobody"

ASSUME TabsAssumption == Nobody \notin Tabs

VARIABLES
  issued,    \* how many pairs of tokens were issued: their names
  row,       \* pair -> "unborn", "live", "revoked" or "gone" (refresh_tokens)
  valid,     \* the access tokens that have not run out
  active,    \* the account is not deactivated
  jar,       \* the browser's cookies: the pair's number, or 0
  page,      \* tab -> "closed", "app" or "login"
  calls,     \* calls of the tabs that are not settled
  refreshes, \* POSTs to /auth/refresh under way
  made,      \* how many calls were made: their names
  lost, aged, \* how many requests were lost, how often time has done its part
  spentBy,   \* history: pair -> the tab that rotated it, or Nobody
  astray,    \* history: refresh tokens sent in a request whose answer was lost
             \* or abandoned
  out        \* history: calls made when a logout was last settled, 0 since a login

vars == <<issued, row, valid, active, jar, page, calls, refreshes, made, lost, aged,
          spentBy, astray, out>>
server == <<issued, row, valid, active, spentBy>>

Pairs == 1 .. MaxTokens

\* A browser that was signed in with the first pair, before the tabs open; its
\* access token may have run out.
Init ==
  /\ issued = 1
  /\ row = [k \in Pairs |-> IF k = 1 THEN "live" ELSE "unborn"]
  /\ valid \in {{1}, {}} /\ active = TRUE
  /\ jar = [access |-> IF valid = {} THEN 0 ELSE 1, refresh |-> 1]
  /\ page = [t \in Tabs |-> "closed"]
  /\ calls = {} /\ refreshes = {}
  /\ made = 0 /\ lost = 0 /\ aged = 0
  /\ spentBy = [k \in Pairs |-> Nobody] /\ astray = {} /\ out = 0

-----------------------------------------------------------------------------
(* Calls of a tab.                                                         *)

\* A call as it leaves the browser, with the cookies of that moment.
Sent(c, cookies) ==
  [c EXCEPT !.st = "sent", !.access = cookies.access, !.refresh = cookies.refresh]

\* kind: "me" (fetchUser), "page", "login" or "logout"; pair: issued by a login.
Call(t, kind) ==
  [tab |-> t, n |-> made + 1, kind |-> kind, retry |-> FALSE, wakes |-> 0,
   st |-> "sent", access |-> jar.access, refresh |-> jar.refresh, pair |-> 0]

Make(t, kind) ==
  /\ made < MaxCalls
  /\ made' = made + 1
  /\ calls' = calls \cup {Call(t, kind)}
  /\ UNCHANGED <<server, jar, refreshes, lost, aged, astray>>

Change(c, d) == calls' = (calls \ {c}) \cup {d}

\* The application is opened, also from the login page: its layout asks who is
\* signed in.
Open(t) ==
  /\ page[t] # "app"
  /\ page' = [page EXCEPT ![t] = "app"]
  /\ Make(t, "me")

\* The layout shows its pages when it knows the user.
Shown(t) == page[t] = "app" /\ ~\E c \in calls : c.tab = t /\ c.kind = "me"

\* Anything a page asks of the server.
Ask(t) == Shown(t) /\ Make(t, "page") /\ UNCHANGED page

Login(t) == page[t] = "login" /\ Make(t, "login") /\ UNCHANGED page

\* The user signs out: the call is made, and nobody waits for its answer.
logout(t) ==
  /\ Shown(t)
  /\ page' = [page EXCEPT ![t] = "login"]
  /\ Make(t, "logout")

\* The tab loads /login: its calls are abandoned, and any refresh but r.
Bounce(t, r) ==
  /\ page' = [page EXCEPT ![t] = "login"]
  /\ calls' = {c \in calls : c.tab # t}
  /\ refreshes' = {IF q.tab = t THEN [q EXCEPT !.gone = TRUE] ELSE q : q \in refreshes \ {r}}
  /\ astray' = astray \cup {c.refresh : c \in {d \in calls : d.tab = t /\ d.kind = "logout"}}
                     \cup {q.token : q \in {d \in refreshes \ {r} : d.tab = t}}

\* A call is over with an error.  The layout, which asked who is signed in,
\* moves to /login without loading it: other calls of the tab go on.
Reject(c) ==
  /\ calls' = calls \ {c}
  /\ page' = IF c.kind = "me" THEN [page EXCEPT ![c.tab] = "login"] ELSE page

-----------------------------------------------------------------------------
(* The client: api-client.ts.                                              *)

\* The refresh that call c starts.
Refresh(c) ==
  [tab |-> c.tab, n |-> c.n, token |-> jar.refresh, st |-> "sent", pair |-> 0, gone |-> FALSE]

\* The refresh this tab is waiting for: refreshPromise.
refreshPromise(t) == {r \in refreshes : r.tab = t /\ ~r.gone}

\* mutant: every 401 sends a refresh of its own
RefreshEach(c) == refreshes' = refreshes \cup {Refresh(c)}

\* A 401 joins the refresh under way or starts one.
performRefresh(c) ==
  refreshes' = IF refreshPromise(c.tab) # {} THEN refreshes ELSE refreshes \cup {Refresh(c)}

\* 401 on a call that was not retried yet: refresh first, then retry.
Unauthorized(c) ==
  /\ c.st = "401" /\ c.kind \in {"me", "page"} /\ ~c.retry
  /\ Change(c, [c EXCEPT !.st = "waiting", !.retry = TRUE])
  /\ performRefresh(c)
  /\ UNCHANGED <<server, jar, page, made, lost, aged, astray>>

\* 401 on the retry: the caller gets the error.
UnauthorizedAgain(c) ==
  /\ c.st = "401" /\ c.retry
  /\ Reject(c)
  /\ UNCHANGED <<server, jar, refreshes, made, lost, aged, astray>>

\* 401 on a call of the session itself: to /login, whatever else is under way.
UnauthorizedLogout(c) ==
  /\ c.st = "401" /\ c.kind = "logout"
  /\ Bounce(c.tab, c)
  /\ UNCHANGED <<server, jar, made, lost, aged>>

\* A lost call sleeps and is sent again, with the cookies of then.
WakeRetry(c) ==
  /\ c.st = "lost" /\ c.wakes < MaxWakes
  /\ Change(c, [Sent(c, jar) EXCEPT !.wakes = @ + 1])
  /\ UNCHANGED <<server, jar, page, refreshes, made, lost, aged, astray>>

GiveUp(c) ==
  /\ c.st = "lost" /\ c.wakes >= MaxWakes
  /\ Reject(c)
  /\ UNCHANGED <<server, jar, refreshes, made, lost, aged, astray>>

\* An answer other than 401 settles the call; those of login and logout set and
\* clear the cookies.
Answered(c) ==
  /\ c.st \in {"ok", "bad"}
  /\ jar' = CASE c.kind = "login" /\ c.st = "ok" -> [access |-> c.pair, refresh |-> c.pair]
              [] c.kind = "logout" /\ c.st = "ok" -> [access |-> 0, refresh |-> 0]
              [] OTHER -> jar
  /\ page' = IF c.kind = "login" /\ c.st = "ok" THEN [page EXCEPT ![c.tab] = "app"] ELSE page
  /\ calls' = calls \ {c}
  /\ UNCHANGED <<server, refreshes, made, lost, aged, astray>>

\* mutant: of the calls that waited only one is sent again
RefreshedOne(r) ==
  /\ r.st = "granted" /\ ~r.gone
  /\ jar' = [access |-> r.pair, refresh |-> r.pair]
  /\ refreshes' = refreshes \ {r}
  /\ \E c \in calls : /\ c.tab = r.tab /\ c.st = "waiting"
                     /\ Change(c, Sent(c, jar'))
  /\ UNCHANGED <<server, page, made, lost, aged, astray>>

\* mutant: the calls go on, and the cookies of the answer are not kept
RefreshedUnkept(r) ==
  /\ r.st = "granted" /\ ~r.gone
  /\ refreshes' = refreshes \ {r}
  /\ calls' = {IF c.tab = r.tab /\ c.st = "waiting" THEN Sent(c, jar) ELSE c : c \in calls}
  /\ UNCHANGED <<server, jar, page, made, lost, aged, astray>>

\* The new pair is in the cookies, and every call that waited is sent again.
Refreshed(r) ==
  /\ r.st = "granted" /\ ~r.gone
  /\ jar' = [access |-> r.pair, refresh |-> r.pair]
  /\ refreshes' = refreshes \ {r}
  /\ calls' = {IF c.tab = r.tab /\ c.st = "waiting" THEN Sent(c, jar') ELSE c : c \in calls}
  /\ UNCHANGED <<server, page, made, lost, aged, astray>>

\* Refused, or lost: the tab loads /login.
RefreshFailed(r) ==
  /\ r.st \in {"refused", "lost"} /\ ~r.gone
  /\ Bounce(r.tab, r)
  /\ UNCHANGED <<server, jar, made, lost, aged>>

\* The answer to a tab that has loaded another page in between: the browser may
\* still take the cookies or may have dropped the request.
RefreshOrphaned(r) ==
  /\ r.gone /\ r.st \in {"granted", "refused", "lost"}
  /\ refreshes' = refreshes \ {r}
  /\ \/ /\ r.st = "granted"
        /\ jar' = [access |-> r.pair, refresh |-> r.pair]
     \/ UNCHANGED jar
  /\ UNCHANGED <<server, page, calls, made, lost, aged, astray>>

-----------------------------------------------------------------------------
(* The server: auth/router.py.  A request commits with its last statement.  *)

browser == <<jar, page, refreshes, made, lost, aged, astray>>

\* get_current_user: the access token is there, has not run out, and the
\* account is active.
get_current_user(c) == c.access \in valid /\ active

\* mutant: the tracking row is not added
IssueUntracked(rows) ==
  /\ issued < MaxTokens
  /\ issued' = issued + 1
  /\ row' = rows
  /\ valid' = valid \cup {issued + 1}

\* A pair for the browser; the old tokens of the account stay as they are.
Issue(rows) ==
  /\ issued < MaxTokens
  /\ issued' = issued + 1
  /\ row' = [rows EXCEPT ![issued + 1] = "live"]
  /\ valid' = valid \cup {issued + 1}

\* Any endpoint that needs a signed-in user.
Serve(c) ==
  /\ c.st = "sent" /\ c.kind \in {"me", "page"}
  /\ Change(c, [c EXCEPT !.st = IF get_current_user(c) THEN "ok" ELSE "401"])
  /\ UNCHANGED <<server, browser>>

login_endpoint(c) ==
  /\ c.st = "sent" /\ c.kind = "login"
  /\ IF active
       THEN /\ Issue(row)
            /\ Change(c, [c EXCEPT !.st = "ok", !.pair = issued + 1])
       ELSE /\ Change(c, [c EXCEPT !.st = "bad"])
            /\ UNCHANGED <<issued, row, valid>>
  /\ UNCHANGED <<active, spentBy, browser>>

\* Signing out needs a valid access token; then the refresh token is revoked,
\* and the answer clears the cookies.
logout_endpoint(c) ==
  /\ c.st = "sent" /\ c.kind = "logout"
  /\ IF get_current_user(c)
       THEN /\ row' = [k \in Pairs |-> IF k = c.refresh /\ row[k] = "live" THEN "revoked" ELSE row[k]]
            /\ Change(c, [c EXCEPT !.st = "ok"])
       ELSE /\ Change(c, [c EXCEPT !.st = "401"])
            /\ UNCHANGED row
  /\ UNCHANGED <<issued, valid, active, spentBy, browser>>

Tell(r, q) == refreshes' = (refreshes \ {r}) \cup {q}

\* The first half of refresh_endpoint: the token is there, known, not revoked
\* and not run out, and the account is active.  No lock is taken.
CheckToken(r) ==
  /\ r.st = "sent"
  /\ LET good == r.token # 0 /\ row[r.token] = "live" /\ active
     IN  Tell(r, [r EXCEPT !.st = IF good THEN "checked" ELSE "refused"])
  /\ UNCHANGED <<server, jar, page, calls, made, lost, aged, astray>>

\* The second half: the token is revoked, whatever became of it since, and a
\* new pair is issued.
Rotate(r) ==
  /\ r.st = "checked"
  /\ Issue([row EXCEPT ![r.token] = "revoked"])
  /\ spentBy' = [spentBy EXCEPT ![r.token] = r.tab]
  /\ Tell(r, [r EXCEPT !.st = "granted", !.pair = issued + 1])
  /\ UNCHANGED <<active, jar, page, calls, made, lost, aged, astray>>

-----------------------------------------------------------------------------
(* What goes wrong, and what time does.                                    *)

Ages == aged < MaxAged /\ aged' = aged + 1 /\ UNCHANGED lost
Loses == lost < MaxLost /\ lost' = lost + 1 /\ UNCHANGED aged

\* An access token runs out; the browser drops its cookie at the same age.
AccessExpires ==
  /\ Ages
  /\ \E k \in valid :
       /\ valid' = valid \ {k}
       /\ jar' = [jar EXCEPT !.access = IF @ = k THEN 0 ELSE @]
  /\ UNCHANGED <<issued, row, active, spentBy, page, calls, refreshes, made, astray>>

\* A refresh token runs out, and the nightly sweep deletes its row.
RefreshExpires ==
  /\ Ages
  /\ \E k \in {i \in Pairs : row[i] \in {"live", "revoked"}} :
       /\ row' = [row EXCEPT ![k] = "gone"]
       /\ jar' = [jar EXCEPT !.refresh = IF @ = k THEN 0 ELSE @]
  /\ UNCHANGED <<issued, valid, active, spentBy, page, calls, refreshes, made, astray>>

Deactivate ==
  /\ Ages /\ active
  /\ active' = FALSE
  /\ UNCHANGED <<issued, row, valid, spentBy, jar, page, calls, refreshes, made, astray>>

\* A call or its answer is lost, or the server is starting up (429, 502, 503).
CallLost(c) ==
  /\ Loses /\ c.st \in {"sent", "ok"}
  /\ Change(c, [c EXCEPT !.st = "lost", !.pair = 0])
  /\ astray' = IF c.kind = "logout" THEN astray \cup {c.refresh} ELSE astray
  /\ UNCHANGED <<server, jar, page, refreshes, made>>

RefreshLost(r) ==
  /\ Loses /\ r.st \in {"sent", "granted"}
  /\ Tell(r, [r EXCEPT !.st = "lost", !.pair = 0])
  /\ astray' = astray \cup {r.token}
  /\ UNCHANGED <<server, jar, page, calls, made>>

-----------------------------------------------------------------------------
User(t) == Open(t) \/ Ask(t) \/ Login(t) \/ logout(t)

Serving ==
  \/ \E c \in calls : Serve(c) \/ login_endpoint(c) \/ logout_endpoint(c)
  \/ \E r \in refreshes : CheckToken(r) \/ Rotate(r)

Answering ==
  \/ \E c \in calls : \/ Answered(c) \/ WakeRetry(c) \/ GiveUp(c)
                      \/ Unauthorized(c) \/ UnauthorizedAgain(c) \/ UnauthorizedLogout(c)
  \/ \E r \in refreshes : Refreshed(r) \/ RefreshFailed(r) \/ RefreshOrphaned(r)

Failing ==
  \/ AccessExpires \/ RefreshExpires \/ Deactivate
  \/ \E c \in calls : CallLost(c)
  \/ \E r \in refreshes : RefreshLost(r)

\* The history of logouts, beside every step.
SignedOut ==
  out' = IF \E c \in calls : c.kind = "logout" /\ ~\E d \in calls' : d.n = c.n THEN made'
         ELSE IF \E d \in calls' : d.kind = "login" /\ d.n > made THEN 0 ELSE out

Next == ((\E t \in Tabs : User(t)) \/ Serving \/ Answering \/ Failing) /\ SignedOut

Spec == Init /\ [][Next]_vars

\* The server answers and answers arrive; no user has to act.
FairSpec == Spec /\ WF_vars(Serving /\ SignedOut) /\ WF_vars(Answering /\ SignedOut)

-----------------------------------------------------------------------------
(* Properties.                                                             *)

CallType == [tab : Tabs, n : 1 .. MaxCalls, kind : {"me", "page", "login", "logout"},
             retry : BOOLEAN, wakes : 0 .. MaxWakes,
             st : {"sent", "ok", "bad", "401", "lost", "waiting"},
             access : 0 .. MaxTokens, refresh : 0 .. MaxTokens, pair : 0 .. MaxTokens]

RefreshType == [tab : Tabs, n : 1 .. MaxCalls, token : 0 .. MaxTokens, gone : BOOLEAN, pair : 0 .. MaxTokens,
                st : {"sent", "checked", "granted", "refused", "lost"}]

\* The types of the rows, the cookies, the tabs and the requests under way; and
\* no pair that was not issued is known to anyone.
TypeOK ==
  /\ issued \in Pairs
  /\ row \in [Pairs -> {"unborn", "live", "revoked", "gone"}]
  /\ \A k \in Pairs : row[k] = "unborn" <=> k > issued
  /\ valid \subseteq 1 .. issued /\ active \in BOOLEAN
  /\ jar \in [access : 0 .. issued, refresh : 0 .. issued]
  /\ page \in [Tabs -> {"closed", "app", "login"}]
  /\ calls \subseteq CallType /\ refreshes \subseteq RefreshType
  /\ \A c \in calls : c.access <= issued /\ c.refresh <= issued /\ c.pair <= issued
  /\ \A r \in refreshes : r.token <= issued /\ r.pair <= issued
  /\ \A r \in refreshes : r.st \in {"checked", "granted"} => r.token # 0
  /\ made \in 0 .. MaxCalls /\ lost \in 0 .. MaxLost /\ aged \in 0 .. MaxAged
  /\ spentBy \in [Pairs -> Tabs \cup {Nobody}]
  /\ astray \subseteq 0 .. MaxTokens /\ out \in 0 .. MaxCalls

\* The refresh cookie names a revoked token only while the answer that replaces
\* or clears it is under way, or after such an answer was lost: when two tabs
\* refresh, sign out and sign in across each other, the browser is never left
\* with a cookie that the server has given up on.
CookieIsNeverSpent ==
  (jar.refresh # 0 /\ row[jar.refresh] = "revoked")
    => \/ \E r \in refreshes : r.st = "granted" /\ r.token = jar.refresh
       \/ \E c \in calls : c.kind = "logout" /\ c.st = "ok" /\ c.refresh = jar.refresh
       \/ jar.refresh \in astray

\* A tab is refused a refresh because the token was already rotated only when
\* another tab rotated it, or the answer to its own rotation was lost: calls of
\* one tab that fail together share one refresh ("a parallel second refresh
\* returns 400 and bounces the user to /login", api-client.ts).
NeverRefusedByItself ==
  \A r \in refreshes :
    (r.st = "refused" /\ r.token # 0)
      => spentBy[r.token] # r.tab \/ r.token \in astray

\* Every call of a tab is settled, also the calls that wait for a refresh which
\* another call has started, and those that are retried.
CallsSettle ==
  \A t \in Tabs : (\E c \in calls : c.tab = t) ~> (\A c \in calls : c.tab # t)

\* After a logout has been settled nobody is signed in without a login: the
\* refresh token is revoked and the cookies are cleared (auth-store.ts).
SignedOutStaysOut ==
  \A c \in calls : (out # 0 /\ c.n > out /\ c.kind = "me") => c.st # "ok"
=============================================================================
