----------------------------- MODULE WebSession -----------------------------
(***************************************************************************)
(* The login session as the browser sees it: the API client of             *)
(* apps/web/src/lib/api-client.ts (one access token in memory, one shared  *)
(* refresh) and the provider of apps/web/src/lib/auth.tsx (status, refresh *)
(* timer) in each tab, and the refresh cookie that all tabs share.  Calls  *)
(* and answers travel, and may be lost; pages are closed while they do.    *)
(*                                                                         *)
(* Of the service only what LoginSession promises is used: a session has   *)
(* one usable token, a refresh replaces it, presenting a spent one closes  *)
(* the session, as a logout does.  A token is referred by its session and by  *)
(* whether it is spent, so that refreshes can go on without bound.         *)
(***************************************************************************)
EXTENDS Integers, FiniteSets

CONSTANTS Tab,      \* tabs of one browser
          SessionId,  \* bound of the model: sessions anything still refers to at once
          MaxLeft,  \* bound of the model: calls of pages that are gone
          Nil,        \* no cookie, no tab
          Keep      \* an answer that sets none

ASSUME SessionAssumption == MaxLeft \in Nat /\ Nil # Keep /\ {Nil, Keep} \cap (SessionId \X BOOLEAN) = {} /\ Nil \notin Tab

VARIABLES
    cookie,   \* the browser's refresh cookie: session and whether it is spent
    live,     \* sessions the service has not closed
    open,     \* the page is loaded and its provider mounted
    authStatus, \* AuthStatus of the provider
    token,    \* accessToken is one the service accepts (not null, not expired)
    timer,    \* refreshTimerRef is set
    query,    \* an authenticated request: "idle", or on its way and "good" or "bad" with its token
    calls,    \* calls to /auth on their way, or answered and on the way back
    excused   \* history: sessions one of whose refreshes was lost or not alone

webVars == <<cookie, live, open, authStatus, token, timer, query, calls, excused>>

Cookie == SessionId \X BOOLEAN
Current(s) == <<s, FALSE>>
Spent(s) == <<s, TRUE>>
Kind == {"refresh", "login", "logout"}
Waiters == {"mount", "timer", "query"}

\* ok: 2xx; brings: the Set-Cookie of the answer, Nil to clear.
Call == [tab : Tab \cup {Nil}, kind : Kind, waiters : SUBSET Waiters,
         bears : Cookie \cup {Nil}, stage : {"sent", "answered"}, ok : BOOLEAN,
         brings : Cookie \cup {Nil, Keep}]

WebTypeOK ==
    /\ cookie \in Cookie \cup {Nil}
    /\ live \subseteq SessionId
    /\ open \in [Tab -> BOOLEAN]
    /\ authStatus \in [Tab -> {"loading", "authenticated", "unauthenticated"}]
    /\ token \in [Tab -> BOOLEAN]
    /\ timer \in [Tab -> BOOLEAN]
    /\ query \in [Tab -> {"idle", "good", "bad"}]
    /\ calls \subseteq Call
    /\ excused \subseteq SessionId

WebInit ==
    /\ cookie = Nil
    /\ live = {}
    /\ open = [t \in Tab |-> FALSE]
    /\ authStatus = [t \in Tab |-> "loading"]
    /\ token = [t \in Tab |-> FALSE]
    /\ timer = [t \in Tab |-> FALSE]
    /\ query = [t \in Tab |-> "idle"]
    /\ calls = {}
    /\ excused = {}

-----------------------------------------------------------------------------
(* Calls                                                                   *)

Of(t, kind) == {c \in calls : c.tab = t /\ c.kind = kind}

\* send: every call to /auth carries the cookie of the moment.
Sent(t, kind, waiters) ==
    [tab |-> t, kind |-> kind, waiters |-> waiters,
     bears |-> IF kind = "login" THEN Nil ELSE cookie,
     stage |-> "sent", ok |-> FALSE, brings |-> Keep]

\* The session a refresh bears, or none.
Bearing(c) == {s \in SessionId : c.kind = "refresh" /\ c.bears \in {Current(s), Spent(s)}}

\* Faulty form: every caller sends a refresh of its own.
RefreshEach(t, waiter) == calls \cup {Sent(t, "refresh", {waiter})}

\* refresh: a caller joins the one that is in flight.
Refresh(t, waiter) ==
    IF Of(t, "refresh") = {} THEN calls \cup {Sent(t, "refresh", {waiter})}
    ELSE {IF c \in Of(t, "refresh") THEN [c EXCEPT !.waiters = @ \cup {waiter}] ELSE c : c \in calls}

\* A tab asks for a refresh; another one of the same session, from elsewhere, is noted.
Asks(t, waiter) ==
    /\ calls' = Refresh(t, waiter)
    /\ excused' = excused \cup UNION {Bearing(c) \cap Bearing(Sent(t, "refresh", {}))
                                        : c \in {c \in calls : c.tab # t}}

\* The calls when a tab no longer waits for those in S: some still reach the service.
Abandoned(S) ==
    {(calls \ S) \cup {[c EXCEPT !.tab = Nil, !.waiters = {}] : c \in left} :
        left \in {left \in SUBSET {c \in S : c.stage = "sent"} :
                    Cardinality(left \cup {c \in calls : c.tab = Nil}) <= MaxLeft}}

-----------------------------------------------------------------------------
(* The page and its provider                                               *)

\* The effect of AuthProvider: a silent refresh on mount.
Mount(t) ==
    /\ ~open[t]
    /\ open' = [open EXCEPT ![t] = TRUE]
    /\ Asks(t, "mount")
    /\ UNCHANGED <<cookie, live, authStatus, token, timer, query>>

\* The page goes: of its calls some still reach the service, and are answered to nobody.
Close(t) ==
    LET mine == {c \in calls : c.tab = t} IN
    /\ open[t]
    /\ open' = [open EXCEPT ![t] = FALSE]
    /\ authStatus' = [authStatus EXCEPT ![t] = "loading"]
    /\ token' = [token EXCEPT ![t] = FALSE]
    /\ timer' = [timer EXCEPT ![t] = FALSE]
    /\ query' = [query EXCEPT ![t] = "idle"]
    /\ calls' \in Abandoned(mine)
    /\ excused' = excused \cup UNION {Bearing(c) : c \in mine}
    /\ UNCHANGED <<cookie, live>>

TimerFire(t) ==
    /\ timer[t]
    /\ timer' = [timer EXCEPT ![t] = FALSE]
    /\ Asks(t, "timer")
    /\ UNCHANGED <<cookie, live, open, authStatus, token, query>>

\* handleSubmit: the login form is there while the mount refresh is on its way.
SubmitLogin(t) ==
    /\ open[t] /\ authStatus[t] # "authenticated"
    /\ Of(t, "login") = {}
    /\ calls' = calls \cup {Sent(t, "login", {})}
    /\ UNCHANGED <<cookie, live, open, authStatus, token, timer, query, excused>>

ClickLogout(t) ==
    /\ open[t] /\ authStatus[t] = "authenticated"
    /\ Of(t, "logout") = {}
    /\ timer' = [timer EXCEPT ![t] = FALSE]
    /\ calls' = calls \cup {Sent(t, "logout", {})}
    /\ UNCHANGED <<cookie, live, open, authStatus, token, query, excused>>

\* request: an authenticated request bears the token of the moment.
SendQuery(t) ==
    /\ open[t] /\ authStatus[t] = "authenticated"
    /\ query[t] = "idle"
    /\ query' = [query EXCEPT ![t] = IF token[t] THEN "good" ELSE "bad"]
    /\ UNCHANGED <<cookie, live, open, authStatus, token, timer, calls, excused>>

\* A 401 is followed by one refresh and one more try, which ends it either way.
QueryAnswered(t) ==
    /\ query[t] # "idle"
    /\ query' = [query EXCEPT ![t] = "idle"]
    /\ IF query[t] = "good" THEN UNCHANGED <<calls, excused>> ELSE Asks(t, "query")
    /\ UNCHANGED <<cookie, live, open, authStatus, token, timer>>

\* The access token's lifetime ends, with the request that bears it.
TokenExpires(t) ==
    /\ token[t]
    /\ token' = [token EXCEPT ![t] = FALSE]
    /\ query' = [query EXCEPT ![t] = IF @ = "good" THEN "bad" ELSE @]
    /\ UNCHANGED <<cookie, live, open, authStatus, timer, calls, excused>>

-----------------------------------------------------------------------------
(* The service: routes/auth.py over LoginSession                           *)

Answered(c, ok, brings) == [c EXCEPT !.stage = "answered", !.ok = ok, !.brings = brings]

\* Back to the tab it came from; to nobody if that is gone.
Replies(c, others, ok, brings) ==
    calls' = others \cup (IF c.tab = Nil THEN {} ELSE {Answered(c, ok, brings)})

\* A token is spent wherever it is.
Spend(s, k) == IF k = Current(s) THEN Spent(s) ELSE k
SpendAll(s, S) == {[c EXCEPT !.bears = Spend(s, @), !.brings = Spend(s, @)] : c \in S}

\* refresh_route with a usable token of an open session.
ServeRefresh(c) ==
    \E s \in live :
        /\ c.kind = "refresh" /\ c.bears = Current(s)
        /\ cookie' = Spend(s, cookie)
        /\ Replies([c EXCEPT !.bears = Spent(s)], SpendAll(s, calls \ {c}), TRUE, Current(s))
        /\ UNCHANGED <<live, excused>>

\* refresh_route with any other token: a spent one closes the session; no cookie, nothing to clear.
ServeReplay(c) ==
    /\ c.kind = "refresh"
    /\ \A s \in live : c.bears # Current(s)
    /\ live' = {s \in live : c.bears # Spent(s)}
    /\ Replies(c, calls \ {c}, FALSE, IF c.bears = Nil THEN Keep ELSE Nil)
    /\ UNCHANGED <<cookie, excused>>

\* login_route: a session nothing refers to (a bound of the model).
ServeLogin(c) ==
    LET referred == {cookie} \cup UNION {{d.bears, d.brings} : d \in calls}
        free == {s \in SessionId : referred \cap {Current(s), Spent(s)} = {}} IN
    /\ c.kind = "login" /\ free # {}
    /\ LET s == CHOOSE s \in free : TRUE IN
        /\ live' = live \cup {s}
        /\ excused' = excused \ {s}
        /\ Replies(c, calls \ {c}, TRUE, Current(s))
        /\ UNCHANGED cookie

\* logout_route: closes the session of any token of it, and clears.
ServeLogout(c) ==
    /\ c.kind = "logout"
    /\ live' = {s \in live : c.bears \notin {Current(s), Spent(s)}}
    /\ Replies(c, calls \ {c}, TRUE, Nil)
    /\ UNCHANGED <<cookie, excused>>

\* Throttled, rejected, or an error before anything is written.
Refuse(c) ==
    /\ Replies(c, calls \ {c}, FALSE, Keep)
    /\ UNCHANGED <<cookie, live, excused>>

Serve(c) ==
    /\ c.stage = "sent"
    /\ ServeRefresh(c) \/ ServeReplay(c) \/ ServeLogin(c) \/ ServeLogout(c) \/ Refuse(c)
    /\ UNCHANGED <<open, authStatus, token, timer, query>>

-----------------------------------------------------------------------------
(* What the tab does with an answer, or with a call that is lost           *)

\* setAccessToken by the client: a lost refresh leaves the token, a lost logout does not.
TokenAfter(c, ok, lost) ==
    \/ ok /\ c.kind \in {"refresh", "login"}
    \/ token[c.tab] /\ ~ok /\ (c.kind = "login" \/ (c.kind = "refresh" /\ lost))

\* Faulty form: the timer's refresh has no catch.
StatusAfterUncaught(c, ok) ==
    CASE c.kind = "logout" -> "unauthenticated"
      [] c.kind = "login" /\ ok -> "authenticated"
      [] c.kind = "refresh" /\ ok /\ "mount" \in c.waiters -> "authenticated"
      [] c.kind = "refresh" /\ ~ok /\ "mount" \in c.waiters -> "unauthenticated"
      [] OTHER -> authStatus[c.tab]

\* setStatus, by the continuations of refresh, login and logout.
StatusAfter(c, ok) ==
    CASE c.kind = "logout" -> "unauthenticated"
      [] c.kind = "login" /\ ok -> "authenticated"
      [] c.kind = "refresh" /\ ok /\ "mount" \in c.waiters -> "authenticated"
      [] c.kind = "refresh" /\ ~ok /\ c.waiters # {"query"} -> "unauthenticated"
      [] OTHER -> authStatus[c.tab]

\* scheduleRefresh by the same continuations.
TimerAfter(c, ok) ==
    timer[c.tab] \/ (ok /\ (c.kind = "login" \/ (c.kind = "refresh" /\ c.waiters # {"query"})))

Continue(c, ok, lost) ==
    /\ token' = [token EXCEPT ![c.tab] = TokenAfter(c, ok, lost)]
    /\ authStatus' = [authStatus EXCEPT ![c.tab] = StatusAfter(c, ok)]
    /\ timer' = [timer EXCEPT ![c.tab] = TimerAfter(c, ok)]
    /\ UNCHANGED <<live, open, query>>

Deliver(c) ==
    /\ c.stage = "answered"
    /\ cookie' = IF c.brings = Keep THEN cookie ELSE c.brings
    /\ calls' = calls \ {c}
    /\ Continue(c, c.ok, FALSE)
    /\ UNCHANGED excused

\* The browser gives it up, on the way there or back; it may still reach the service.
Lose(c) ==
    /\ c.tab \in Tab
    /\ calls' \in Abandoned({c})
    /\ excused' = excused \cup Bearing(c)
    /\ Continue(c, FALSE, TRUE)
    /\ UNCHANGED cookie

LoseOrphan(c) ==
    /\ c.tab = Nil
    /\ calls' = calls \ {c}
    /\ UNCHANGED <<cookie, live, open, authStatus, token, timer, query, excused>>

-----------------------------------------------------------------------------
Visit == \E t \in Tab : Mount(t) \/ Close(t)
Use == \E t \in Tab : SubmitLogin(t) \/ ClickLogout(t) \/ SendQuery(t) \/ QueryAnswered(t) \/ TokenExpires(t)
Proceed(t, kind) == \E c \in Of(t, kind) : Serve(c) \/ Deliver(c) \/ Lose(c)
Orphaned == \E c \in calls : c.tab = Nil /\ (Serve(c) \/ LoseOrphan(c))

WebNext ==
    \/ Visit
    \/ Use
    \/ \E t \in Tab : TimerFire(t) \/ \E kind \in Kind : Proceed(t, kind)
    \/ Orphaned

\* A timer runs out; a call is answered, or the browser gives it up.
WebFairness == \A t \in Tab : WF_webVars(TimerFire(t)) /\ \A kind \in Kind : WF_webVars(Proceed(t, kind))

WebSpec == WebInit /\ [][WebNext]_webVars /\ WebFairness

-----------------------------------------------------------------------------
\* A session whose refreshes all arrived, one at a time, is closed by a logout and by
\* nothing else: however the provider, its timer and the requests that met a 401 ask
\* for refreshes, none of them presents a token that another has already spent.
OnlyLogoutEnds ==
    [][\A s \in live \ live' : s \in excused \/ \E c \in calls : c.kind = "logout" /\ c \notin calls']_webVars

\* A tab that believes itself signed in when no session is open is told: its timer is
\* set or its refresh is under way, whatever came of the refreshes its requests asked for.
FindsOut ==
    \A t \in Tab : authStatus[t] = "authenticated" /\ live = {} ~> authStatus[t] # "authenticated" \/ live # {}
=============================================================================
