------------------------------- MODULE Panel -------------------------------
(***************************************************************************)
(* Being logged in to the web panel, and the pages that poll: the sessions *)
(* of the server (src/web/auth.rs, login and logout in web/api.rs), and in *)
(* the browser AuthContext.jsx, Login.jsx, RequireAuth of App.jsx, the     *)
(* logout of Layout.jsx, Dashboard.jsx and QueryLog.jsx, all of which send *)
(* their requests with api.js.                                             *)
(*                                                                         *)
(* Several windows of one browser share its cookie.  A request carries the *)
(* cookie of the moment it was sent; it is answered, or fails, at any time *)
(* later and in any order, and nothing the panel does takes one back.      *)
(* Cookies the answers set are set when they arrive.                       *)
(*                                                                         *)
(* Time passes in ticks; a session is dropped if it was not used for more  *)
(* than TTL of them, the cookie TTL after the login, used or not.          *)
(* Authentication is enabled.                                              *)
(***************************************************************************)
EXTENDS Integers, FiniteSets

CONSTANTS
    Window,
    View,      \* what a window may show: [page, ask, timed], the login page left out
    Start,     \* what the pages show first, one view for each page
    Login,     \* the login page
    None,
    TTL,
    MaxTokens, \* bound: sessions the server makes
    MaxCalls   \* bound: requests under way per window that the user or a timer adds

ASSUME ViewAssumption == Start \subseteq View /\ Login \notin View
ASSUME NoneAssumption == None \notin Nat
ASSUME BoundAssumption == TTL \in Nat /\ MaxTokens \in Nat /\ MaxCalls \in Nat \ {0}

VARIABLES
    sessions,  \* ticks since each session was used, or None
    issued,    \* sessions made so far; tokens are never repeated
    cookie,    \* the browser's: [token, age], or None
    status,    \* AuthContext's status of each window
    view,      \* what it shows, if it is not checking
    rows,      \* whose data it shows: what they were asked for, or None
    calls      \* its requests under way

vars == <<sessions, issued, cookie, status, view, rows, calls>>

Token == 1..MaxTokens
Ask == {v.ask : v \in View}
Call == [win : Window, slot : 1..MaxCalls, kind : {"probe", "load", "login", "logout"},
         token : Token \cup {None}, ask : Ask \cup {None},
         answer : {"none", "ok", "401"}, set : Token \cup {None}]

\* The session of a token is there and not too old.
Live(t) == t \in Token /\ sessions[t] # None /\ sessions[t] <= TTL
CookieToken == IF cookie = None THEN None ELSE cookie.token

Init ==
    /\ sessions = [t \in Token |-> None]
    /\ issued = 0
    /\ cookie = None
    /\ status = [w \in Window |-> "closed"]
    /\ view = [w \in Window |-> Login]
    /\ rows = [w \in Window |-> None]
    /\ calls = {}

---------------------------------------------------------------------------
(* Requests *)

FreeSlot(w, cs) == {s \in 1..MaxCalls : \A c \in cs : c.win = w => c.slot # s}

\* One more request, in the lowest free place.
Send(w, cs, kind, ask) ==
    cs \cup {[win |-> w, slot |-> CHOOSE s \in FreeSlot(w, cs) : \A r \in FreeSlot(w, cs) : s <= r,
              kind |-> kind, token |-> CookieToken, ask |-> ask,
              answer |-> "none", set |-> None]}

MaySend(w) == FreeSlot(w, calls) # {}

\* A page that goes does not see the answers to its requests.
Unmounted(w, cs) ==
    {IF c.win = w THEN [c EXCEPT !.ask = None] ELSE c : c \in cs}

---------------------------------------------------------------------------
(* The server *)

Answered(c, answer, set) ==
    calls' = (calls \ {c}) \cup
        {[win |-> c.win, slot |-> c.slot, kind |-> c.kind, token |-> c.token,
          ask |-> c.ask, answer |-> answer, set |-> set]}

\* Mutant of Touch: the session is made if it is not there.
TouchInserts(t) == IF t = None THEN sessions ELSE [sessions EXCEPT ![t] = 0]

\* Mutant of Touch: the time of its use is set before it is looked at.
TouchFirst(t) ==
    IF t = None \/ sessions[t] = None THEN sessions ELSE [sessions EXCEPT ![t] = 0]

\* A session that is found is refreshed, or removed if it is too old.
Touch(t) ==
    IF t = None \/ sessions[t] = None THEN sessions
    ELSE [sessions EXCEPT ![t] = IF @ > TTL THEN None ELSE 0]

\* Any request but login and logout goes through require_auth.
ServeProtected(c) ==
    /\ c.kind \in {"probe", "load"}
    /\ sessions' = Touch(c.token)
    /\ Answered(c, IF Live(c.token) THEN "ok" ELSE "401", None)
    /\ UNCHANGED issued

ServeLogin(c) ==
    /\ c.kind = "login"
    /\ \/ /\ issued < MaxTokens
          /\ issued' = issued + 1
          /\ sessions' = [sessions EXCEPT ![issued + 1] = 0]
          /\ Answered(c, "ok", issued + 1)
       \/ /\ Answered(c, "401", None)
          /\ UNCHANGED <<sessions, issued>>

ServeLogout(c) ==
    /\ c.kind = "logout"
    /\ sessions' = IF c.token = None THEN sessions ELSE [sessions EXCEPT ![c.token] = None]
    /\ Answered(c, "ok", None)
    /\ UNCHANGED issued

Serve(c) ==
    /\ c.answer = "none"
    /\ ServeProtected(c) \/ ServeLogin(c) \/ ServeLogout(c)
    /\ UNCHANGED <<cookie, status, view, rows>>

\* Sessions are in memory only.
Restart ==
    /\ sessions' = [t \in Token |-> None]
    /\ UNCHANGED <<issued, cookie, status, view, rows, calls>>

Tick ==
    /\ sessions' = [t \in Token |-> IF sessions[t] = None \/ sessions[t] > TTL
                                    THEN sessions[t] ELSE sessions[t] + 1]
    /\ cookie' = IF cookie = None \/ cookie.age >= TTL THEN None
                 ELSE [cookie EXCEPT !.age = @ + 1]
    /\ cookie # None \/ sessions' # sessions
    /\ UNCHANGED <<issued, status, view, rows, calls>>

---------------------------------------------------------------------------
(* The window *)

\* A page is mounted: it asks for its data at once.
Shows(w, v, cs) ==
    /\ view' = [view EXCEPT ![w] = v]
    /\ rows' = [rows EXCEPT ![w] = None]
    /\ calls' = IF v = Login THEN Unmounted(w, cs) ELSE Send(w, Unmounted(w, cs), "load", v.ask)

\* Mutant of Kicked: the page stays.
KickedInPlace(w, cs) ==
    /\ status' = [status EXCEPT ![w] = "anon"]
    /\ calls' = cs
    /\ UNCHANGED <<view, rows>>

\* The status becomes anon: RequireAuth leads to the login page.
Kicked(w, cs) ==
    /\ status' = [status EXCEPT ![w] = "anon"]
    /\ Shows(w, Login, cs)

\* The panel is opened, at a page or at its login page. One that is loaded again
\* remembers nothing, and counts as another window.
OpenWindow(w, v) ==
    /\ status[w] = "closed"
    /\ view' = [view EXCEPT ![w] = v]
    /\ rows' = [rows EXCEPT ![w] = None]
    /\ status' = [status EXCEPT ![w] = "checking"]
    /\ calls' = Send(w, calls, "probe", None)
    /\ UNCHANGED <<sessions, issued, cookie>>

\* The form is sent; the button is disabled until it is answered.
Submit(w) ==
    /\ status[w] # "closed" /\ view[w] = Login
    /\ \A c \in calls : c.win = w => c.kind # "login"
    /\ MaySend(w)
    /\ calls' = Send(w, calls, "login", None)
    /\ UNCHANGED <<sessions, issued, cookie, status, view, rows>>

Mounted(w) == status[w] = "authed" /\ view[w] # Login

Logout(w) ==
    /\ Mounted(w) /\ MaySend(w)
    /\ calls' = Send(w, calls, "logout", None)
    /\ UNCHANGED <<sessions, issued, cookie, status, view, rows>>

\* Another page of the panel.
Navigate(w, v) ==
    /\ Mounted(w) /\ v \in Start /\ v.page # view[w].page
    /\ MaySend(w)
    /\ Shows(w, v, calls)
    /\ UNCHANGED <<sessions, issued, cookie, status>>

\* Another filter or switch of the log: it asks again if what it asks for is
\* another thing. The rows stay until the answer is there.
Adjust(w, v) ==
    /\ Mounted(w) /\ v # view[w] /\ v.page = view[w].page
    /\ view' = [view EXCEPT ![w] = v]
    /\ IF v.ask = view[w].ask THEN UNCHANGED calls
       ELSE MaySend(w) /\ calls' = Send(w, calls, "load", v.ask)
    /\ UNCHANGED <<sessions, issued, cookie, status, rows>>

Poll(w) ==
    /\ Mounted(w) /\ MaySend(w)
    /\ calls' = Send(w, calls, "load", view[w].ask)
    /\ UNCHANGED <<sessions, issued, cookie, status, view, rows>>

\* Mutant of Timer: no timer runs.
TimerOff(w) == FALSE /\ Poll(w)

\* The interval of the overview, and of the log if it shows what is live.
Timer(w) == Mounted(w) /\ view[w].timed /\ Poll(w)

\* The button of the log.
Refresh(w) == Mounted(w) /\ view[w].page = "querylog" /\ Poll(w)

---------------------------------------------------------------------------
(* Answers *)

\* The browser takes the cookie of the answer.
SetCookie(c) ==
    cookie' = IF c.kind = "logout" THEN None
              ELSE IF c.set # None THEN [token |-> c.set, age |-> 0] ELSE cookie

\* The form is left for the page the window was led away from, or the first.
LoggedIn(c) ==
    /\ c.kind = "login" /\ c.answer = "ok"
    /\ status' = [status EXCEPT ![c.win] = "authed"]
    /\ \E v \in Start : Shows(c.win, v, calls \ {c})

\* The probe says who is there, and any failure but 401 counts as yes.
Probed(c) ==
    /\ c.kind = "probe" /\ c.answer # "401"
    /\ status' = [status EXCEPT ![c.win] = "authed"]
    /\ IF status[c.win] # "authed" THEN Shows(c.win, view[c.win], calls \ {c})
       ELSE calls' = calls \ {c} /\ UNCHANGED <<view, rows>>

\* Mutant of Loaded: rows are taken once and for all.
LoadedOnce(c) ==
    /\ c.kind = "load" /\ c.answer = "ok"
    /\ rows' = IF c.ask = None \/ rows[c.win] # None THEN rows
               ELSE [rows EXCEPT ![c.win] = c.ask]
    /\ calls' = calls \ {c}
    /\ UNCHANGED <<status, view>>

\* Data arrive: they are shown, whatever the page asks for by now.
Loaded(c) ==
    /\ c.kind = "load" /\ c.answer = "ok"
    /\ rows' = IF c.ask = None THEN rows ELSE [rows EXCEPT ![c.win] = c.ask]
    /\ calls' = calls \ {c}
    /\ UNCHANGED <<status, view>>

\* 401 to anything but a login, and the end of a logout, come what may.
LoggedOff(c) ==
    /\ c.kind = "logout" \/ (c.kind # "login" /\ c.answer = "401")
    /\ Kicked(c.win, calls \ {c})

\* An error is shown, or nothing: the login form, and a page whose load failed.
ErrorShown(c) ==
    /\ c.kind = "login" \/ (c.kind = "load" /\ c.answer # "401")
    /\ calls' = calls \ {c}
    /\ UNCHANGED <<status, view, rows>>

\* The answer arrives.
Arrive(c) ==
    /\ c.answer # "none"
    /\ SetCookie(c)
    /\ \/ LoggedIn(c) \/ Probed(c) \/ Loaded(c) \/ LoggedOff(c)
       \/ (c.kind = "login" /\ c.answer = "401" /\ ErrorShown(c))
    /\ UNCHANGED <<sessions, issued>>

\* The request or its answer is lost, or the answer is an error of the server.
\* A 401 need not be lost: the window is then where a lost request leaves it.
Fail(c) ==
    /\ c.answer # "401"
    /\ Probed(c) \/ (c.kind = "logout" /\ LoggedOff(c)) \/ ErrorShown(c)
    /\ UNCHANGED <<sessions, issued, cookie>>

---------------------------------------------------------------------------
(* Windows that are not looked at share the cookie of the browser *)

LoginElsewhere ==
    /\ issued < MaxTokens
    /\ issued' = issued + 1
    /\ sessions' = [sessions EXCEPT ![issued + 1] = 0]
    /\ cookie' = [token |-> issued + 1, age |-> 0]
    /\ UNCHANGED <<status, view, rows, calls>>

LogoutElsewhere ==
    /\ cookie # None
    /\ sessions' = [sessions EXCEPT ![cookie.token] = None]
    /\ cookie' = None
    /\ UNCHANGED <<issued, status, view, rows, calls>>

Next ==
    \/ \E w \in Window :
          \/ \E v \in Start \cup {Login} : OpenWindow(w, v)
          \/ Submit(w)
          \/ Logout(w)
          \/ \E v \in Start : Navigate(w, v)
          \/ \E v \in View : Adjust(w, v)
          \/ Timer(w)
          \/ Refresh(w)
    \/ \E c \in calls : Serve(c) \/ Arrive(c) \/ Fail(c)
    \/ Restart
    \/ Tick
    \/ LoginElsewhere
    \/ LogoutElsewhere

Spec == Init /\ [][Next]_vars

Of(w) == {c \in calls : c.win = w}

\* An answer to what the page asks for.
Wanted(c) == view[c.win] # Login /\ c.ask = view[c.win].ask

\* Timers run and requests come to an end; of those a page repeats without end
\* some are served, and some answers arrive.
FairSpec ==
    /\ Spec
    /\ \A w \in Window :
          /\ WF_vars(Timer(w))
          /\ WF_vars(\E c \in Of(w) : Arrive(c) \/ Fail(c))
          /\ SF_vars(\E c \in Of(w) : Serve(c))
          /\ SF_vars(\E c \in Of(w) : Wanted(c) /\ Arrive(c))

---------------------------------------------------------------------------
(* Properties *)

\* The state has the form the code gives it, and no page is shown that
\* RequireAuth hides (App.jsx:33-50): without a session there are no rows.
TypeOK ==
    /\ sessions \in [Token -> 0..TTL + 1 \cup {None}]
    /\ issued \in 0..MaxTokens
    /\ cookie \in [token : Token, age : 0..TTL] \cup {None}
    /\ status \in [Window -> {"closed", "checking", "authed", "anon"}]
    /\ view \in [Window -> View \cup {Login}]
    /\ rows \in [Window -> Ask \cup {None}]
    /\ calls \subseteq Call
    /\ \A w \in Window : status[w] # "authed" => rows[w] = None
    /\ \A w \in Window : status[w] = "anon" => view[w] = Login

\* A session that was ended by a logout, an expiry or a restart never comes to
\* life again, whatever requests with its token are still to come (touch,
\* auth.rs:78-90, takes no session up that is not there).
DeadStaysDead ==
    [][\A t \in 1..issued : ~Live(t) => ~Live(t)']_vars

\* A window whose browser holds the cookie of a session that lives is led to the
\* login page only by its own logout, or by the answer to a request that was sent
\* with another cookie: before the login, in this window or another (load in the
\* pages, AuthContext.jsx:46-48).
KickedForAReason ==
    [][\A w \in Window :
           status[w] = "authed" /\ status'[w] = "anon" /\ Live(CookieToken) =>
               \E c \in Of(w) : \/ c.kind = "logout"
                                \/ c.answer = "401" /\ c.token # CookieToken]_vars

\* A window with a page that polls notices the end of its session, unless it is
\* logged in anew or turned to a view that does not poll (Dashboard.jsx:28-32,
\* QueryLog.jsx:30-34).
EndIsNoticed ==
    \A w \in Window :
        Mounted(w) /\ view[w].timed /\ ~Live(CookieToken) ~>
            ~Mounted(w) \/ ~view[w].timed \/ Live(CookieToken)

\* Answers arrive in any order and are shown as they arrive, so that a page may
\* show rows for another filter than its own; where a timer runs it does not stay
\* that way (QueryLog.jsx:15-34).
RowsCatchUp ==
    \A w \in Window : \A v \in {u \in View : u.timed} :
        view[w] = v ~> rows[w] = v.ask \/ view[w] # v \/ ~Mounted(w)
=============================================================================
