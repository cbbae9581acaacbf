---------------------------- MODULE PanelProofs ----------------------------
(***************************************************************************)
(* Proofs about Panel, for any windows, views, sessions and requests: an   *)
(* ended session stays ended, a window whose session lives is logged off   *)
(* for a reason only, and the pages show what they may.                    *)
(*                                                                         *)
(* The second rests on the first.  A request is answered 401 when its      *)
(* session has ended.  The answer may be under way for as long as it       *)
(* likes, and what it says stays true, because tokens are never repeated   *)
(* and touch() revives nothing.                                            *)
(*                                                                         *)
(* For the third, a page that goes sees none of the answers to what it     *)
(* asked: what is asked for a page is asked in a window that is logged in. *)
(* Requests of one window have places of their own.                        *)
(***************************************************************************)
EXTENDS Panel, WellFoundedInduction, TLAPS

\* A request is a record of its fields.
Shaped(c) ==
    c = [win |-> c.win, slot |-> c.slot, kind |-> c.kind, token |-> c.token,
         ask |-> c.ask, answer |-> c.answer, set |-> c.set]

\* Tokens that were handed out.
Issued == 1..issued

\* A request carries a token the server made, and brings a 401 back only if that
\* token's session has ended.
CallOK(c) ==
    /\ Shaped(c)
    /\ c.win \in Window
    /\ c.token \in Issued \cup {None}
    /\ c.set \in Issued \cup {None}
    /\ c.answer = "401" /\ c.kind # "login" => ~Live(c.token)

CallsOK(cs) == \A c \in cs : CallOK(c)

\* The browser's cookie is one the server made.
CookieOK ==
    cookie # None =>
        /\ cookie = [token |-> cookie.token, age |-> cookie.age]
        /\ cookie.token \in Issued

Types ==
    /\ sessions \in [Token -> Nat \cup {None}]
    /\ issued \in 0..MaxTokens
    /\ status \in [Window -> {"closed", "checking", "authed", "anon"}]

Inv == Types /\ CookieOK /\ CallsOK(calls)

\* The step of DeadStaysDead.
Dead == \A t \in 1..issued : ~Live(t) => ~Live(t)'

---------------------------------------------------------------------------
(* Requests *)

\* A request that is sent has the cookie of the moment.
LEMMA SendOK ==
    ASSUME Inv, NEW w \in Window, NEW cs, CallsOK(cs), NEW kind, NEW ask
    PROVE  CallsOK(Send(w, cs, kind, ask))
<1> DEFINE n == CHOOSE s \in FreeSlot(w, cs) : \A r \in FreeSlot(w, cs) : s <= r
           c == [win |-> w, slot |-> n, kind |-> kind, token |-> CookieToken, ask |-> ask,
                 answer |-> "none", set |-> None]
<1>1. CookieToken \in Issued \cup {None}
  BY DEF Inv, CookieOK, CookieToken
<1>2. CallOK(c)
  <2> HIDE DEF n
  <2>1. QED
    BY <1>1 DEF CallOK, Shaped
<1>3. Send(w, cs, kind, ask) = cs \cup {c}
  BY DEF Send
<1> HIDE DEF c
<1>4. QED
  BY <1>2, <1>3 DEF CallsOK

\* Requests of a page that goes are the same requests, of nobody.
LEMMA UnmountedOK ==
    ASSUME Inv, NEW w \in Window, NEW cs, CallsOK(cs)
    PROVE  CallsOK(Unmounted(w, cs))
<1> SUFFICES ASSUME NEW c \in cs PROVE CallOK([c EXCEPT !.ask = None]) /\ CallOK(c)
  BY DEF CallsOK, Unmounted
<1>1. CallOK(c)
  BY DEF CallsOK
<1>2. [c EXCEPT !.ask = None] =
          [win |-> c.win, slot |-> c.slot, kind |-> c.kind, token |-> c.token,
           ask |-> None, answer |-> c.answer, set |-> c.set]
  BY <1>1 DEF CallOK, Shaped
<1>3. QED
  BY <1>1, <1>2 DEF CallOK, Shaped

\* What a page that is mounted does to the requests.
LEMMA ShowsOK ==
    ASSUME Inv, NEW w \in Window, NEW v, NEW cs, CallsOK(cs), Shows(w, v, cs)
    PROVE  CallsOK(calls')
<1>1. CallsOK(Unmounted(w, cs))
  BY UnmountedOK
<1>2. QED
  BY <1>1, SendOK DEF Shows

\* A step of a window: sessions are the server's.
LEMMA WindowStep ==
    ASSUME Inv, UNCHANGED <<sessions, issued>>, CallsOK(calls'), CookieOK',
           status' \in [Window -> {"closed", "checking", "authed", "anon"}]
    PROVE  Inv' /\ Dead
<1>1. CallsOK(calls)'
  BY DEF CallsOK, CallOK, Shaped, Issued, Live, Token
<1>2. QED
  BY <1>1 DEF Inv, Types, Dead, Live, Token

\* A step of the server: the sessions of tokens that were handed out do not come
\* to life, and what the requests say of them holds on.
LEMMA ServerStep ==
    ASSUME Inv, Dead, issued' \in 0..MaxTokens, issued <= issued',
           sessions' \in [Token -> Nat \cup {None}], CookieOK', UNCHANGED status,
           \A d \in calls' : d \in calls \/ CallOK(d)'
    PROVE  Inv'
<1>1. ASSUME NEW d \in calls PROVE CallOK(d)'
  <2>1. CallOK(d)
    BY DEF Inv, CallsOK
  <2>2. Issued \subseteq Issued'
    BY BoundAssumption DEF Inv, Types, Issued
  <2>3. d.token \in Issued /\ ~Live(d.token) => ~Live(d.token)'
    BY DEF Dead, Issued
  <2>4. ~Live(None)'
    BY NoneAssumption DEF Live, Token
  <2>5. QED
    BY <2>1, <2>2, <2>3, <2>4 DEF CallOK, Shaped
<1>2. CallsOK(calls)'
  BY <1>1 DEF CallsOK
<1>3. QED
  BY <1>2 DEF Inv, Types

---------------------------------------------------------------------------
(* Steps *)

\* No session, no cookie, no window.
LEMMA InvInit == Init => Inv
BY BoundAssumption DEF Init, Inv, Types, CookieOK, CallsOK, Token

\* What the user and the timers do.
LEMMA UserStep ==
    ASSUME Inv, NEW w \in Window,
           \/ \E v \in Start \cup {Login} : OpenWindow(w, v)
           \/ Submit(w) \/ Logout(w) \/ Timer(w) \/ Refresh(w)
           \/ \E v \in Start : Navigate(w, v)
           \/ \E v \in View : Adjust(w, v)
    PROVE  Inv' /\ Dead
<1>1. CallsOK(calls)
  BY DEF Inv
<1>2. UNCHANGED <<sessions, issued, cookie>>
  BY DEF OpenWindow, Submit, Logout, Timer, Refresh, Poll, Navigate, Adjust
<1>3. CookieOK'
  BY <1>2 DEF Inv, CookieOK, Issued
<1>4. status' \in [Window -> {"closed", "checking", "authed", "anon"}]
  BY DEF Inv, Types, OpenWindow, Submit, Logout, Timer, Refresh, Poll, Navigate, Adjust
<1>5. CallsOK(calls')
  <2>1. CASE \E v \in Start : Navigate(w, v)
    BY <1>1, <2>1, ShowsOK DEF Navigate
  <2>2. CASE \E v \in Start \cup {Login} : OpenWindow(w, v)
    BY <1>1, <2>2, SendOK DEF OpenWindow
  <2>3. CASE \E v \in View : Adjust(w, v)
    BY <1>1, <2>3, SendOK DEF Adjust
  <2>4. CASE Submit(w) \/ Logout(w) \/ Timer(w) \/ Refresh(w)
    BY <1>1, <2>4, SendOK DEF Submit, Logout, Timer, Refresh, Poll
  <2>5. QED
    BY <2>1, <2>2, <2>3, <2>4
<1>6. QED
  BY <1>2, <1>3, <1>4, <1>5, WindowStep

\* Requests served: a new session has a new token, 401 is said of a dead one.
LEMMA ServeStep ==
    ASSUME Inv, NEW c \in calls, Serve(c)
    PROVE  Inv' /\ Dead
<1>1. CallOK(c) /\ issued \in Nat
  BY BoundAssumption DEF Inv, CallsOK, Types
<1>2. UNCHANGED <<cookie, status>>
  BY DEF Serve
<1>3. CASE ServeProtected(c)
  <2>1. /\ sessions' = Touch(c.token) /\ issued' = issued
        /\ calls' = (calls \ {c}) \cup
               {[win |-> c.win, slot |-> c.slot, kind |-> c.kind, token |-> c.token,
                 ask |-> c.ask, answer |-> IF Live(c.token) THEN "ok" ELSE "401", set |-> None]}
    BY <1>3 DEF ServeProtected, Answered
  <2>2. sessions' \in [Token -> Nat \cup {None}]
    BY <2>1 DEF Touch, Inv, Types
  <2>3. ASSUME NEW t \in Token, ~Live(t) PROVE ~Live(t)'
    <3>1. CASE c.token = None \/ sessions[c.token] = None
      BY <2>1, <2>3, <3>1 DEF Touch, Live
    <3>2. CASE c.token # None /\ sessions[c.token] # None
      <4>1. sessions' = [sessions EXCEPT ![c.token] = IF @ > TTL THEN None ELSE 0]
        BY <2>1, <3>2 DEF Touch
      <4>2. CASE t = c.token
        <5>1. sessions[t] \in Nat /\ ~(sessions[t] <= TTL)
          BY <2>3, <3>2, <4>2 DEF Live, Inv, Types
        <5>2. sessions[t] > TTL
          BY <5>1, BoundAssumption
        <5>3. sessions'[t] = None
          BY <2>3, <4>1, <4>2, <5>2 DEF Inv, Types
        <5>4. QED
          BY <5>3 DEF Live
      <4>3. CASE t # c.token
        BY <2>3, <4>1, <4>3 DEF Live, Inv, Types
      <4>4. QED
        BY <4>2, <4>3
    <3>3. QED
      BY <3>1, <3>2
  <2>4. Dead
    BY <2>3, BoundAssumption DEF Dead, Token, Inv, Types
  <2>5. ~Live(c.token) => ~Live(c.token)'
    BY <1>1, <2>3, NoneAssumption DEF CallOK, Live, Token
  <2>6. PICK d : d = [win |-> c.win, slot |-> c.slot, kind |-> c.kind, token |-> c.token,
                      ask |-> c.ask, answer |-> IF Live(c.token) THEN "ok" ELSE "401", set |-> None]
    OBVIOUS
  <2>7. /\ Shaped(d) /\ d.win = c.win /\ d.token = c.token /\ d.set = None
        /\ d.answer = "401" => ~Live(c.token)
    BY <2>6 DEF Shaped
  <2>8. CallOK(d)'
    BY <1>1, <2>1, <2>5, <2>7 DEF CallOK, Shaped, Issued
  <2>9. calls' = (calls \ {c}) \cup {d}
    BY <2>1, <2>6
  <2>10. CookieOK'
    BY <1>2, <2>1 DEF Inv, CookieOK, Issued
  <2>11. QED
    BY <1>1, <1>2, <2>1, <2>2, <2>4, <2>8, <2>9, <2>10, ServerStep DEF Inv, Types
<1>4. CASE ServeLogin(c)
  <2>1. PICK a \in {"ok", "401"}, n \in Issued' \cup {None} :
            calls' = (calls \ {c}) \cup
               {[win |-> c.win, slot |-> c.slot, kind |-> c.kind, token |-> c.token,
                 ask |-> c.ask, answer |-> a, set |-> n]}
    BY <1>1, <1>4 DEF ServeLogin, Answered, Issued
  <2>2. PICK d : d = [win |-> c.win, slot |-> c.slot, kind |-> c.kind, token |-> c.token,
                      ask |-> c.ask, answer |-> a, set |-> n]
    OBVIOUS
  <2>3. /\ Shaped(d) /\ d.win = c.win /\ d.token = c.token /\ d.set = n /\ d.kind = c.kind
    BY <2>2 DEF Shaped
  <2>4. /\ issued' \in 0..MaxTokens /\ issued <= issued'
        /\ sessions' \in [Token -> Nat \cup {None}]
    BY <1>1, <1>4, BoundAssumption DEF ServeLogin, Inv, Types, Token
  <2>5. Dead
    BY <1>1, <1>4, BoundAssumption DEF ServeLogin, Dead, Live, Token, Inv, Types
  <2>6. Issued \subseteq Issued'
    BY <1>1, <2>4, BoundAssumption DEF Issued
  <2>7. CallOK(d)'
    BY <1>1, <1>4, <2>3, <2>6 DEF CallOK, Shaped, ServeLogin
  <2>8. CookieOK'
    BY <1>2, <2>6 DEF Inv, CookieOK
  <2>9. calls' = (calls \ {c}) \cup {d}
    BY <2>1, <2>2
  <2>10. QED
    BY <1>2, <2>4, <2>5, <2>7, <2>8, <2>9, ServerStep
<1>5. CASE ServeLogout(c)
  <2>1. PICK d : d = [win |-> c.win, slot |-> c.slot, kind |-> c.kind, token |-> c.token,
                      ask |-> c.ask, answer |-> "ok", set |-> None]
    OBVIOUS
  <2>2. /\ Shaped(d) /\ d.win = c.win /\ d.token = c.token /\ d.set = None
        /\ d.answer = "ok"
    BY <2>1 DEF Shaped
  <2>3. issued' = issued /\ calls' = (calls \ {c}) \cup {d}
    BY <1>5, <2>1 DEF ServeLogout, Answered
  <2>4. sessions' \in [Token -> Nat \cup {None}] /\ Dead
    BY <1>5 DEF ServeLogout, Inv, Types, Dead, Live, Token
  <2>5. CallOK(d)'
    BY <1>1, <2>2, <2>3 DEF CallOK, Shaped, Issued
  <2>6. CookieOK'
    BY <1>2, <2>3 DEF Inv, CookieOK, Issued
  <2>7. QED
    BY <1>1, <1>2, <2>3, <2>4, <2>5, <2>6, ServerStep DEF Inv, Types
<1>6. QED
  BY <1>3, <1>4, <1>5 DEF Serve

\* An answer or an error arrives at a window.
LEMMA AnswerStep ==
    ASSUME Inv, NEW c \in calls, Arrive(c) \/ Fail(c)
    PROVE  Inv' /\ Dead
<1>1. CallsOK(calls \ {c}) /\ CallOK(c)
  BY DEF Inv, CallsOK
<1>2. UNCHANGED <<sessions, issued>>
  BY DEF Arrive, Fail
<1>3. c.win \in Window
  BY <1>1 DEF CallOK
<1>4. CookieOK'
  <2>1. cookie' \in {cookie, None} \/ (c.set # None /\ cookie' = [token |-> c.set, age |-> 0])
    BY DEF Arrive, Fail, SetCookie
  <2>2. QED
    BY <1>1, <1>2, <2>1 DEF Inv, CookieOK, CallOK, Issued
<1>5. LoggedIn(c) \/ Probed(c) \/ Loaded(c) \/ LoggedOff(c) \/ ErrorShown(c)
  BY DEF Arrive, Fail
<1>6. status' \in [Window -> {"closed", "checking", "authed", "anon"}]
  BY <1>3, <1>5 DEF Inv, Types, LoggedIn, Probed, Loaded, LoggedOff, Kicked, ErrorShown
<1>7. CallsOK(calls')
  BY <1>1, <1>3, <1>5, ShowsOK DEF LoggedIn, Probed, Loaded, LoggedOff, Kicked, ErrorShown
<1>8. QED
  BY <1>2, <1>4, <1>6, <1>7, WindowStep

\* Restarts, time and the other windows of the browser.
LEMMA OutsideStep ==
    ASSUME Inv, Restart \/ Tick \/ LoginElsewhere \/ LogoutElsewhere \/ UNCHANGED vars
    PROVE  Inv' /\ Dead
<1>1. UNCHANGED <<status, calls>>
  BY DEF Restart, Tick, LoginElsewhere, LogoutElsewhere, vars
<1>2. /\ issued' \in 0..MaxTokens /\ issued <= issued'
      /\ sessions' \in [Token -> Nat \cup {None}]
  BY BoundAssumption, SMTT(30) DEF Inv, Types, Restart, Tick, LoginElsewhere, LogoutElsewhere, vars, Token
<1>3. Dead
  BY BoundAssumption
     DEF Inv, Types, Dead, Live, Restart, Tick, LoginElsewhere, LogoutElsewhere, vars, Token
<1>4. CookieOK'
  BY BoundAssumption
     DEF Inv, Types, CookieOK, Issued, Restart, Tick, LoginElsewhere, LogoutElsewhere, vars
<1>5. QED
  BY <1>1, <1>2, <1>3, <1>4, ServerStep

\* Every step keeps the invariant and revives no session.
LEMMA InvStep == Inv /\ [Next]_vars => Inv' /\ Dead
BY UserStep, ServeStep, AnswerStep, OutsideStep DEF Next

---------------------------------------------------------------------------
(* Theorems *)

\* The invariant holds of every execution of the panel.
THEOREM Invariance == Spec => []Inv
<1>1. Inv /\ [Next]_vars => Inv'
  BY InvStep
<1>2. QED
  BY <1>1, InvInit, PTL DEF Spec

\* touch() takes no session up that is not there or too old, and tokens are new:
\* a session that has ended stays ended, whatever requests are still to come.
THEOREM EndedStaysEnded == Spec => DeadStaysDead
<1>1. Inv /\ [Next]_vars => Dead
  BY InvStep
<1>2. QED
  BY <1>1, Invariance, PTL DEF Spec, DeadStaysDead, Dead

\* A window of a session that lives is logged off by its own logout, or by the
\* answer to a request that had another cookie.
THEOREM LoggedOffForAReason == Spec => KickedForAReason
<1> DEFINE Reason ==
        \A w \in Window :
           status[w] = "authed" /\ status'[w] = "anon" /\ Live(CookieToken) =>
               \E c \in Of(w) : \/ c.kind = "logout"
                                \/ c.answer = "401" /\ c.token # CookieToken
<1>1. ASSUME Inv, Next PROVE Reason
  <2> SUFFICES ASSUME NEW w \in Window, status[w] = "authed", status'[w] = "anon",
                      Live(CookieToken)
               PROVE  \E c \in Of(w) : \/ c.kind = "logout"
                                       \/ c.answer = "401" /\ c.token # CookieToken
    OBVIOUS
  <2>1. PICK c \in calls : Arrive(c) \/ Fail(c)
    BY <1>1 DEF Next, Inv, Types, OpenWindow, Submit, Logout, Navigate, Adjust, Timer, Refresh,
                Poll, Serve, Restart, Tick, LoginElsewhere, LogoutElsewhere
  <2>2. CallOK(c)
    BY <1>1 DEF Inv, CallsOK
  <2>3. LoggedOff(c) /\ c.win = w
    BY <1>1, <2>1, <2>2 DEF Arrive, Fail, LoggedIn, Probed, Loaded, ErrorShown, LoggedOff, Kicked,
                            CallOK, Inv, Types
  <2>4. c \in Of(w)
    BY <2>3 DEF Of
  <2>5. QED
    BY <2>2, <2>3, <2>4 DEF LoggedOff, CallOK
<1>2. UNCHANGED vars => Reason
  BY DEF vars
<1>3. Inv /\ [Next]_vars => [Reason]_vars
  BY <1>1
<1>4. QED
  BY <1>3, Invariance, PTL DEF Spec, KickedForAReason

---------------------------------------------------------------------------
(* Types *)

\* Requests under way in one window have a place of their own each.
Apart(cs) == \A c, d \in cs : c.win = d.win /\ c.slot = d.slot => c = d

CallsTyped(cs) == cs \subseteq Call /\ Apart(cs)

\* Nothing is under way in a window that is not open, and data only in one
\* that is logged in: a page that goes does not see its answers.
Attended(cs, st) ==
    \A c \in cs : st[c.win] # "closed" /\ (c.ask # None => st[c.win] = "authed")

ServerTyped ==
    /\ sessions \in [Token -> 0..TTL + 1 \cup {None}]
    /\ issued \in 0..MaxTokens
    /\ cookie \in [token : Token, age : 0..TTL] \cup {None}

PagesTyped ==
    /\ status \in [Window -> {"closed", "checking", "authed", "anon"}]
    /\ view \in [Window -> View \cup {Login}]
    /\ rows \in [Window -> Ask \cup {None}]
    /\ \A w \in Window : status[w] # "authed" => rows[w] = None
    /\ \A w \in Window : status[w] = "anon" => view[w] = Login

TypeInv == ServerTyped /\ PagesTyped /\ CallsTyped(calls) /\ Attended(calls, status)

\* The lowest free place is one of the free ones.
LEMMA LowestSlot ==
    ASSUME NEW S \in SUBSET Nat, S # {}
    PROVE  (CHOOSE s \in S : \A r \in S : s <= r) \in S
<1>1. PICK x \in S : \A y \in S : ~(<<y, x>> \in OpToRel(<, Nat))
  BY NatLessThanWellFounded, WFMin
<1>2. \A y \in S : ~(y < x)
  BY <1>1, Zenon DEF OpToRel
<1>3. \A y \in S : x <= y
  BY <1>2
<1>4. QED
  BY <1>3

\* One more request takes a place that is free.
LEMMA SendTyped ==
    ASSUME ServerTyped, NEW w \in Window, NEW cs, CallsTyped(cs), FreeSlot(w, cs) # {},
           NEW kind \in {"probe", "load", "login", "logout"}, NEW ask \in Ask \cup {None},
           NEW st, Attended(cs, st), st[w] # "closed", ask # None => st[w] = "authed"
    PROVE  CallsTyped(Send(w, cs, kind, ask)) /\ Attended(Send(w, cs, kind, ask), st)
<1>1. PICK n : n = CHOOSE s \in FreeSlot(w, cs) : \A r \in FreeSlot(w, cs) : s <= r
  OBVIOUS
<1>2. n \in FreeSlot(w, cs)
  <2>1. FreeSlot(w, cs) \subseteq Nat
    BY BoundAssumption DEF FreeSlot
  <2>2. QED
    BY <1>1, <2>1, LowestSlot
<1>3. PICK c : c = [win |-> w, slot |-> n, kind |-> kind, token |-> CookieToken, ask |-> ask,
                    answer |-> "none", set |-> None]
  OBVIOUS
<1>4. CookieToken \in Token \cup {None}
  BY DEF CookieToken, ServerTyped
<1>5. n \in 1..MaxCalls /\ \A d \in cs : d.win = w => d.slot # n
  BY <1>2 DEF FreeSlot
<1>6. c \in Call
  BY <1>3, <1>4, <1>5 DEF Call
<1>7. Send(w, cs, kind, ask) = cs \cup {c}
  BY <1>1, <1>3 DEF Send
<1>8. c.win = w /\ c.slot = n /\ c.ask = ask
  BY <1>3
<1>9. CallsTyped(cs \cup {c})
  BY <1>5, <1>6, <1>8 DEF CallsTyped, Apart
<1>10. Attended(cs \cup {c}, st)
  BY <1>8 DEF Attended
<1>11. QED
  BY <1>7, <1>9, <1>10

\* Requests of a page that goes keep their places.
LEMMA UnmountedTyped ==
    ASSUME NEW w \in Window, NEW cs, CallsTyped(cs)
    PROVE  /\ CallsTyped(Unmounted(w, cs))
           /\ FreeSlot(w, Unmounted(w, cs)) = FreeSlot(w, cs)
           /\ \A d \in Unmounted(w, cs) : IF d.win = w THEN d.ask = None ELSE d \in cs
<1> DEFINE Gone(c) == IF c.win = w THEN [c EXCEPT !.ask = None] ELSE c
<1>1. ASSUME NEW c \in cs
      PROVE  /\ Gone(c) \in Call /\ Gone(c).win = c.win /\ Gone(c).slot = c.slot
             /\ c.win = w => Gone(c).ask = None
             /\ c.win # w => Gone(c) = c
  <2>1. c \in Call
    BY DEF CallsTyped
  <2>2. CASE c.win = w
    <3>1. PICK d : d = [win |-> c.win, slot |-> c.slot, kind |-> c.kind, token |-> c.token,
                        ask |-> None, answer |-> c.answer, set |-> c.set]
      OBVIOUS
    <3>2. Gone(c) = d
      BY <2>1, <2>2, <3>1 DEF Call
    <3>3. d \in Call /\ d.win = c.win /\ d.slot = c.slot /\ d.ask = None
      BY <2>1, <3>1 DEF Call
    <3>4. QED
      BY <2>2, <3>2, <3>3
  <2>3. CASE c.win # w
    BY <2>1, <2>3
  <2>4. QED
    BY <2>2, <2>3
<1>2. PICK gone : gone = [c \in cs |-> Gone(c)]
  OBVIOUS
<1>3. /\ Unmounted(w, cs) = {gone[c] : c \in cs}
      /\ \A c \in cs : /\ gone[c] \in Call /\ gone[c].win = c.win /\ gone[c].slot = c.slot
                       /\ c.win = w => gone[c].ask = None
                       /\ c.win # w => gone[c] = c
  <2>1. Unmounted(w, cs) = {gone[c] : c \in cs}
    BY <1>2 DEF Unmounted
  <2>2. \A c \in cs : gone[c] = Gone(c)
    BY <1>2
  <2> HIDE DEF Gone
  <2>3. QED
    BY <1>1, <2>1, <2>2
<1> HIDE DEF Gone
<1>4. Apart(Unmounted(w, cs))
  <2> SUFFICES ASSUME NEW c \in cs, NEW d \in cs, gone[c].win = gone[d].win,
                      gone[c].slot = gone[d].slot
               PROVE  gone[c] = gone[d]
    BY <1>3 DEF Apart
  <2>1. c = d
    BY <1>3 DEF CallsTyped, Apart
  <2>2. QED
    BY <2>1
<1>5. FreeSlot(w, Unmounted(w, cs)) = FreeSlot(w, cs)
  BY <1>3 DEF FreeSlot
<1>6. QED
  BY <1>3, <1>4, <1>5 DEF CallsTyped

\* A page is mounted, or the login page comes and all pages go.
LEMMA ShowsTyped ==
    ASSUME TypeInv, NEW w \in Window, NEW v \in View \cup {Login}, NEW cs, CallsTyped(cs),
           Attended(cs, status), v # Login => FreeSlot(w, cs) # {},
           NEW a \in {"authed", "anon"}, a = "anon" => v = Login,
           Shows(w, v, cs), status' = [status EXCEPT ![w] = a]
    PROVE  PagesTyped' /\ CallsTyped(calls') /\ Attended(calls', status')
<1>1. /\ status \in [Window -> {"closed", "checking", "authed", "anon"}]
      /\ status'[w] = a /\ \A u \in Window \ {w} : status'[u] = status[u]
  BY DEF TypeInv, PagesTyped
<1>2. PagesTyped'
  BY DEF TypeInv, PagesTyped, Shows
<1>3. PICK ds : ds = Unmounted(w, cs)
  OBVIOUS
<1>4. /\ CallsTyped(ds) /\ FreeSlot(w, ds) = FreeSlot(w, cs)
      /\ \A d \in ds : IF d.win = w THEN d.ask = None ELSE d \in cs
  BY <1>3, UnmountedTyped
<1>5. Attended(ds, status')
  <2> SUFFICES ASSUME NEW d \in ds
               PROVE  status'[d.win] # "closed" /\ (d.ask # None => status'[d.win] = "authed")
    BY DEF Attended
  <2>1. d \in Call /\ d.win \in Window
    BY <1>4 DEF CallsTyped, Call
  <2>2. CASE d.win = w
    BY <1>1, <1>4, <2>2
  <2>3. CASE d.win # w
    BY <1>1, <1>4, <2>1, <2>3 DEF Attended
  <2>4. QED
    BY <2>2, <2>3
<1>6. CASE v = Login
  BY <1>2, <1>3, <1>4, <1>5, <1>6 DEF Shows
<1>7. CASE v # Login
  <2>1. v.ask \in Ask \cup {None} /\ a = "authed"
    BY <1>7 DEF Ask
  <2>2. calls' = Send(w, ds, "load", v.ask)
    BY <1>3, <1>7 DEF Shows
  <2>3. PICK st : st = status'
    OBVIOUS
  <2>4. PICK ask \in Ask \cup {None} : ask = v.ask
    BY <2>1
  <2>5. CallsTyped(Send(w, ds, "load", ask)) /\ Attended(Send(w, ds, "load", ask), st)
    BY <1>1, <1>4, <1>5, <1>7, <2>1, <2>3, SendTyped DEF TypeInv
  <2>6. QED
    BY <1>2, <2>2, <2>3, <2>4, <2>5
<1>8. QED
  BY <1>6, <1>7

\* No session, no cookie, no window.
LEMMA TypeInit == Init => TypeInv
BY BoundAssumption, ViewAssumption
   DEF Init, TypeInv, ServerTyped, PagesTyped, CallsTyped, Apart, Attended

\* A request of the page a window shows.
LEMMA LoadTyped ==
    ASSUME TypeInv, NEW w \in Window, Mounted(w), MaySend(w), NEW v \in View,
           UNCHANGED <<sessions, issued, cookie, status>>, PagesTyped',
           calls' = Send(w, calls, "load", v.ask)
    PROVE  TypeInv'
<1>1. PICK ask \in Ask \cup {None} : ask = v.ask
  BY DEF Ask
<1>2. status[w] = "authed" /\ FreeSlot(w, calls) # {}
  BY DEF Mounted, MaySend
<1>3. CallsTyped(Send(w, calls, "load", ask)) /\ Attended(Send(w, calls, "load", ask), status)
  BY <1>2, SendTyped DEF TypeInv
<1>4. CallsTyped(calls') /\ Attended(calls', status')
  BY <1>1, <1>3
<1>5. ServerTyped'
  BY DEF TypeInv, ServerTyped
<1>6. QED
  BY <1>4, <1>5 DEF TypeInv, CallsTyped, Apart, Attended

\* A request that asks for no data.
LEMMA AskTyped ==
    ASSUME TypeInv, NEW w \in Window, status[w] # "closed", MaySend(w),
           NEW kind \in {"login", "logout"},
           UNCHANGED <<sessions, issued, cookie, status, view, rows>>,
           calls' = Send(w, calls, kind, None)
    PROVE  TypeInv'
<1>1. FreeSlot(w, calls) # {}
  BY DEF MaySend
<1>2. CallsTyped(Send(w, calls, kind, None)) /\ Attended(Send(w, calls, kind, None), status)
  BY <1>1, SendTyped DEF TypeInv
<1>3. CallsTyped(calls') /\ Attended(calls', status')
  BY <1>2
<1>4. ServerTyped' /\ PagesTyped'
  BY DEF TypeInv, ServerTyped, PagesTyped
<1>5. QED
  BY <1>3, <1>4 DEF TypeInv, CallsTyped, Apart, Attended

\* What the user and the timers do.
LEMMA UserTyped ==
    ASSUME TypeInv, NEW w \in Window,
           \/ \E v \in Start \cup {Login} : OpenWindow(w, v)
           \/ Submit(w) \/ Logout(w) \/ Timer(w) \/ Refresh(w)
           \/ \E v \in Start : Navigate(w, v)
           \/ \E v \in View : Adjust(w, v)
    PROVE  TypeInv'
<1>1. CASE Submit(w)
  BY <1>1, AskTyped DEF Submit
<1>2. CASE Logout(w)
  BY <1>2, AskTyped DEF Logout, Mounted
<1>3. CASE Timer(w) \/ Refresh(w)
  <2>1. Poll(w) /\ Mounted(w) /\ view[w] \in View
    BY <1>3 DEF Timer, Refresh, Poll, Mounted, TypeInv, PagesTyped
  <2>2. PagesTyped'
    BY <2>1 DEF Poll, TypeInv, PagesTyped
  <2>3. QED
    BY <2>1, <2>2, LoadTyped DEF Poll
<1>4. ASSUME NEW v \in View, Adjust(w, v) PROVE TypeInv'
  <2>1. /\ UNCHANGED <<sessions, issued, cookie, status, rows>>
        /\ view' = [view EXCEPT ![w] = v] /\ Mounted(w)
    BY <1>4 DEF Adjust
  <2>2. PagesTyped'
    BY <2>1 DEF TypeInv, PagesTyped, Mounted
  <2>3. CASE UNCHANGED calls
    <3>1. ServerTyped' /\ CallsTyped(calls') /\ Attended(calls', status')
      BY <2>1, <2>3 DEF TypeInv, ServerTyped
    <3>2. QED
      BY <2>2, <3>1 DEF TypeInv, CallsTyped, Apart, Attended
  <2>4. CASE MaySend(w) /\ calls' = Send(w, calls, "load", v.ask)
    BY <2>1, <2>2, <2>4, LoadTyped
  <2>5. QED
    BY <1>4, <2>3, <2>4 DEF Adjust
<1>5. ASSUME NEW v \in Start, Navigate(w, v) PROVE TypeInv'
  <2>1. /\ UNCHANGED <<sessions, issued, cookie, status>> /\ Shows(w, v, calls)
        /\ status[w] = "authed" /\ FreeSlot(w, calls) # {} /\ v \in View
    BY <1>5, ViewAssumption DEF Navigate, Mounted, MaySend
  <2>2. status' = [status EXCEPT ![w] = "authed"]
    BY <2>1 DEF TypeInv, PagesTyped
  <2>3. PagesTyped' /\ CallsTyped(calls') /\ Attended(calls', status')
    BY <2>1, <2>2, ShowsTyped DEF TypeInv
  <2>4. ServerTyped'
    BY <2>1 DEF TypeInv, ServerTyped
  <2>5. QED
    BY <2>3, <2>4 DEF TypeInv, CallsTyped, Apart, Attended
<1>6. ASSUME NEW v \in Start \cup {Login}, OpenWindow(w, v) PROVE TypeInv'
  <2>1. /\ UNCHANGED <<sessions, issued, cookie>> /\ status[w] = "closed"
        /\ view' = [view EXCEPT ![w] = v] /\ rows' = [rows EXCEPT ![w] = None]
        /\ status' = [status EXCEPT ![w] = "checking"]
        /\ calls' = Send(w, calls, "probe", None)
    BY <1>6 DEF OpenWindow
  <2>2. PagesTyped' /\ ServerTyped'
    BY <2>1, ViewAssumption DEF TypeInv, PagesTyped, ServerTyped
  <2>3. \A c \in calls : c.win # w /\ c.win \in Window
    BY <2>1 DEF TypeInv, Attended, CallsTyped, Call
  <2>4. 1 \in FreeSlot(w, calls)
    BY <2>3, BoundAssumption DEF FreeSlot
  <2>5. PICK st : st = status'
    OBVIOUS
  <2>6. st[w] = "checking" /\ \A u \in Window \ {w} : st[u] = status[u]
    BY <2>1, <2>5 DEF TypeInv, PagesTyped
  <2>7. Attended(calls, st)
    BY <2>3, <2>6 DEF TypeInv, Attended
  <2>8. CallsTyped(Send(w, calls, "probe", None)) /\ Attended(Send(w, calls, "probe", None), st)
    BY <2>4, <2>6, <2>7, SendTyped DEF TypeInv
  <2>9. CallsTyped(calls') /\ Attended(calls', status')
    BY <2>1, <2>5, <2>8
  <2>10. QED
    BY <2>2, <2>9 DEF TypeInv, CallsTyped, Apart, Attended
<1>7. QED
  BY <1>1, <1>2, <1>3, <1>4, <1>5, <1>6

\* An answered request keeps its place.
LEMMA ServeTyped ==
    ASSUME TypeInv, NEW c \in calls, Serve(c)
    PROVE  TypeInv'
<1>1. c \in Call /\ UNCHANGED <<cookie, status, view, rows>>
  BY DEF TypeInv, CallsTyped, Serve
<1>2. PICK a \in {"ok", "401"}, n \in Token \cup {None} :
        calls' = (calls \ {c}) \cup
           {[win |-> c.win, slot |-> c.slot, kind |-> c.kind, token |-> c.token,
             ask |-> c.ask, answer |-> a, set |-> n]}
  <2>1. issued < MaxTokens => issued + 1 \in Token
    BY BoundAssumption DEF TypeInv, ServerTyped, Token
  <2>2. QED
    BY <2>1 DEF Serve, ServeProtected, ServeLogin, ServeLogout, Answered
<1>3. PICK d : d = [win |-> c.win, slot |-> c.slot, kind |-> c.kind, token |-> c.token,
                    ask |-> c.ask, answer |-> a, set |-> n]
  OBVIOUS
<1>4. /\ calls' = (calls \ {c}) \cup {d}
      /\ d \in Call /\ d.win = c.win /\ d.slot = c.slot /\ d.ask = c.ask
  BY <1>1, <1>2, <1>3 DEF Call
<1>5. CallsTyped(calls') /\ Attended(calls', status')
  <2>1. calls' \subseteq Call
    BY <1>4 DEF TypeInv, CallsTyped
  <2>2. Apart(calls')
    BY <1>4 DEF TypeInv, CallsTyped, Apart
  <2>3. Attended(calls', status')
    BY <1>1, <1>4 DEF TypeInv, Attended
  <2>4. QED
    BY <2>1, <2>2, <2>3 DEF CallsTyped
<1>6. c.token \in Token \cup {None}
  BY <1>1 DEF Call
<1>7. ServerTyped'
  <2>1. CASE ServeProtected(c)
    <3>1. CASE sessions' = sessions
      BY <1>1, <2>1, <3>1 DEF ServeProtected, TypeInv, ServerTyped
    <3>2. CASE c.token \in Token /\ sessions' = [sessions EXCEPT ![c.token] = IF @ > TTL THEN None ELSE 0]
      BY <1>1, <2>1, <3>2, BoundAssumption DEF ServeProtected, TypeInv, ServerTyped
    <3>3. QED
      BY <1>6, <2>1, <3>1, <3>2 DEF ServeProtected, Touch
  <2>2. CASE ServeLogin(c)
    BY <1>1, <2>2, BoundAssumption DEF ServeLogin, TypeInv, ServerTyped
  <2>3. CASE ServeLogout(c)
    BY <1>1, <2>3 DEF ServeLogout, TypeInv, ServerTyped
  <2>4. QED
    BY <2>1, <2>2, <2>3 DEF Serve
<1>8. PagesTyped'
  BY <1>1 DEF TypeInv, PagesTyped
<1>9. QED
  BY <1>5, <1>7, <1>8 DEF TypeInv, CallsTyped, Apart, Attended

\* An answer or an error arrives at a window.
LEMMA AnswerTyped ==
    ASSUME TypeInv, NEW c \in calls, Arrive(c) \/ Fail(c)
    PROVE  TypeInv'
<1>1. c \in Call /\ c.win \in Window /\ UNCHANGED <<sessions, issued>>
  BY DEF TypeInv, CallsTyped, Call, Arrive, Fail
<1>2. PICK w \in Window : w = c.win
  BY <1>1
<1>3. PICK cs : cs = calls \ {c}
  OBVIOUS
<1>4. CallsTyped(cs) /\ Attended(cs, status)
  BY <1>3 DEF TypeInv, CallsTyped, Apart, Attended
<1>5. FreeSlot(w, cs) # {}
  <2>1. c.slot \in FreeSlot(w, cs)
    BY <1>1, <1>2, <1>3 DEF TypeInv, CallsTyped, Apart, Call, FreeSlot
  <2>2. QED
    BY <2>1
<1>6. ServerTyped'
  <2>1. cookie' \in {cookie, None} \/ (c.set \in Token /\ cookie' = [token |-> c.set, age |-> 0])
    BY <1>1 DEF Arrive, Fail, SetCookie, Call
  <2>2. cookie' \in [token : Token, age : 0..TTL] \cup {None}
    BY <2>1, BoundAssumption DEF TypeInv, ServerTyped
  <2>3. QED
    BY <1>1, <2>2 DEF TypeInv, ServerTyped, Token
<1>7. CASE /\ \E v \in View \cup {Login} : Shows(w, v, cs)
           /\ status' = [status EXCEPT ![w] = "authed"]
  <2>1. PICK v \in View \cup {Login} : Shows(w, v, cs)
    BY <1>7
  <2>2. PagesTyped' /\ CallsTyped(calls') /\ Attended(calls', status')
    BY <1>4, <1>5, <1>7, <2>1, ShowsTyped
  <2>3. QED
    BY <1>6, <2>2 DEF TypeInv, CallsTyped, Apart, Attended
<1>8. CASE Kicked(w, cs)
  <2>1. PagesTyped' /\ CallsTyped(calls') /\ Attended(calls', status')
    BY <1>4, <1>8, ShowsTyped DEF Kicked
  <2>2. QED
    BY <1>6, <2>1 DEF TypeInv, CallsTyped, Apart, Attended
<1>9. CASE calls' = cs /\ UNCHANGED <<status, view>> /\ (UNCHANGED rows \/ Loaded(c))
  <2>1. PagesTyped'
    <3>1. CASE UNCHANGED rows
      BY <1>9, <3>1 DEF TypeInv, PagesTyped
    <3>2. CASE Loaded(c)
      <4>1. c.ask # None => status[w] = "authed"
        BY <1>2 DEF TypeInv, Attended
      <4>2. c.ask \in Ask \cup {None}
        BY <1>1 DEF Call
      <4>3. rows' = IF c.ask = None THEN rows ELSE [rows EXCEPT ![w] = c.ask]
        BY <1>2, <3>2 DEF Loaded
      <4>4. QED
        BY <1>9, <4>1, <4>2, <4>3 DEF TypeInv, PagesTyped
    <3>3. QED
      BY <1>9, <3>1, <3>2
  <2>2. CallsTyped(calls') /\ Attended(calls', status')
    BY <1>4, <1>9
  <2>3. QED
    BY <1>6, <2>1, <2>2 DEF TypeInv, CallsTyped, Apart, Attended
<1>10. CASE LoggedIn(c)
  BY <1>2, <1>3, <1>7, <1>10, ViewAssumption DEF LoggedIn
<1>11. CASE Probed(c)
  <2>1. CASE status[c.win] # "authed" /\ Shows(w, view[w], cs)
    <3>1. view[w] \in View \cup {Login}
      BY DEF TypeInv, PagesTyped
    <3>2. QED
      BY <1>2, <1>7, <1>11, <2>1, <3>1 DEF Probed
  <2>2. CASE status[c.win] = "authed" /\ calls' = cs /\ UNCHANGED <<view, rows>>
    <3>1. status' = status
      BY <1>11, <2>2 DEF Probed, TypeInv, PagesTyped
    <3>2. QED
      BY <1>9, <2>2, <3>1
  <2>3. QED
    BY <1>2, <1>3, <1>11, <2>1, <2>2 DEF Probed
<1>12. CASE Loaded(c)
  BY <1>3, <1>9, <1>12 DEF Loaded
<1>13. CASE LoggedOff(c)
  BY <1>2, <1>3, <1>8, <1>13 DEF LoggedOff
<1>14. CASE ErrorShown(c)
  BY <1>3, <1>9, <1>14 DEF ErrorShown
<1>15. QED
  BY <1>10, <1>11, <1>12, <1>13, <1>14 DEF Arrive, Fail

\* Restarts, time and the other windows of the browser.
LEMMA OutsideTyped ==
    ASSUME TypeInv, Restart \/ Tick \/ LoginElsewhere \/ LogoutElsewhere \/ UNCHANGED vars
    PROVE  TypeInv'
<1>1. UNCHANGED <<status, view, rows, calls>>
  BY DEF Restart, Tick, LoginElsewhere, LogoutElsewhere, vars
<1>2. ServerTyped'
  <2>1. CASE Restart
    BY <2>1 DEF Restart, TypeInv, ServerTyped, Token
  <2>2. CASE Tick
    <3>1. cookie' \in [token : Token, age : 0..TTL] \cup {None}
      <4>1. CASE cookie = None \/ cookie.age >= TTL
        BY <2>2, <4>1 DEF Tick
      <4>2. CASE ~(cookie = None \/ cookie.age >= TTL)
        <5>1. cookie = [token |-> cookie.token, age |-> cookie.age] /\ cookie.token \in Token
              /\ cookie.age \in 0..TTL /\ cookie.age < TTL
          BY <4>2, BoundAssumption DEF TypeInv, ServerTyped
        <5>2. cookie' = [cookie EXCEPT !.age = @ + 1]
          BY <2>2, <4>2 DEF Tick
        <5>3. cookie' = [token |-> cookie.token, age |-> cookie.age + 1]
          BY <5>1, <5>2
        <5>4. QED
          BY <5>1, <5>3, BoundAssumption
      <4>3. QED
        BY <4>1, <4>2
    <3>2. sessions' \in [Token -> 0..TTL + 1 \cup {None}]
      <4>1. sessions' = [t \in Token |-> IF sessions[t] = None \/ sessions[t] > TTL
                                         THEN sessions[t] ELSE sessions[t] + 1]
        BY <2>2 DEF Tick
      <4>2. \A t \in Token : sessions[t] \in 0..TTL + 1 \cup {None}
        BY DEF TypeInv, ServerTyped
      <4>3. QED
        BY <4>1, <4>2, BoundAssumption
    <3>3. QED
      BY <2>2, <3>1, <3>2 DEF Tick, TypeInv, ServerTyped, Token
  <2>3. CASE LoginElsewhere
    BY <2>3, BoundAssumption DEF LoginElsewhere, TypeInv, ServerTyped, Token
  <2>4. CASE LogoutElsewhere
    BY <2>4 DEF LogoutElsewhere, TypeInv, ServerTyped, Token
  <2>5. CASE UNCHANGED vars
    BY <2>5 DEF vars, TypeInv, ServerTyped, Token
  <2>6. QED
    BY <2>1, <2>2, <2>3, <2>4, <2>5
<1>3. PagesTyped'
  BY <1>1 DEF TypeInv, PagesTyped
<1>4. QED
  BY <1>1, <1>2, <1>3 DEF TypeInv, CallsTyped, Apart, Attended

\* Type correctness. Among it: a page shows no data unless its window is logged
\* in, however late an answer comes, and a window that is logged off shows the
\* login page (RequireAuth of App.jsx).
THEOREM TypeCorrect == Spec => []TypeOK
<1>1. TypeInv /\ [Next]_vars => TypeInv'
  BY UserTyped, ServeTyped, AnswerTyped, OutsideTyped DEF Next
<1>2. TypeInv => TypeOK
  BY DEF TypeInv, ServerTyped, PagesTyped, CallsTyped, TypeOK
<1>3. QED
  BY <1>1, <1>2, TypeInit, PTL DEF Spec
=============================================================================
