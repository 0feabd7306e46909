---------------------------- MODULE AdminSessions ----------------------------
(***************************************************************************)
(* The administrator's sessions and the gate in front of every handler:    *)
(* adminSessionStore, withAdminAuth, handleAdminLogin and handleAdminLogout *)
(* of internal/web/admin_auth.go, and withCSRF of internal/web/csrf.go.    *)
(*                                                                         *)
(* The store is a map from tokens to expiry times in the memory of the     *)
(* process.  It is modelled by the time each entry has left, in units of   *)
(* which Ttl make adminSessionTTL; every method of the store is one        *)
(* critical section of its mutex.                                          *)
(*                                                                         *)
(* The browser (external) has one session cookie.  It sends requests       *)
(* without waiting for one another, and each answer may set the cookie:    *)
(* answers arrive in any order or not at all.  Scripts send no cookie but  *)
(* the administrator's name and password (Basic Auth).                     *)
(***************************************************************************)
EXTENDS Naturals

CONSTANTS
    Requests,    \* goroutines that serve a request
    Tokens,      \* session tokens
    NoToken,     \* no session cookie
    Ttl          \* adminSessionTTL

ASSUME SessionAssumption ==
    /\ NoToken \notin Tokens
    /\ "keep" \notin Tokens \union {NoToken}
    /\ Ttl \in Nat \ {0}

VARIABLES
    sessions,    \* entries: the time left, for the tokens that have an entry
    jar,         \* browser: the session cookie
    at,          \* where each request is
    req,         \* each request: its kind, what it carries, what its answer sets
    given,       \* history: tokens created so far
    idle,        \* history: the time since a session was last used
    ended,       \* history: tokens logged out, or lost with the process
    untold,      \* history: ended tokens the browser was not told about
    stale,       \* history: requests sent before the last login or logout answer
    overtaken    \* history: the cookie was last set by the answer to such a one

sessionHistory == <<given, idle, ended, untold, stale, overtaken>>
sessionVars == <<sessions, jar, at, req, sessionHistory>>

Keep == "keep"      \* the answer leaves the cookie alone
Stages == {"idle", "sent", "handler", "answer"}
NoRequest == [kind |-> "none", basic |-> FALSE, cookie |-> NoToken, sets |-> Keep]

\* A new process, and a browser that may have been logged in to an earlier one.
SessionInit ==
    /\ sessions = [t \in {} |-> 0]
    /\ jar = NoToken
    /\ at = [r \in Requests |-> "idle"]
    /\ req = [r \in Requests |-> NoRequest]
    /\ given = {} /\ ended = {} /\ untold = {}
    /\ idle = [t \in Tokens |-> 0]
    /\ stale = {} /\ overtaken = FALSE

------------------------------------------------------------------------------
\* An entry counts until its time has come; Dead entries are still stored.
Live(t) == t \in DOMAIN sessions /\ sessions[t] > 0
Dead == {t \in DOMAIN sessions : sessions[t] = 0}
Without(S) == [t \in DOMAIN sessions \ S |-> sessions[t]]

SendRequest(r, kind, basic) ==
    /\ at[r] = "idle"
    /\ req' = [req EXCEPT ![r] = [kind |-> kind, basic |-> basic, sets |-> Keep,
                                  cookie |-> IF basic THEN NoToken ELSE jar]]
    /\ at' = [at EXCEPT ![r] = "sent"]
    /\ UNCHANGED <<sessions, jar, sessionHistory>>

Answer(r) == at' = [at EXCEPT ![r] = "answer"]

\* 401, 403 or the way to the login page: no handler sees the request.
TurnAway(r, sets) ==
    /\ Answer(r)
    /\ req' = [req EXCEPT ![r].kind = "denied", ![r].sets = sets]

\* withCSRF: an unsafe method needs a trusted origin and the echoed token.  The
\* cookie the gate has set goes out with either answer.
Screen(r, sets) ==
    \/ /\ at' = [at EXCEPT ![r] = "handler"]
       /\ req' = [req EXCEPT ![r].sets = sets]
    \/ req[r].kind # "page" /\ TurnAway(r, sets)

\* Mutant of Renew: only the cookie is renewed.
RenewCookieOnly(r) ==
    /\ at[r] = "sent" /\ req[r].kind \notin {"login", "logout"}
    /\ Live(req[r].cookie)
    /\ idle' = [idle EXCEPT ![req[r].cookie] = 0]
    /\ Screen(r, req[r].cookie)
    /\ UNCHANGED <<sessions, jar, given, ended, untold, stale, overtaken>>

\* withAdminAuth with renew: the session lives for another Ttl, and so does the
\* cookie in the answer.  renew walks the map in any order and stops at the
\* entry, so that it may leave dead ones behind.
Renew(r) ==
    LET c == req[r].cookie
    IN  /\ at[r] = "sent" /\ req[r].kind \notin {"login", "logout"}
        /\ Live(c)
        /\ \E gone \in SUBSET Dead : sessions' = [Without(gone) EXCEPT ![c] = Ttl]
        /\ idle' = [idle EXCEPT ![c] = 0]
        /\ Screen(r, c)
        /\ UNCHANGED <<jar, given, ended, untold, stale, overtaken>>

\* withAdminAuth with validAdminRequest: a logout does not renew.
CheckLogout(r) ==
    /\ at[r] = "sent" /\ req[r].kind = "logout"
    /\ Live(req[r].cookie)
    /\ sessions' = Without(Dead)
    /\ Screen(r, Keep)
    /\ UNCHANGED <<jar, sessionHistory>>

\* No live session: Basic Auth lets the request in, else it is turned away.
NoSession(r) ==
    /\ at[r] = "sent" /\ req[r].kind # "login"
    /\ ~Live(req[r].cookie)
    /\ sessions' = IF req[r].cookie = NoToken THEN sessions ELSE Without(Dead)
    /\ IF req[r].basic THEN Screen(r, Keep) ELSE TurnAway(r, Keep)
    /\ UNCHANGED <<jar, sessionHistory>>

\* isPublicAdminRoute.
PublicRoute(r) ==
    /\ at[r] = "sent" /\ req[r].kind = "login"
    /\ Screen(r, Keep)
    /\ UNCHANGED <<sessions, jar, sessionHistory>>

\* handleAdminLogin with create: a token nobody has had.
Login(r) ==
    /\ at[r] = "handler" /\ req[r].kind = "login"
    /\ \E t \in Tokens \ given :
        /\ sessions' = [u \in DOMAIN sessions \union {t} |-> IF u = t THEN Ttl ELSE sessions[u]]
        /\ given' = given \union {t}
        /\ idle' = [idle EXCEPT ![t] = 0]
        /\ req' = [req EXCEPT ![r].sets = t]
    /\ Answer(r)
    /\ UNCHANGED <<jar, ended, untold, stale, overtaken>>

\* A wrong name or password, or a handler that leaves sessions alone.
NoLogin(r) ==
    /\ at[r] = "handler" /\ req[r].kind \in {"login", "page"}
    /\ Answer(r)
    /\ UNCHANGED <<sessions, jar, req, sessionHistory>>

\* Mutant of Logout: the answer leaves the cookie in the browser.
LogoutKeepsCookie(r) ==
    LET c == req[r].cookie
    IN  /\ at[r] = "handler" /\ req[r].kind = "logout"
        /\ sessions' = Without({c})
        /\ ended' = ended \union ({c} \ {NoToken})
        /\ untold' = untold \union ({c} \ (ended \union {NoToken}))
        /\ Answer(r)
        /\ UNCHANGED <<jar, req, given, idle, stale, overtaken>>

\* handleAdminLogout with revoke; the answer clears the cookie.
Logout(r) ==
    LET c == req[r].cookie
    IN  /\ at[r] = "handler" /\ req[r].kind = "logout"
        /\ sessions' = Without({c})
        /\ ended' = ended \union ({c} \ {NoToken})
        /\ untold' = untold \union ({c} \ (ended \union {NoToken}))
        /\ req' = [req EXCEPT ![r].sets = NoToken]
        /\ Answer(r)
        /\ UNCHANGED <<jar, given, idle, stale, overtaken>>

Forgotten(r) ==
    /\ at' = [at EXCEPT ![r] = "idle"]
    /\ req' = [req EXCEPT ![r] = NoRequest]

\* The answer reaches the browser, in the order the network likes.  A login or
\* a logout makes the requests on their way old.
Deliver(r) ==
    LET c == req[r]
        onTheirWay == {q \in Requests \ {r} : at[q] # "idle" /\ ~req[q].basic}
    IN  /\ at[r] = "answer"
        /\ Forgotten(r)
        /\ IF c.basic \/ c.sets = Keep
           THEN stale' = stale \ {r} /\ UNCHANGED <<jar, overtaken>>
           ELSE /\ jar' = c.sets
                /\ overtaken' = (r \in stale)
                /\ stale' = IF c.sets = c.cookie THEN stale \ {r} ELSE onTheirWay
        /\ untold' = IF c.kind = "logout" THEN untold \ {c.cookie} ELSE untold
        /\ UNCHANGED <<sessions, given, idle, ended>>

LoseAnswer(r) ==
    /\ at[r] = "answer"
    /\ Forgotten(r)
    /\ stale' = stale \ {r}
    /\ UNCHANGED <<sessions, jar, given, idle, ended, untold, overtaken>>

\* Time passes.
Tick ==
    /\ sessions' = [t \in DOMAIN sessions |-> IF sessions[t] = 0 THEN 0 ELSE sessions[t] - 1]
    /\ idle' = [t \in Tokens |-> IF t \notin given \/ idle[t] = Ttl THEN idle[t] ELSE idle[t] + 1]
    /\ UNCHANGED <<jar, at, req, given, ended, untold, stale, overtaken>>

\* The process ends: the sessions were in memory only, requests get no answer.
SessionsLost ==
    /\ sessions' = [t \in {} |-> 0]
    /\ at' = [r \in Requests |-> "idle"]
    /\ req' = [r \in Requests |-> NoRequest]
    /\ ended' = given
    /\ untold' = untold \union (given \ ended)
    /\ stale' = {}
    /\ UNCHANGED <<jar, given, idle, overtaken>>

Gate(r) == Renew(r) \/ CheckLogout(r) \/ NoSession(r) \/ PublicRoute(r)
Session(r) == Login(r) \/ NoLogin(r) \/ Logout(r) \/ Deliver(r) \/ LoseAnswer(r)

------------------------------------------------------------------------------
RequestKinds == {"none", "denied", "plan", "draw", "claim", "toggle", "put",
                 "login", "logout", "page"}

RequestsWith(cookies) ==
    [kind : RequestKinds, basic : BOOLEAN, cookie : cookies, sets : cookies \union {Keep}]

\* A cookie is a token that was given out.
SessionTypeOK ==
    /\ DOMAIN sessions \subseteq given
    /\ sessions \in [DOMAIN sessions -> 0..Ttl]
    /\ jar \in given \union {NoToken}
    /\ at \in [Requests -> Stages]
    /\ req \in [Requests -> RequestsWith(given \union {NoToken})]
    /\ given \subseteq Tokens /\ untold \subseteq ended /\ ended \subseteq given
    /\ idle \in [Tokens -> 0..Ttl]
    /\ stale \subseteq Requests
    /\ overtaken \in BOOLEAN

\* A session is let in exactly from its login to its logout, the end of the
\* process, or Ttl without a request.
SessionsAreRight ==
    \A t \in Tokens : Live(t) <=> t \in given \ ended /\ idle[t] < Ttl

\* The store counts down what the session has left, and what it has dropped
\* was logged out or idle for Ttl.
TimesAreRight ==
    \A t \in given :
        IF t \in DOMAIN sessions
        THEN t \notin ended /\ sessions[t] = Ttl - idle[t]
        ELSE t \in ended \/ idle[t] = Ttl

\* A browser that was logged in and is not told otherwise stays logged in: its
\* cookie is that of a live session, unless the session was idle for Ttl, or
\* has ended without an answer that says so, or the answer to a request sent
\* before the last login or logout came after it and put an old cookie back.
CookieIsGood ==
    jar # NoToken =>
        Live(jar) \/ idle[jar] = Ttl \/ jar \in untold \/ overtaken

\* What an answer under way does to the cookie: a script has none, a logout
\* clears it, and a token it sets is that of a good session unless the request
\* was sent before the last login or logout answer.
AnswersAreGood ==
    \A r \in Requests :
        /\ at[r] = "idle" => req[r] = NoRequest
        /\ at[r] = "sent" => req[r].sets = Keep
        /\ req[r].basic => req[r].cookie = NoToken
        /\ at[r] = "answer" /\ req[r].kind = "logout" => req[r].sets = NoToken
        /\ req[r].sets \in Tokens /\ ~req[r].basic =>
               \/ Live(req[r].sets) \/ idle[req[r].sets] = Ttl
               \/ req[r].sets \in untold \/ r \in stale

SessionInv == SessionTypeOK /\ SessionsAreRight /\ TimesAreRight /\ AnswersAreGood
==============================================================================
