---------------------------- MODULE LoginSessions ----------------------------
(***************************************************************************)
(* Logins and sessions of the middleware: the /oauth2 handlers of          *)
(* middleware/internal/gateway/gateway.go and the proxies of proxy.go.     *)
(*                                                                         *)
(* A request carries the cookies its browser had when it was sent, and its *)
(* answer sets cookies when it arrives; handlers run concurrently and      *)
(* share attempts and sessions under one lock.  A login, its state and     *)
(* nonce, and the session it leads to have the same number, as each is     *)
(* made once.  Cookies are signed, so a cookie is one the server set; they *)
(* do not expire in the browser, which leaves that to the server.  Times   *)
(* are the ticks that are left; what has none left is gone, as every       *)
(* access to the tables starts with cleanupLocked.  The                    *)
(* identity provider is external: an exchange and the check of its tokens  *)
(* succeed or fail.  WIN_TEST builds are left out.                         *)
(***************************************************************************)
EXTENDS Integers, Sequences

CONSTANTS Clients,     \* browsers
          Handlers,    \* requests that may be under way
          MaxLogins,   \* bound on the logins that are started
          LoginTTL, SessionTTL,
          TokenLives   \* how long the tokens of a login may live

ASSUME LoginAssumption ==
    /\ MaxLogins \in Nat
    /\ {LoginTTL, SessionTTL} \union TokenLives \subseteq Nat \ {0}

VARIABLES
    attempts,   \* state -> ticks left, 0 if it is not there
    sessions,   \* session -> ticks left, 0 if it is not there
    jar,        \* the cookies of a browser: login and session, 0 if none
    handler,    \* the requests under way
    startedBy,  \* the logins that were started, each by its browser
    exchanged,  \* ghost: the browsers whose callbacks exchanged a login's code
    left        \* ghost: ticks of SessionTTL left to a session, 0 when it was
                \* never made, logged out or replaced
loginVars == <<attempts, sessions, jar, handler, startedBy, exchanged, left>>

Logins == 1..MaxLogins

\* The cookies an answer sets; Kept is one it does not set.
Kept == -1
Keep == [login |-> Kept, session |-> Kept]
SetLogin(l) == [login |-> l, session |-> Kept]
SetSession(s) == [login |-> Kept, session |-> s]
SetBoth(l, s) == [login |-> l, session |-> s]

\* A handler: its browser b and the session cookie it came with; state and login
\* cookie of a callback, exp the life of its tokens; where a proxied request
\* goes and whether it has an account's credential; an answer's cookies and the
\* credential the request was passed on with.
Idle == [pc |-> "idle", b |-> "nobody", session |-> 0, state |-> 0, login |-> 0, exp |-> 0,
         upstream |-> "none", account |-> FALSE, cookies |-> Keep, credential |-> "none"]

LoginInit ==
    /\ attempts = [l \in Logins |-> 0]
    /\ sessions = [l \in Logins |-> 0]
    /\ jar = [b \in Clients |-> [login |-> 0, session |-> 0]]
    /\ handler = [h \in Handlers |-> Idle]
    /\ startedBy = <<>>
    /\ exchanged = [l \in Logins |-> <<>>]
    /\ left = [l \in Logins |-> 0]

-----------------------------------------------------------------------------
(* The store, under the lock; what requests and answers carry *)

Without(table, l) == IF l = 0 THEN table ELSE [table EXCEPT ![l] = 0]

\* The session the request carries is deleted.
DropSession(s) ==
    /\ sessions' = Without(sessions, s)
    /\ left' = Without(left, s)

\* A request, with the session cookie its browser has now.
Send(h, b, request) ==
    /\ handler[h] = Idle
    /\ handler' = [handler EXCEPT ![h] = [request EXCEPT !.b = b, !.session = jar[b].session]]
    /\ UNCHANGED <<attempts, sessions, jar, startedBy, exchanged, left>>

\* Its answer, with the cookies it sets and the credential it was passed on with.
Answer(h, cookies, credential) ==
    handler' = [handler EXCEPT ![h] = [Idle EXCEPT !.pc = "answer", !.b = handler[h].b, !.cookies = cookies,
                                                    !.credential = credential]]

\* A cookie of the browser after an answer that may set it.
Taken(old, set) == IF set = Kept THEN old ELSE set

\* The browser takes the cookies, or is gone.
AnswerArrives(h) ==
    /\ handler[h].pc = "answer"
    /\ \/ jar' = [jar EXCEPT ![handler[h].b] = [login |-> Taken(@.login, handler[h].cookies.login),
                                                session |-> Taken(@.session, handler[h].cookies.session)]]
       \/ UNCHANGED jar
    /\ handler' = [handler EXCEPT ![h] = Idle]
    /\ UNCHANGED <<attempts, sessions, startedBy, exchanged, left>>

-----------------------------------------------------------------------------
(* start *)

\* The request's cookies do not matter.
Start(h, b) ==
    LET l == Len(startedBy) + 1
    IN  /\ handler[h] = Idle /\ l \in Logins
        /\ attempts' = [attempts EXCEPT ![l] = LoginTTL]
        /\ startedBy' = Append(startedBy, b)
        /\ handler' = [handler EXCEPT ![h] = [Idle EXCEPT !.pc = "answer", !.b = b, !.cookies = SetLogin(l)]]
        /\ UNCHANGED <<sessions, jar, exchanged, left>>

-----------------------------------------------------------------------------
(* callback: the browser comes back from the identity provider *)

SendCallback(h, b, l) == Send(h, b, [Idle EXCEPT !.pc = "callback", !.state = l, !.login = jar[b].login])

\* callbackFailure, with clearSession and clearLoginCookie.
Fail(h) ==
    /\ DropSession(handler[h].session)
    /\ Answer(h, SetBoth(0, 0), "none")

\* The login cookie does not name the state, or the attempt is taken or too old.
CallbackRefused(h) ==
    LET r == handler[h]
    IN  /\ r.pc = "callback"
        /\ r.login # r.state \/ attempts[r.state] = 0
        /\ Fail(h)
        /\ UNCHANGED <<attempts, jar, startedBy, exchanged>>

\* Mutant: the attempt stays.
TakeAttemptKept(h) ==
    LET r == handler[h]
    IN  /\ r.pc = "callback" /\ r.login = r.state
        /\ attempts[r.state] # 0
        /\ handler' = [handler EXCEPT ![h].pc = "exchange", ![h].login = 0]
        /\ UNCHANGED <<attempts, sessions, jar, startedBy, exchanged, left>>

TakeAttempt(h) ==
    LET r == handler[h]
    IN  /\ r.pc = "callback" /\ r.login = r.state
        /\ attempts[r.state] # 0
        /\ attempts' = Without(attempts, r.state)
        /\ handler' = [handler EXCEPT ![h].pc = "exchange", ![h].login = 0]
        /\ UNCHANGED <<sessions, jar, startedBy, exchanged, left>>

\* exchange: the code for tokens.
Exchange(h, life) ==
    LET r == handler[h]
    IN  /\ r.pc = "exchange"
        /\ exchanged' = [exchanged EXCEPT ![r.state] = Append(@, r.b)]
        /\ handler' = [handler EXCEPT ![h].pc = "verify", ![h].exp = life]
        /\ UNCHANGED <<attempts, sessions, jar, startedBy, left>>

\* Login denied, the exchange fails, or a token is rejected or has expired.
LoginFails(h) ==
    /\ handler[h].pc \in {"exchange", "verify"}
    /\ Fail(h)
    /\ UNCHANGED <<attempts, jar, startedBy, exchanged>>

\* verifyIDToken, checkAccessToken, and the time the session may live: exp is
\* never later than expires_in after the answer.
Verify(h) ==
    LET r == handler[h]
    IN  /\ r.pc = "verify" /\ r.exp > 0
        /\ handler' = [handler EXCEPT ![h].pc = "make", ![h].exp = IF r.exp < SessionTTL THEN r.exp ELSE SessionTTL]
        /\ UNCHANGED <<attempts, sessions, jar, startedBy, exchanged, left>>

\* The session of the request gives way to the new one.  These are two critical
\* sections, but nobody knows the new id before the answer.
MakeSession(h) ==
    LET r == handler[h]
    IN  /\ r.pc = "make"
        /\ sessions' = [Without(sessions, r.session) EXCEPT ![r.state] = r.exp]
        /\ left' = [Without(left, r.session) EXCEPT ![r.state] = SessionTTL]
        /\ Answer(h, SetBoth(0, r.state), "none")
        /\ UNCHANGED <<attempts, jar, startedBy, exchanged>>

-----------------------------------------------------------------------------
(* me, logout, and the proxies *)

SendLogout(h, b) == Send(h, b, [Idle EXCEPT !.pc = "logout"])

\* Mutant: only the browser forgets the session.
LogoutOfBrowser(h) ==
    /\ handler[h].pc = "logout"
    /\ left' = Without(left, handler[h].session)
    /\ Answer(h, SetSession(0), "none")
    /\ UNCHANGED <<attempts, sessions, jar, startedBy, exchanged>>

Logout(h) ==
    /\ handler[h].pc = "logout"
    /\ DropSession(handler[h].session)
    /\ Answer(h, SetSession(0), "none")
    /\ UNCHANGED <<attempts, jar, startedBy, exchanged>>

\* current
Current(h) == handler[h].session # 0 /\ sessions[handler[h].session] > 0

SendMe(h, b) == Send(h, b, [Idle EXCEPT !.pc = "me"])

Me(h) ==
    /\ handler[h].pc = "me"
    /\ Answer(h, IF Current(h) THEN Keep ELSE SetSession(0), "none")
    /\ UNCHANGED <<attempts, sessions, jar, startedBy, exchanged, left>>

\* To the backend with or without an account's credential, or to the agent
\* server and the LLM server, which take none.
SendProxied(h, b, upstream, account) ==
    Send(h, b, [Idle EXCEPT !.pc = "proxied", !.upstream = upstream, !.account = account])

\* serveBackend: an account's credential is passed on as it is, unless it is
\* malformed; privateSession refuses it.
ServeAccount(h) ==
    /\ handler[h].pc = "proxied" /\ handler[h].account
    /\ \E credential \in {"none"} \union (IF handler[h].upstream = "backend" THEN {"account"} ELSE {}) :
         Answer(h, Keep, credential)
    /\ UNCHANGED <<attempts, sessions, jar, startedBy, exchanged, left>>

\* serveBackend, serveAgent, serveLLM: the service's credential for a session
\* (that of a route and method which exist).
ServeSession(h) ==
    /\ handler[h].pc = "proxied" /\ ~handler[h].account
    /\ Answer(h, Keep, IF Current(h) THEN "service" ELSE "none")
    /\ UNCHANGED <<attempts, sessions, jar, startedBy, exchanged, left>>

-----------------------------------------------------------------------------
(* The environment *)

\* cleanupLocked removes what has no tick left.
Tick ==
    LET Older(table) == [l \in Logins |-> IF table[l] = 0 THEN 0 ELSE table[l] - 1]
    IN  /\ attempts' = Older(attempts) /\ sessions' = Older(sessions) /\ left' = Older(left)
        /\ handler' = [h \in Handlers |->
              IF handler[h].pc = "verify" /\ handler[h].exp > 0 THEN [handler[h] EXCEPT !.exp = @ - 1] ELSE handler[h]]
        /\ UNCHANGED <<jar, startedBy, exchanged>>

\* The middleware keeps its logins and sessions in memory only.
MiddlewareRestart ==
    /\ attempts' = [l \in Logins |-> 0]
    /\ sessions' = [l \in Logins |-> 0]
    /\ handler' = [h \in Handlers |-> Idle]
    /\ UNCHANGED <<jar, startedBy, exchanged, left>>

LoginNext ==
    \/ \E h \in Handlers, b \in Clients :
         \/ Start(h, b) \/ SendLogout(h, b) \/ SendMe(h, b)
         \/ \E l \in DOMAIN startedBy : SendCallback(h, b, l)
         \/ \E up \in {"backend", "agent or llm"}, account \in BOOLEAN : SendProxied(h, b, up, account)
    \/ \E h \in Handlers :
         \/ CallbackRefused(h) \/ TakeAttempt(h) \/ LoginFails(h) \/ Verify(h) \/ MakeSession(h)
         \/ \E life \in TokenLives : Exchange(h, life)
         \/ Logout(h) \/ Me(h) \/ ServeAccount(h) \/ ServeSession(h) \/ AnswerArrives(h)
    \/ Tick \/ MiddlewareRestart

LoginSpec == LoginInit /\ [][LoginNext]_loginVars

-----------------------------------------------------------------------------
(* Properties. *)

\* takeAttempt: however many callbacks of a login are sent, before or after the
\* login cookie is cleared, by whatever browser: its code is exchanged at most
\* once, and by the browser that started it.
LoginsAreOneShot ==
    \A l \in Logins : exchanged[l] = <<>> \/ exchanged[l] = <<startedBy[l]>>

\* current, clearSession: a request gets a service's credential only with the
\* session of a login that its own browser started, that was neither logged out
\* nor replaced before the request was handled, and that is not older than
\* SessionTTL.
CredentialsNeedASession ==
    [][\A h \in Handlers :
         handler[h].pc = "proxied" /\ handler'[h].pc = "answer" /\ handler'[h].credential = "service" =>
            LET s == handler[h].session
            IN  s # 0 /\ startedBy[s] = handler[h].b /\ left[s] > 0]_loginVars
=============================================================================
