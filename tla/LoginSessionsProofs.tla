------------------------ MODULE LoginSessionsProofs ------------------------
(***************************************************************************)
(* Theorems about LoginSessions, for any browsers, concurrent handlers,    *)
(* numbers of logins and life times.                                       *)
(***************************************************************************)
EXTENDS LoginSessions, TLAPS

Ids == 0..MaxLogins
CookieIds == -1..MaxLogins

Jars == [login : Ids, session : Ids]
Cookies == [login : CookieIds, session : CookieIds]
Phases == {"idle", "callback", "exchange", "verify", "make", "logout", "me", "proxied", "answer"}
Records ==
    [pc : Phases, b : Clients \union {"nobody"}, session : Ids, state : Ids, login : Ids, exp : Nat,
     upstream : {"none", "backend", "agent or llm"}, account : BOOLEAN, cookies : Cookies,
     credential : {"none", "account", "service"}]

\* A login or session that a browser is handed is of a login it started, of
\* those that were started.
Owns(started, b, l) == l > 0 => l <= Len(started) /\ started[l] = b

\* What a request carries, and an answer sets, is its browser's.
Good(started, q) ==
    /\ q \in Records
    /\ q.pc # "idle" => q.b \in Clients
    /\ Owns(started, q.b, q.session) /\ Owns(started, q.b, q.login)
    /\ Owns(started, q.b, q.cookies.login) /\ Owns(started, q.b, q.cookies.session)
    /\ q.pc = "callback" => q.state \in 1..Len(started)
    /\ q.pc \in {"exchange", "verify", "make"} => q.state \in Logins /\ Owns(started, q.b, q.state)
    /\ q.pc = "make" => q.exp <= SessionTTL

LoginsInv == startedBy \in Seq(Clients) /\ Len(startedBy) <= MaxLogins

JarsInv ==
    /\ jar \in [Clients -> Jars]
    /\ \A b \in Clients : Owns(startedBy, b, jar[b].login) /\ Owns(startedBy, b, jar[b].session)

HandlersInv == handler \in [Handlers -> Records] /\ \A h \in Handlers : Good(startedBy, handler[h])

OwnershipInv == LoginsInv /\ JarsInv /\ HandlersInv

\* A session in the table has not been logged out or replaced, and is no older
\* than SessionTTL.
SessionsInv ==
    /\ sessions \in [Logins -> Nat] /\ left \in [Logins -> Nat]
    /\ \A l \in Logins : sessions[l] <= left[l]

Exchanging(h, l) == handler[h].pc = "exchange" /\ handler[h].state = l

\* An attempt is in the table, with one handler, or its code has been exchanged.
AttemptsInv ==
    /\ attempts \in [Logins -> Nat] /\ exchanged \in [Logins -> Seq(Clients)]
    /\ \A l \in Logins : attempts[l] # 0 =>
          exchanged[l] = <<>> /\ l <= Len(startedBy) /\ \A h \in Handlers : ~Exchanging(h, l)
    /\ \A l \in Logins, h \in Handlers : Exchanging(h, l) =>
          exchanged[l] = <<>> /\ \A k \in Handlers : Exchanging(k, l) => k = h
    /\ \A l \in Logins : exchanged[l] # <<>> => l <= Len(startedBy) /\ exchanged[l] = <<startedBy[l]>>

LoginInv == OwnershipInv /\ SessionsInv /\ AttemptsInv

USE LoginAssumption

-----------------------------------------------------------------------------
(* Ownership *)

\* The record of a handler that has nothing to do.
LEMMA IdleFields ==
    /\ Idle \in Records
    /\ Idle.pc = "idle" /\ Idle.session = 0 /\ Idle.login = 0 /\ Idle.state = 0 /\ Idle.cookies = Keep
BY DEF Idle, Keep, Kept, Records, Cookies, CookieIds, Ids, Phases

LEMMA IdleIsGood ==
    ASSUME NEW started
    PROVE  Good(started, Idle)
BY DEF Good, Idle, Keep, Kept, Records, Cookies, CookieIds, Ids, Phases, Owns

\* While no login is started, a step is judged by the record it writes.
LEMMA OneHandler ==
    ASSUME OwnershipInv, NEW h \in Handlers, NEW q, Good(startedBy, q),
           handler' = [handler EXCEPT ![h] = q], UNCHANGED <<startedBy, jar>>
    PROVE  OwnershipInv'
<1>1. handler' \in [Handlers -> Records] /\ \A k \in Handlers : handler'[k] = q \/ handler'[k] = handler[k]
    BY DEF OwnershipInv, HandlersInv, Good
<1>2. \A k \in Handlers : Good(startedBy, handler'[k])
    BY <1>1 DEF OwnershipInv, HandlersInv
<1>4. HandlersInv'
    BY <1>1, <1>2 DEF HandlersInv
<1>5. LoginsInv' /\ JarsInv'
    BY DEF OwnershipInv, LoginsInv, JarsInv
<1> QED BY <1>4, <1>5 DEF OwnershipInv

\* The answer to a request, with cookies that are its browser's.
LEMMA AnswerIsGood ==
    ASSUME NEW started, NEW b \in Clients, NEW cookies \in Cookies,
           NEW credential \in {"none", "account", "service"},
           Owns(started, b, cookies.login), Owns(started, b, cookies.session)
    PROVE  Good(started, [Idle EXCEPT !.pc = "answer", !.b = b, !.cookies = cookies, !.credential = credential])
<1> DEFINE q == [Idle EXCEPT !.pc = "answer", !.b = b, !.cookies = cookies, !.credential = credential]
<1>1. /\ q \in Records /\ q.pc = "answer" /\ q.b = b /\ q.session = 0 /\ q.login = 0 /\ q.cookies = cookies
    BY IdleFields DEF Records, Phases
<1> QED BY <1>1 DEF Good, Owns

\* A request that is sent.
LEMMA SendStep ==
    ASSUME OwnershipInv, NEW h \in Handlers, NEW b \in Clients, NEW request \in Records, Send(h, b, request),
           request.pc \in {"callback", "logout", "me", "proxied"},
           request.cookies = Keep, request.login \in {0, jar[b].login},
           request.pc = "callback" => request.state \in 1..Len(startedBy)
    PROVE  OwnershipInv'
<1> DEFINE q == [request EXCEPT !.b = b, !.session = jar[b].session]
<1>1. jar[b] \in Jars /\ Owns(startedBy, b, jar[b].login) /\ Owns(startedBy, b, jar[b].session)
    BY DEF OwnershipInv, JarsInv
<1>2. /\ q \in Records /\ q.pc = request.pc /\ q.b = b /\ q.session = jar[b].session /\ q.login = request.login
      /\ q.cookies = Keep /\ q.state = request.state
    BY <1>1 DEF Records, Jars
<1> HIDE DEF q
<1>3. Good(startedBy, q)
    BY <1>1, <1>2 DEF Good, Owns, Keep, Kept
<1>4. handler' = [handler EXCEPT ![h] = q] /\ UNCHANGED <<startedBy, jar>>
    BY DEF Send, q
<1> QED BY <1>3, <1>4, OneHandler

\* What a browser owns, it owns when another login has been started.
LEMMA StartKeepsGood ==
    ASSUME NEW started \in Seq(Clients), NEW b \in Clients, NEW r, Good(started, r)
    PROVE  Good(Append(started, b), r)
<1>1. Len(started) \in Nat /\ Len(Append(started, b)) = Len(started) + 1
    OBVIOUS
<1>2. \A i \in 1..Len(started) : Append(started, b)[i] = started[i]
    OBVIOUS
<1>3. ASSUME NEW d, NEW i \in Int, Owns(started, d, i) PROVE Owns(Append(started, b), d, i)
    BY <1>1, <1>2, <1>3 DEF Owns
<1>4. r \in Records
    BY DEF Good
<1>5. r.session \in Int /\ r.login \in Int /\ r.state \in Int /\ r.cookies \in Cookies
    <2>1. r.session \in Ids /\ r.login \in Ids /\ r.state \in Ids /\ r.cookies \in Cookies
        BY <1>4 DEF Records
    <2> QED BY <2>1 DEF Ids
<1>6. r.cookies.login \in Int /\ r.cookies.session \in Int
    BY <1>5 DEF Cookies, CookieIds
<1>7. /\ Owns(started, r.b, r.session) /\ Owns(started, r.b, r.login)
      /\ Owns(started, r.b, r.cookies.login) /\ Owns(started, r.b, r.cookies.session)
    BY DEF Good
<1>8. /\ Owns(Append(started, b), r.b, r.session) /\ Owns(Append(started, b), r.b, r.login)
      /\ Owns(Append(started, b), r.b, r.cookies.login) /\ Owns(Append(started, b), r.b, r.cookies.session)
    BY <1>3, <1>5, <1>6, <1>7
<1>9. r.pc \in {"exchange", "verify", "make"} => r.state \in Logins /\ Owns(Append(started, b), r.b, r.state)
    BY <1>3, <1>5 DEF Good
<1>10. r.pc = "callback" => r.state \in 1..Len(Append(started, b))
    BY <1>1, <1>5 DEF Good
<1> QED BY <1>8, <1>9, <1>10 DEF Good

\* The login that is started belongs to the browser that starts it, and those
\* before it to theirs.
LEMMA StartStep ==
    ASSUME OwnershipInv, NEW h \in Handlers, NEW b \in Clients, Start(h, b)
    PROVE  OwnershipInv'
<1> DEFINE l == Len(startedBy) + 1
           q == [Idle EXCEPT !.pc = "answer", !.b = b, !.cookies = SetLogin(l)]
<1>1. /\ l \in Logins /\ startedBy' = Append(startedBy, b) /\ jar' = jar
      /\ handler' = [handler EXCEPT ![h] = q]
    BY DEF Start
<1>2. startedBy \in Seq(Clients) /\ Len(startedBy) \in Nat
    BY DEF OwnershipInv, LoginsInv
<1>3. /\ startedBy' \in Seq(Clients) /\ Len(startedBy') = Len(startedBy) + 1 /\ startedBy'[l] = b
      /\ \A i \in 1..Len(startedBy) : startedBy'[i] = startedBy[i]
    BY <1>1, <1>2
<1>4. LoginsInv'
    BY <1>1, <1>3 DEF LoginsInv, Logins
<1>6. JarsInv'
    <2>1. \A c \in Clients : /\ jar[c].login \in Int /\ jar[c].session \in Int
                             /\ Owns(startedBy, c, jar[c].login) /\ Owns(startedBy, c, jar[c].session)
        BY DEF OwnershipInv, JarsInv, Jars, Ids
    <2>2. \A c \in Clients : Owns(startedBy', c, jar[c].login) /\ Owns(startedBy', c, jar[c].session)
        <3>1. ASSUME NEW c \in Clients, NEW k \in Int, Owns(startedBy, c, k) PROVE Owns(startedBy', c, k)
            BY <1>2, <1>3, <3>1 DEF Owns
        <3> QED BY <2>1, <3>1
    <2> QED BY <1>1, <2>2 DEF OwnershipInv, JarsInv
<1>8. Good(startedBy', q)
    <2>1. SetLogin(l) \in Cookies /\ SetLogin(l).login = l /\ SetLogin(l).session = Kept
        BY <1>1 DEF SetLogin, Kept, Cookies, CookieIds, Logins
    <2>2. /\ q \in Records /\ q.pc = "answer" /\ q.b = b /\ q.session = 0 /\ q.login = 0 /\ q.cookies = SetLogin(l)
        BY <2>1, IdleFields DEF Records, Phases
    <2>3. Owns(startedBy', b, l)
        BY <1>2, <1>3 DEF Owns
    <2> HIDE DEF q, l
    <2> QED BY <2>1, <2>2, <2>3 DEF Good, Owns, Kept
<1> HIDE DEF q
<1>9. HandlersInv'
    <2>1. q \in Records
        BY <1>8 DEF Good
    <2>2. handler' \in [Handlers -> Records] /\ \A k \in Handlers : handler'[k] = q \/ handler'[k] = handler[k]
        BY <1>1, <2>1 DEF OwnershipInv, HandlersInv
    <2>3. \A k \in Handlers : Good(startedBy', handler[k])
        BY <1>1, <1>2, StartKeepsGood DEF OwnershipInv, HandlersInv
    <2>4. \A k \in Handlers : Good(startedBy', handler'[k])
        BY <1>8, <2>2, <2>3
    <2> QED BY <2>2, <2>4 DEF HandlersInv
<1> QED BY <1>4, <1>6, <1>9 DEF OwnershipInv

\* Fields of a record a handler can have.
LEMMA HandlerFields ==
    ASSUME OwnershipInv, NEW h \in Handlers
    PROVE  /\ handler[h] \in Records /\ Good(startedBy, handler[h])
           /\ handler[h].session \in Ids /\ handler[h].state \in Ids /\ handler[h].exp \in Nat
           /\ handler[h].cookies \in Cookies
           /\ startedBy \in Seq(Clients) /\ Len(startedBy) \in Nat /\ Len(startedBy) <= MaxLogins
<1>1. handler[h] \in Records /\ Good(startedBy, handler[h])
    BY DEF OwnershipInv, HandlersInv
<1>2. handler[h].session \in Ids /\ handler[h].state \in Ids /\ handler[h].exp \in Nat /\ handler[h].cookies \in Cookies
    BY <1>1 DEF Records
<1> QED BY <1>1, <1>2 DEF OwnershipInv, LoginsInv

\* The answer of a handler that is busy.
LEMMA AnswerStep ==
    ASSUME OwnershipInv, NEW h \in Handlers, handler[h].pc # "idle",
           NEW cookies \in Cookies, NEW credential \in {"none", "account", "service"},
           Owns(startedBy, handler[h].b, cookies.login), Owns(startedBy, handler[h].b, cookies.session),
           Answer(h, cookies, credential), UNCHANGED <<startedBy, jar>>
    PROVE  OwnershipInv'
<1> DEFINE q == [Idle EXCEPT !.pc = "answer", !.b = handler[h].b, !.cookies = cookies, !.credential = credential]
<1>1. handler[h].b \in Clients
    BY HandlerFields DEF Good
<1>2. Good(startedBy, q)
    BY <1>1, AnswerIsGood
<1>3. handler' = [handler EXCEPT ![h] = q]
    BY DEF Answer
<1> HIDE DEF q
<1> QED BY <1>2, <1>3, OneHandler

\* The cookies that clear or keep what the browser has.
LEMMA PlainCookies ==
    ASSUME NEW started, NEW b
    PROVE  \A c \in {Keep, SetSession(0), SetBoth(0, 0)} :
              c \in Cookies /\ Owns(started, b, c.login) /\ Owns(started, b, c.session)
BY DEF Keep, SetSession, SetBoth, Kept, Cookies, CookieIds, Owns

\* A browser has what its answers gave it.
LEMMA ArrivalStep ==
    ASSUME OwnershipInv, NEW h \in Handlers, AnswerArrives(h)
    PROVE  OwnershipInv'
<1> DEFINE b == handler[h].b
           r == handler[h]
           Took(j) == [login |-> Taken(j.login, r.cookies.login), session |-> Taken(j.session, r.cookies.session)]
<1>1. /\ b \in Clients /\ r.cookies \in Cookies
      /\ Owns(startedBy, b, r.cookies.login) /\ Owns(startedBy, b, r.cookies.session)
    BY HandlerFields DEF Good, AnswerArrives
<1>2. jar[b] \in Jars /\ Owns(startedBy, b, jar[b].login) /\ Owns(startedBy, b, jar[b].session)
    BY <1>1 DEF OwnershipInv, JarsInv
<1>3. \A old \in Ids, set \in CookieIds : Taken(old, set) \in Ids
    BY DEF Taken, Kept, Ids, CookieIds
<1>4. \A old \in Ids, set \in CookieIds :
        Owns(startedBy, b, old) /\ Owns(startedBy, b, set) => Owns(startedBy, b, Taken(old, set))
    BY DEF Taken
<1>5. /\ jar[b].login \in Ids /\ jar[b].session \in Ids
      /\ r.cookies.login \in CookieIds /\ r.cookies.session \in CookieIds
    BY <1>1, <1>2 DEF Jars, Cookies
<1>6. Took(jar[b]) \in Jars
    BY <1>3, <1>5 DEF Jars
<1>7. Owns(startedBy, b, Took(jar[b]).login) /\ Owns(startedBy, b, Took(jar[b]).session)
    BY <1>1, <1>2, <1>4, <1>5
<1>8. /\ jar' = [jar EXCEPT ![b] = Took(jar[b])] \/ jar' = jar
      /\ handler' = [handler EXCEPT ![h] = Idle] /\ startedBy' = startedBy
    BY DEF AnswerArrives
<1> DEFINE t == Took(jar[b])
<1>9. t \in Jars /\ Owns(startedBy, b, t.login) /\ Owns(startedBy, b, t.session)
    BY <1>6, <1>7
<1>10. jar' = [jar EXCEPT ![b] = t] \/ jar' = jar
    BY <1>8
<1> HIDE DEF t, Took, r, b
<1>11. JarsInv'
    <2>1. jar' \in [Clients -> Jars] /\ \A c \in Clients : jar'[c] = jar[c] \/ (c = b /\ jar'[c] = t)
        BY <1>1, <1>9, <1>10 DEF OwnershipInv, JarsInv
    <2>2. \A c \in Clients : Owns(startedBy, c, jar'[c].login) /\ Owns(startedBy, c, jar'[c].session)
        BY <1>9, <2>1 DEF OwnershipInv, JarsInv
    <2> QED BY <1>8, <2>1, <2>2 DEF JarsInv
<1>12. HandlersInv'
    <2>1. handler' \in [Handlers -> Records] /\ \A k \in Handlers : handler'[k] = Idle \/ handler'[k] = handler[k]
        BY <1>8, IdleFields DEF OwnershipInv, HandlersInv
    <2>2. \A k \in Handlers : Good(startedBy, handler'[k])
        BY <2>1, IdleIsGood DEF OwnershipInv, HandlersInv
    <2> QED BY <1>8, <2>1, <2>2 DEF HandlersInv
<1>13. LoginsInv'
    BY <1>8 DEF OwnershipInv, LoginsInv
<1> QED BY <1>11, <1>12, <1>13 DEF OwnershipInv

\* A callback that goes on to its next phase.
LEMMA PhaseIsGood ==
    ASSUME NEW started, NEW r, Good(started, r), NEW pc \in {"exchange", "verify", "make"}, NEW login \in {0, r.login},
           NEW exp \in Nat, r.pc # "idle", r.state \in Logins, Owns(started, r.b, r.state), pc = "make" => exp <= SessionTTL
    PROVE  Good(started, [r EXCEPT !.pc = pc, !.login = login, !.exp = exp])
<1> DEFINE q == [r EXCEPT !.pc = pc, !.login = login, !.exp = exp]
<1>1. r \in Records /\ r.login \in Ids
    BY DEF Good, Records
<1>2. 0 \in Ids
    BY DEF Ids
<1>3. q \in Records
    BY <1>1, <1>2 DEF Records, Phases
<1>4. /\ q.pc = pc /\ q.b = r.b /\ q.session = r.session /\ q.login = login /\ q.exp = exp /\ q.state = r.state
      /\ q.cookies = r.cookies
    BY <1>1 DEF Records
<1> HIDE DEF q
<1>5. Owns(started, r.b, 0) /\ Owns(started, r.b, r.login)
    BY DEF Good, Owns
<1>6. Owns(started, q.b, q.login)
    BY <1>4, <1>5
<1>7. q.b \in Clients
    BY <1>4 DEF Good
<1>8. /\ Owns(started, q.b, q.session) /\ Owns(started, q.b, q.cookies.login) /\ Owns(started, q.b, q.cookies.session)
      /\ Owns(started, q.b, q.state)
    BY <1>4 DEF Good
<1>9. q.state \in Logins /\ q.pc \notin {"idle", "callback"} /\ (q.pc = "make" => q.exp <= SessionTTL)
    BY <1>4
<1>10. Good(started, q)
    BY <1>3, <1>6, <1>7, <1>8, <1>9 DEF Good
<1> QED BY <1>10 DEF q

\* A handler that goes on to its next phase.
LEMMA PhaseStep ==
    ASSUME OwnershipInv, NEW h \in Handlers, TakeAttempt(h) \/ (\E life \in TokenLives : Exchange(h, life)) \/ Verify(h)
    PROVE  OwnershipInv'
<1> DEFINE r == handler[h]
<1>1. Good(startedBy, r) /\ r \in Records /\ r.exp \in Nat /\ r.login \in Ids /\ r.state \in Ids
    BY HandlerFields DEF Records
<1>2. CASE TakeAttempt(h)
    <2> DEFINE q == [r EXCEPT !.pc = "exchange", !.login = 0, !.exp = r.exp]
    <2>1. /\ r.pc = "callback" /\ r.login = r.state /\ UNCHANGED <<startedBy, jar>>
          /\ handler' = [handler EXCEPT ![h].pc = "exchange", ![h].login = 0]
        BY <1>2 DEF TakeAttempt
    <2>2. r.state \in Logins /\ Owns(startedBy, r.b, r.state)
        BY <1>1, <2>1, HandlerFields DEF Good, Logins
    <2>3. Good(startedBy, q)
        BY <1>1, <2>1, <2>2, PhaseIsGood
    <2>4. q = [[r EXCEPT !.pc = "exchange"] EXCEPT !.login = 0]
        BY <1>1 DEF Records
    <2>5. handler' = [handler EXCEPT ![h] = [[r EXCEPT !.pc = "exchange"] EXCEPT !.login = 0]]
        BY <2>1 DEF OwnershipInv, HandlersInv
    <2> HIDE DEF q, r
    <2> QED BY <2>1, <2>3, <2>4, <2>5, OneHandler
<1>3. ASSUME NEW life \in TokenLives, Exchange(h, life) PROVE OwnershipInv'
    <2> DEFINE q == [r EXCEPT !.pc = "verify", !.login = r.login, !.exp = life]
    <2>1. /\ r.pc = "exchange" /\ UNCHANGED <<startedBy, jar>> /\ life \in Nat
          /\ handler' = [handler EXCEPT ![h].pc = "verify", ![h].exp = life]
        BY <1>3 DEF Exchange
    <2>2. r.state \in Logins /\ Owns(startedBy, r.b, r.state)
        BY <1>1, <2>1 DEF Good
    <2>3. Good(startedBy, q)
        BY <1>1, <2>1, <2>2, PhaseIsGood
    <2>4. q = [[r EXCEPT !.pc = "verify"] EXCEPT !.exp = life]
        BY <1>1 DEF Records
    <2>5. handler' = [handler EXCEPT ![h] = [[r EXCEPT !.pc = "verify"] EXCEPT !.exp = life]]
        BY <2>1 DEF OwnershipInv, HandlersInv
    <2> HIDE DEF q, r
    <2> QED BY <2>1, <2>3, <2>4, <2>5, OneHandler
<1>4. CASE Verify(h)
    <2> DEFINE e == IF r.exp < SessionTTL THEN r.exp ELSE SessionTTL
               q == [r EXCEPT !.pc = "make", !.login = r.login, !.exp = e]
    <2>1. /\ r.pc = "verify" /\ UNCHANGED <<startedBy, jar>>
          /\ handler' = [handler EXCEPT ![h].pc = "make", ![h].exp = e]
        BY <1>4 DEF Verify
    <2>2. r.state \in Logins /\ Owns(startedBy, r.b, r.state)
        BY <1>1, <2>1 DEF Good
    <2>3. e \in Nat /\ e <= SessionTTL
        BY <1>1
    <2> HIDE DEF e
    <2>4. Good(startedBy, q)
        BY <1>1, <2>1, <2>2, <2>3, PhaseIsGood
    <2>5. q = [[r EXCEPT !.pc = "make"] EXCEPT !.exp = e]
        BY <1>1 DEF Records
    <2>6. handler' = [handler EXCEPT ![h] = [[r EXCEPT !.pc = "make"] EXCEPT !.exp = e]]
        BY <2>1 DEF OwnershipInv, HandlersInv
    <2> HIDE DEF q, r
    <2> QED BY <2>1, <2>4, <2>5, <2>6, OneHandler
<1> QED BY <1>2, <1>3, <1>4

\* Answers of a callback, a logout, me and the proxies.
LEMMA AnswersStep ==
    ASSUME OwnershipInv, NEW h \in Handlers,
           CallbackRefused(h) \/ LoginFails(h) \/ MakeSession(h) \/ Logout(h) \/ Me(h) \/ ServeAccount(h) \/ ServeSession(h)
    PROVE  OwnershipInv'
<1>1. ASSUME NEW c \in {Keep, SetSession(0), SetBoth(0, 0)}, NEW credential \in {"none", "account", "service"},
             handler[h].pc # "idle", Answer(h, c, credential), UNCHANGED <<startedBy, jar>>
      PROVE  OwnershipInv'
    <2>1. c \in Cookies /\ Owns(startedBy, handler[h].b, c.login) /\ Owns(startedBy, handler[h].b, c.session)
        BY PlainCookies
    <2> QED BY <1>1, <2>1, AnswerStep
<1>2. CASE CallbackRefused(h) \/ LoginFails(h)
    BY <1>1, <1>2 DEF CallbackRefused, LoginFails, Fail
<1>3. CASE MakeSession(h)
    <2> DEFINE c == SetBoth(0, handler[h].state)
    <2>1. handler[h].pc = "make" /\ Answer(h, c, "none") /\ UNCHANGED <<startedBy, jar>>
        BY <1>3 DEF MakeSession
    <2>2. handler[h].state \in Logins /\ Owns(startedBy, handler[h].b, handler[h].state)
        BY <2>1, HandlerFields DEF Good
    <2>3. c \in Cookies /\ c.login = 0 /\ c.session = handler[h].state
        BY <2>2 DEF SetBoth, Cookies, CookieIds, Logins
    <2>4. Owns(startedBy, handler[h].b, c.login) /\ Owns(startedBy, handler[h].b, c.session)
        BY <2>2, <2>3 DEF Owns
    <2> HIDE DEF c
    <2> QED BY <2>1, <2>3, <2>4, AnswerStep
<1>4. CASE Logout(h)
    BY <1>1, <1>4 DEF Logout
<1>5. CASE Me(h)
    BY <1>1, <1>5 DEF Me
<1>6. CASE ServeAccount(h)
    BY <1>1, <1>6 DEF ServeAccount
<1>7. CASE ServeSession(h)
    BY <1>1, <1>7 DEF ServeSession
<1> QED BY <1>2, <1>3, <1>4, <1>5, <1>6, <1>7

\* Time and a restart.
LEMMA TickStep ==
    ASSUME OwnershipInv, Tick \/ MiddlewareRestart
    PROVE  OwnershipInv'
<1>1. LoginsInv' /\ JarsInv' /\ startedBy' = startedBy
    BY DEF OwnershipInv, LoginsInv, JarsInv, Tick, MiddlewareRestart
<1>2. ASSUME NEW r, Good(startedBy, r), r.exp > 0 PROVE Good(startedBy, [r EXCEPT !.exp = @ - 1])
    <2> DEFINE q == [r EXCEPT !.exp = @ - 1]
    <2> DEFINE e == r.exp - 1
    <2>1. r \in Records /\ r.exp \in Nat /\ e \in Nat /\ e <= r.exp
        <3>1. r \in Records
            BY <1>2 DEF Good
        <3>2. r.exp \in Nat
            BY <3>1 DEF Records
        <3> QED BY <1>2, <3>1, <3>2
    <2>2. q = [r EXCEPT !.exp = e]
        OBVIOUS
    <2> HIDE DEF e
    <2>4. q \in Records
        BY <2>1, <2>2 DEF Records
    <2>3. /\ q.pc = r.pc /\ q.b = r.b /\ q.session = r.session /\ q.login = r.login /\ q.exp = e
          /\ q.state = r.state /\ q.cookies = r.cookies
        BY <2>1, <2>2 DEF Records
    <2> HIDE DEF q
    <2>5. q.pc = "make" => q.exp <= SessionTTL
        <3>1. r.pc = "make" => r.exp <= SessionTTL
            BY <1>2 DEF Good
        <3> QED BY <2>1, <2>3, <3>1
    <2>6. /\ q.pc # "idle" => q.b \in Clients
          /\ Owns(startedBy, q.b, q.session) /\ Owns(startedBy, q.b, q.login)
          /\ Owns(startedBy, q.b, q.cookies.login) /\ Owns(startedBy, q.b, q.cookies.session)
          /\ q.pc = "callback" => q.state \in 1..Len(startedBy)
          /\ q.pc \in {"exchange", "verify", "make"} => q.state \in Logins /\ Owns(startedBy, q.b, q.state)
        BY <1>2, <2>3 DEF Good
    <2>7. Good(startedBy, q)
        BY <2>4, <2>5, <2>6 DEF Good
    <2> QED BY <2>7 DEF q
<1>3. CASE Tick
    <2> DEFINE older(h) == [handler[h] EXCEPT !.exp = @ - 1]
    <2>1. handler' = [h \in Handlers |->
              IF handler[h].pc = "verify" /\ handler[h].exp > 0 THEN older(h) ELSE handler[h]]
        BY <1>3 DEF Tick
    <2>2. \A h \in Handlers : Good(startedBy, handler[h])
        BY DEF OwnershipInv, HandlersInv
    <2>3. \A h \in Handlers : handler[h].exp > 0 => Good(startedBy, older(h))
        BY <1>2, <2>2
    <2> HIDE DEF older
    <2>4. \A h \in Handlers : Good(startedBy, handler'[h])
        BY <2>1, <2>2, <2>3
    <2>5. \A h \in Handlers : handler'[h] \in Records
        BY <2>4 DEF Good
    <2>6. handler' \in [Handlers -> Records]
        BY <2>1, <2>5
    <2> QED BY <1>1, <2>4, <2>6 DEF OwnershipInv, HandlersInv
<1>4. CASE MiddlewareRestart
    <2>1. handler' = [h \in Handlers |-> Idle]
        BY <1>4 DEF MiddlewareRestart
    <2>2. handler' \in [Handlers -> Records] /\ \A h \in Handlers : Good(startedBy, handler'[h])
        BY <2>1, IdleIsGood, IdleFields
    <2> QED BY <1>1, <2>2 DEF OwnershipInv, HandlersInv
<1> QED BY <1>3, <1>4

\* The logins that were started.
LEMMA StartedLogins ==
    ASSUME OwnershipInv
    PROVE  /\ startedBy \in Seq(Clients) /\ Len(startedBy) \in Nat /\ Len(startedBy) <= MaxLogins
           /\ DOMAIN startedBy = 1..Len(startedBy)
BY DEF OwnershipInv, LoginsInv

\* Requests that are sent, by a browser with the cookies it has.
LEMMA LogoutMeStep ==
    ASSUME OwnershipInv, NEW h \in Handlers, NEW b \in Clients, SendLogout(h, b) \/ SendMe(h, b)
    PROVE  OwnershipInv'
<1>1. \A pc \in {"logout", "me"} :
        LET q == [Idle EXCEPT !.pc = pc]
        IN  q \in Records /\ q.pc = pc /\ q.cookies = Keep /\ q.login = 0
    BY IdleFields DEF Records, Phases
<1> QED BY <1>1, SendStep DEF SendLogout, SendMe

LEMMA CallbackStep ==
    ASSUME OwnershipInv, NEW h \in Handlers, NEW b \in Clients, NEW l \in 1..Len(startedBy), SendCallback(h, b, l)
    PROVE  OwnershipInv'
<1> DEFINE q == [Idle EXCEPT !.pc = "callback", !.state = l, !.login = jar[b].login]
<1>1. jar[b] \in Jars /\ jar[b].login \in Ids
    BY DEF OwnershipInv, JarsInv, Jars
<1>2. l \in Ids
    BY StartedLogins DEF Ids
<1>3. q \in Records /\ q.pc = "callback" /\ q.cookies = Keep /\ q.login = jar[b].login /\ q.state = l
    BY <1>1, <1>2, IdleFields DEF Records, Phases
<1>4. Send(h, b, q)
    BY DEF SendCallback
<1> HIDE DEF q
<1> QED BY <1>3, <1>4, SendStep

LEMMA ProxiedStep ==
    ASSUME OwnershipInv, NEW h \in Handlers, NEW b \in Clients, NEW up \in {"backend", "agent or llm"},
           NEW account \in BOOLEAN, SendProxied(h, b, up, account)
    PROVE  OwnershipInv'
<1> DEFINE q == [Idle EXCEPT !.pc = "proxied", !.upstream = up, !.account = account]
<1>1. q \in Records /\ q.pc = "proxied" /\ q.cookies = Keep /\ q.login = 0
    BY IdleFields DEF Records, Phases
<1>2. Send(h, b, q)
    BY DEF SendProxied
<1> HIDE DEF q
<1> QED BY <1>1, <1>2, SendStep

\* Every step hands a browser only what its own logins led to.
LEMMA OwnershipStep ==
    ASSUME OwnershipInv, [LoginNext]_loginVars
    PROVE  OwnershipInv'
<1>1. CASE UNCHANGED loginVars
    BY <1>1 DEF loginVars, OwnershipInv, LoginsInv, JarsInv, HandlersInv
<1> QED BY <1>1, StartedLogins, StartStep, LogoutMeStep, CallbackStep, ProxiedStep, PhaseStep, AnswersStep, ArrivalStep, TickStep DEF LoginNext

-----------------------------------------------------------------------------
(* Sessions *)

\* Deleting keeps what the tables have in common.
LEMMA WithoutBoth ==
    ASSUME SessionsInv, NEW s \in Ids
    PROVE  /\ Without(sessions, s) \in [Logins -> Nat] /\ Without(left, s) \in [Logins -> Nat]
           /\ \A l \in Logins : Without(sessions, s)[l] <= Without(left, s)[l]
BY DEF SessionsInv, Without, Ids, Logins

\* Every step keeps a session only while it may live.
LEMMA SessionsStep ==
    ASSUME OwnershipInv, SessionsInv, [LoginNext]_loginVars
    PROVE  SessionsInv'
<1>1. ASSUME NEW h \in Handlers, DropSession(handler[h].session) PROVE SessionsInv'
    <2>1. handler[h].session \in Ids
        BY HandlerFields
    <2> QED BY <1>1, <2>1, WithoutBoth DEF DropSession, SessionsInv
<1>2. ASSUME NEW h \in Handlers, MakeSession(h) PROVE SessionsInv'
    <2> DEFINE r == handler[h]
               s0 == Without(sessions, r.session)
               l0 == Without(left, r.session)
    <2>1. sessions' = [s0 EXCEPT ![r.state] = r.exp] /\ left' = [l0 EXCEPT ![r.state] = SessionTTL] /\ r.pc = "make"
        BY <1>2 DEF MakeSession
    <2>2. r.session \in Ids /\ r.exp \in Nat /\ r.state \in Logins /\ r.exp <= SessionTTL
        BY <2>1, HandlerFields DEF Good
    <2>3. s0 \in [Logins -> Nat] /\ l0 \in [Logins -> Nat] /\ \A l \in Logins : s0[l] <= l0[l]
        BY <2>2, WithoutBoth
    <2> HIDE DEF s0, l0, r
    <2> QED BY <2>1, <2>2, <2>3 DEF SessionsInv
<1>3. CASE Tick
    <2> DEFINE Older(table) == [l \in Logins |-> IF table[l] = 0 THEN 0 ELSE table[l] - 1]
    <2>1. sessions' = Older(sessions) /\ left' = Older(left)
        BY <1>3 DEF Tick
    <2> QED BY <2>1 DEF SessionsInv
<1>4. CASE MiddlewareRestart
    BY <1>4 DEF MiddlewareRestart, SessionsInv
<1>5. CASE UNCHANGED <<sessions, left>>
    BY <1>5 DEF SessionsInv
<1>6. ASSUME NEW h \in Handlers, CallbackRefused(h) \/ LoginFails(h) \/ Logout(h) PROVE SessionsInv'
    BY <1>1, <1>6 DEF CallbackRefused, LoginFails, Logout, Fail
<1>7. ASSUME NEW h \in Handlers,
             \/ TakeAttempt(h) \/ Verify(h) \/ Me(h) \/ ServeAccount(h) \/ ServeSession(h) \/ AnswerArrives(h)
             \/ \E life \in TokenLives : Exchange(h, life)
      PROVE  SessionsInv'
    BY <1>5, <1>7 DEF TakeAttempt, Verify, Me, ServeAccount, ServeSession, AnswerArrives, Exchange
<1>8. ASSUME NEW h \in Handlers, NEW b \in Clients,
             \/ Start(h, b) \/ SendLogout(h, b) \/ SendMe(h, b)
             \/ \E l \in DOMAIN startedBy : SendCallback(h, b, l)
             \/ \E up \in {"backend", "agent or llm"}, account \in BOOLEAN : SendProxied(h, b, up, account)
      PROVE  SessionsInv'
    BY <1>5, <1>8 DEF Start, SendLogout, SendMe, SendCallback, SendProxied, Send
<1>9. CASE UNCHANGED loginVars
    BY <1>5, <1>9 DEF loginVars
<1> QED BY <1>2, <1>3, <1>4, <1>6, <1>7, <1>8, <1>9 DEF LoginNext

-----------------------------------------------------------------------------
(* Attempts *)

\* Steps after which the same handlers exchange the codes of the same logins.
LEMMA AttemptsKept ==
    ASSUME AttemptsInv, attempts' \in [Logins -> Nat], \A l \in Logins : attempts'[l] # 0 => attempts[l] # 0,
           UNCHANGED <<exchanged, startedBy>>,
           \A k \in Handlers, l \in Logins : Exchanging(k, l)' => Exchanging(k, l)
    PROVE  AttemptsInv'
<1> DEFINE E(k, l) == Exchanging(k, l)
           F(k, l) == Exchanging(k, l)'
<1>1. \A k \in Handlers, l \in Logins : F(k, l) => E(k, l)
    OBVIOUS
<1>2. /\ \A l \in Logins : attempts[l] # 0 =>
           exchanged[l] = <<>> /\ l <= Len(startedBy) /\ \A h \in Handlers : ~E(h, l)
      /\ \A l \in Logins, h \in Handlers : E(h, l) =>
           exchanged[l] = <<>> /\ \A k \in Handlers : E(k, l) => k = h
    BY DEF AttemptsInv
<1>3. AttemptsInv' <=>
      /\ attempts' \in [Logins -> Nat] /\ exchanged' \in [Logins -> Seq(Clients)]
      /\ \A l \in Logins : attempts'[l] # 0 =>
            exchanged'[l] = <<>> /\ l <= Len(startedBy') /\ \A h \in Handlers : ~F(h, l)
      /\ \A l \in Logins, h \in Handlers : F(h, l) =>
            exchanged'[l] = <<>> /\ \A k \in Handlers : F(k, l) => k = h
      /\ \A l \in Logins : exchanged'[l] # <<>> => l <= Len(startedBy') /\ exchanged'[l] = <<startedBy'[l]>>
    BY DEF AttemptsInv
<1>4. exchanged' \in [Logins -> Seq(Clients)]
      /\ \A l \in Logins : exchanged'[l] # <<>> => l <= Len(startedBy') /\ exchanged'[l] = <<startedBy'[l]>>
    BY DEF AttemptsInv
<1> HIDE DEF E, F
<1> QED BY <1>1, <1>2, <1>3, <1>4

\* Steps of one handler that is not going to exchange a code.
LEMMA NotExchanging ==
    ASSUME OwnershipInv, NEW h \in Handlers, NEW q, q.pc # "exchange", handler' = [handler EXCEPT ![h] = q]
    PROVE  \A k \in Handlers, l \in Logins : Exchanging(k, l)' => k # h /\ Exchanging(k, l)
<1>1. \A k \in Handlers : handler'[k] = IF k = h THEN q ELSE handler[k]
    BY DEF OwnershipInv, HandlersInv
<1> QED BY <1>1 DEF Exchanging

LEMMA AnswerNotExchanging ==
    ASSUME OwnershipInv, NEW h \in Handlers, NEW cookies, NEW credential, Answer(h, cookies, credential)
    PROVE  \A k \in Handlers, l \in Logins : Exchanging(k, l)' => k # h /\ Exchanging(k, l)
<1> DEFINE q == [Idle EXCEPT !.pc = "answer", !.b = handler[h].b, !.cookies = cookies, !.credential = credential]
<1>1. q.pc = "answer"
    BY DEF Idle
<1>2. handler' = [handler EXCEPT ![h] = q]
    BY DEF Answer
<1> HIDE DEF q
<1> QED BY <1>1, <1>2, NotExchanging

LEMMA SendNotExchanging ==
    ASSUME OwnershipInv, NEW h \in Handlers, NEW b \in Clients, NEW request \in Records, request.pc # "exchange",
           Send(h, b, request)
    PROVE  \A k \in Handlers, l \in Logins : Exchanging(k, l)' => k # h /\ Exchanging(k, l)
<1> DEFINE q == [request EXCEPT !.b = b, !.session = jar[b].session]
<1>1. q.pc # "exchange"
    BY DEF Records
<1>2. handler' = [handler EXCEPT ![h] = q]
    BY DEF Send
<1> HIDE DEF q
<1> QED BY <1>1, <1>2, NotExchanging

\* The state of a handler that exchanges a code is of a login its browser started.
LEMMA ExchangedByOwner ==
    ASSUME OwnershipInv, NEW h \in Handlers, NEW l \in Logins, Exchanging(h, l)
    PROVE  l <= Len(startedBy) /\ startedBy[l] = handler[h].b /\ handler[h].b \in Clients
<1>1. Owns(startedBy, handler[h].b, l) /\ handler[h].b \in Clients
    BY HandlerFields DEF Good, Exchanging
<1> QED BY <1>1 DEF Owns, Logins

\* A login that is started has no code exchanged, and no handler about to.
LEMMA StartAttempts ==
    ASSUME OwnershipInv, AttemptsInv, NEW h \in Handlers, NEW b \in Clients, Start(h, b)
    PROVE  AttemptsInv'
<1> DEFINE n == Len(startedBy) + 1
           q == [Idle EXCEPT !.pc = "answer", !.b = b, !.cookies = SetLogin(n)]
           F(k, l) == Exchanging(k, l)'
           E(k, l) == Exchanging(k, l)
<1>1. /\ n \in Logins /\ attempts' = [attempts EXCEPT ![n] = LoginTTL] /\ startedBy' = Append(startedBy, b)
      /\ handler' = [handler EXCEPT ![h] = q] /\ exchanged' = exchanged
    BY DEF Start
<1>2. startedBy \in Seq(Clients) /\ Len(startedBy) \in Nat
    BY StartedLogins
<1>3. Len(startedBy') = n /\ \A i \in 1..Len(startedBy) : startedBy'[i] = startedBy[i]
    BY <1>1, <1>2
<1>4. q.pc # "exchange"
    BY DEF Idle
<1> HIDE DEF q
<1>5. \A k \in Handlers, l \in Logins : F(k, l) => E(k, l)
    BY <1>1, <1>4, NotExchanging
<1>6. \A k \in Handlers : ~E(k, n)
    BY <1>1, <1>2, ExchangedByOwner
<1>7. /\ attempts \in [Logins -> Nat] /\ exchanged \in [Logins -> Seq(Clients)]
      /\ \A l \in Logins : attempts[l] # 0 =>
           exchanged[l] = <<>> /\ l <= Len(startedBy) /\ \A k \in Handlers : ~E(k, l)
      /\ \A l \in Logins, j \in Handlers : E(j, l) =>
           exchanged[l] = <<>> /\ \A k \in Handlers : E(k, l) => k = j
      /\ \A l \in Logins : exchanged[l] # <<>> => l <= Len(startedBy) /\ exchanged[l] = <<startedBy[l]>>
    BY DEF AttemptsInv
<1> HIDE DEF E
<1>8. exchanged[n] = <<>>
    BY <1>1, <1>2, <1>7
<1>9. \A l \in Logins : exchanged'[l] # <<>> => l <= Len(startedBy') /\ exchanged'[l] = <<startedBy'[l]>>
    <2>1. \A l \in Logins : l <= Len(startedBy) => l \in 1..Len(startedBy)
        BY <1>2 DEF Logins
    <2> QED BY <1>1, <1>2, <1>3, <1>7, <2>1
<1>10. attempts' \in [Logins -> Nat] /\ \A l \in Logins : l # n => attempts'[l] = attempts[l]
    BY <1>1, <1>7
<1>11. \A l \in Logins : attempts'[l] # 0 =>
         exchanged'[l] = <<>> /\ l <= Len(startedBy') /\ \A k \in Handlers : ~F(k, l)
    <2> HIDE DEF F
    <2> SUFFICES ASSUME NEW l \in Logins, attempts'[l] # 0
                 PROVE  exchanged'[l] = <<>> /\ l <= Len(startedBy') /\ \A k \in Handlers : ~F(k, l)
        OBVIOUS
    <2>1. CASE l = n
        BY <1>1, <1>3, <1>5, <1>6, <1>8, <2>1
    <2>2. CASE l # n
        <3>1. attempts[l] # 0
            BY <1>10, <2>2
        <3>2. exchanged[l] = <<>> /\ l <= Len(startedBy) /\ \A k \in Handlers : ~E(k, l)
            BY <1>7, <3>1
        <3>3. l <= Len(startedBy')
            BY <1>2, <1>3, <3>2 DEF Logins
        <3> QED BY <1>1, <1>5, <3>2, <3>3
    <2> QED BY <2>1, <2>2
<1>12. \A l \in Logins, j \in Handlers : F(j, l) =>
         exchanged'[l] = <<>> /\ \A k \in Handlers : F(k, l) => k = j
    <2> HIDE DEF F
    <2> QED BY <1>1, <1>5, <1>7
<1> QED BY <1>1, <1>7, <1>9, <1>10, <1>11, <1>12 DEF AttemptsInv

\* takeAttempt: the attempt leaves the table with the one handler that took it.
LEMMA TakeAttempts ==
    ASSUME OwnershipInv, AttemptsInv, NEW h \in Handlers, TakeAttempt(h)
    PROVE  AttemptsInv'
<1> DEFINE r == handler[h]
           s == handler[h].state
           F(k, l) == Exchanging(k, l)'
           E(k, l) == Exchanging(k, l)
<1>1. /\ r.pc = "callback" /\ attempts[s] # 0 /\ attempts' = Without(attempts, s)
      /\ handler' = [handler EXCEPT ![h].pc = "exchange", ![h].login = 0] /\ UNCHANGED <<startedBy, exchanged>>
    BY DEF TakeAttempt
<1>2. s \in Logins
    BY <1>1, HandlerFields DEF Good, Logins
<1>3. \A k \in Handlers, l \in Logins : F(k, l) => (IF k = h THEN l = s ELSE E(k, l))
    <2>1. \A k \in Handlers : k # h => handler'[k] = handler[k]
        BY <1>1 DEF OwnershipInv, HandlersInv
    <2>2. handler'[h] = [[r EXCEPT !.pc = "exchange"] EXCEPT !.login = 0]
        BY <1>1 DEF OwnershipInv, HandlersInv
    <2>3. handler'[h].state = s
        BY <2>2, HandlerFields DEF Records
    <2> QED BY <2>1, <2>3 DEF Exchanging
<1>4. /\ attempts \in [Logins -> Nat] /\ exchanged \in [Logins -> Seq(Clients)]
      /\ \A l \in Logins : attempts[l] # 0 =>
           exchanged[l] = <<>> /\ l <= Len(startedBy) /\ \A k \in Handlers : ~E(k, l)
      /\ \A l \in Logins, j \in Handlers : E(j, l) =>
           exchanged[l] = <<>> /\ \A k \in Handlers : E(k, l) => k = j
      /\ \A l \in Logins : exchanged[l] # <<>> => l <= Len(startedBy) /\ exchanged[l] = <<startedBy[l]>>
    BY DEF AttemptsInv
<1>5. attempts' \in [Logins -> Nat] /\ attempts'[s] = 0 /\ \A l \in Logins : l # s => attempts'[l] = attempts[l]
    BY <1>1, <1>2, <1>4 DEF Without, Logins
<1> HIDE DEF E, F, r, s
<1>6. \A l \in Logins : attempts'[l] # 0 =>
        exchanged'[l] = <<>> /\ l <= Len(startedBy') /\ \A k \in Handlers : ~F(k, l)
    BY <1>1, <1>3, <1>4, <1>5
<1>7. \A l \in Logins, j \in Handlers : F(j, l) =>
        exchanged'[l] = <<>> /\ \A k \in Handlers : F(k, l) => k = j
    <2> SUFFICES ASSUME NEW l \in Logins, NEW j \in Handlers, F(j, l)
                 PROVE  exchanged[l] = <<>> /\ \A k \in Handlers : F(k, l) => k = j
        BY <1>1
    <2>1. CASE l = s
        <3>1. exchanged[l] = <<>> /\ \A k \in Handlers : ~E(k, l)
            BY <1>1, <1>4, <2>1
        <3> QED BY <1>3, <3>1
    <2>2. CASE l # s
        <3>1. E(j, l) /\ \A k \in Handlers : F(k, l) => E(k, l)
            BY <1>3, <2>2
        <3> QED BY <1>4, <3>1
    <2> QED BY <2>1, <2>2
<1> QED BY <1>1, <1>4, <1>5, <1>6, <1>7 DEF AttemptsInv, E, F

\* exchange: the code is exchanged by the handler that took the attempt, for the
\* browser that started the login.
LEMMA ExchangeAttempts ==
    ASSUME OwnershipInv, AttemptsInv, NEW h \in Handlers, NEW life \in TokenLives, Exchange(h, life)
    PROVE  AttemptsInv'
<1> DEFINE r == handler[h]
           s == handler[h].state
           F(k, l) == Exchanging(k, l)'
           E(k, l) == Exchanging(k, l)
<1>1. /\ r.pc = "exchange" /\ exchanged' = [exchanged EXCEPT ![s] = Append(exchanged[s], r.b)]
      /\ handler' = [handler EXCEPT ![h].pc = "verify", ![h].exp = life] /\ UNCHANGED <<attempts, startedBy>>
    BY DEF Exchange
<1>2. s \in Logins /\ r.b \in Clients
    BY <1>1, HandlerFields DEF Good
<1>3. E(h, s) /\ s <= Len(startedBy) /\ startedBy[s] = r.b
    BY <1>1, <1>2, ExchangedByOwner DEF Exchanging
<1>4. \A k \in Handlers, l \in Logins : F(k, l) => k # h /\ E(k, l)
    <2>1. \A k \in Handlers : k # h => handler'[k] = handler[k]
        BY <1>1 DEF OwnershipInv, HandlersInv
    <2>2. handler'[h] = [[r EXCEPT !.pc = "verify"] EXCEPT !.exp = life]
        BY <1>1 DEF OwnershipInv, HandlersInv
    <2>3. handler'[h].pc = "verify"
        BY <2>2, HandlerFields DEF Records
    <2> QED BY <2>1, <2>3 DEF Exchanging
<1>5. /\ attempts \in [Logins -> Nat] /\ exchanged \in [Logins -> Seq(Clients)]
      /\ \A l \in Logins : attempts[l] # 0 =>
           exchanged[l] = <<>> /\ l <= Len(startedBy) /\ \A k \in Handlers : ~E(k, l)
      /\ \A l \in Logins, j \in Handlers : E(j, l) =>
           exchanged[l] = <<>> /\ \A k \in Handlers : E(k, l) => k = j
      /\ \A l \in Logins : exchanged[l] # <<>> => l <= Len(startedBy) /\ exchanged[l] = <<startedBy[l]>>
    BY DEF AttemptsInv
<1> HIDE DEF E, F, r, s
<1>6. exchanged[s] = <<>> /\ Append(exchanged[s], r.b) = <<r.b>> /\ <<r.b>> \in Seq(Clients)
    <2>1. exchanged[s] = <<>>
        BY <1>2, <1>3, <1>5
    <2>2. \A x \in Clients : Append(<<>>, x) = <<x>> /\ <<x>> \in Seq(Clients)
        OBVIOUS
    <2> QED BY <1>2, <2>1, <2>2
<1>7. /\ exchanged' \in [Logins -> Seq(Clients)] /\ exchanged'[s] = <<startedBy[s]>>
      /\ \A l \in Logins : l # s => exchanged'[l] = exchanged[l]
    BY <1>1, <1>2, <1>3, <1>5, <1>6
<1>8. \A l \in Logins : exchanged'[l] # <<>> => l <= Len(startedBy') /\ exchanged'[l] = <<startedBy'[l]>>
    BY <1>1, <1>3, <1>5, <1>7
<1>9. \A l \in Logins : attempts'[l] # 0 =>
        exchanged'[l] = <<>> /\ l <= Len(startedBy') /\ \A k \in Handlers : ~F(k, l)
    BY <1>1, <1>3, <1>4, <1>5, <1>7
<1>10. \A l \in Logins, j \in Handlers : F(j, l) =>
         exchanged'[l] = <<>> /\ \A k \in Handlers : F(k, l) => k = j
    BY <1>1, <1>3, <1>4, <1>5, <1>7
<1> QED BY <1>1, <1>5, <1>7, <1>8, <1>9, <1>10 DEF AttemptsInv, E, F

\* Every step: an attempt is taken once, and its code exchanged once.
LEMMA AttemptsStep ==
    ASSUME OwnershipInv, AttemptsInv, [LoginNext]_loginVars
    PROVE  AttemptsInv'
<1>1. attempts \in [Logins -> Nat]
    BY DEF AttemptsInv
<1>2. ASSUME NEW h \in Handlers, UNCHANGED <<attempts, exchanged, startedBy>>,
             \A k \in Handlers, l \in Logins : Exchanging(k, l)' => k # h /\ Exchanging(k, l)
      PROVE  AttemptsInv'
    <2>1. \A l \in Logins : attempts'[l] # 0 => attempts[l] # 0
        BY <1>2
    <2>2. \A k \in Handlers, l \in Logins : Exchanging(k, l)' => Exchanging(k, l)
        BY <1>2
    <2>3. attempts' \in [Logins -> Nat]
        BY <1>1, <1>2
    <2> QED BY <1>2, <2>1, <2>2, <2>3, AttemptsKept
<1>3. ASSUME NEW h \in Handlers, NEW cookies, NEW credential, Answer(h, cookies, credential),
             UNCHANGED <<attempts, exchanged, startedBy>>
      PROVE  AttemptsInv'
    BY <1>2, <1>3, AnswerNotExchanging
<1>4. ASSUME NEW h \in Handlers,
             CallbackRefused(h) \/ LoginFails(h) \/ MakeSession(h) \/ Logout(h) \/ Me(h) \/ ServeAccount(h) \/ ServeSession(h)
      PROVE  AttemptsInv'
    BY <1>3, <1>4 DEF CallbackRefused, LoginFails, Fail, MakeSession, Logout, Me, ServeAccount, ServeSession
<1>5. ASSUME NEW h \in Handlers, NEW b \in Clients, NEW request \in Records, request.pc # "exchange", Send(h, b, request)
      PROVE  AttemptsInv'
    <2>1. UNCHANGED <<attempts, exchanged, startedBy>>
        BY <1>5 DEF Send
    <2> QED BY <1>2, <1>5, <2>1, SendNotExchanging
<1>6. ASSUME NEW h \in Handlers, NEW b \in Clients, SendLogout(h, b) \/ SendMe(h, b) PROVE AttemptsInv'
    <2>1. \A pc \in {"logout", "me"} : [Idle EXCEPT !.pc = pc] \in Records /\ [Idle EXCEPT !.pc = pc].pc # "exchange"
        BY IdleFields DEF Records, Phases
    <2> QED BY <1>5, <1>6, <2>1 DEF SendLogout, SendMe
<1>7. ASSUME NEW h \in Handlers, NEW b \in Clients, NEW l \in 1..Len(startedBy), SendCallback(h, b, l)
      PROVE  AttemptsInv'
    <2> DEFINE q == [Idle EXCEPT !.pc = "callback", !.state = l, !.login = jar[b].login]
    <2>1. jar[b].login \in Ids
        BY DEF OwnershipInv, JarsInv, Jars
    <2>2. l \in Ids
        BY StartedLogins DEF Ids
    <2>3. q \in Records /\ q.pc # "exchange"
        BY <2>1, <2>2, IdleFields DEF Records, Phases
    <2>4. Send(h, b, q)
        BY <1>7 DEF SendCallback
    <2> HIDE DEF q
    <2> QED BY <1>5, <2>3, <2>4
<1>8. ASSUME NEW h \in Handlers, NEW b \in Clients, NEW up \in {"backend", "agent or llm"}, NEW account \in BOOLEAN,
             SendProxied(h, b, up, account)
      PROVE  AttemptsInv'
    <2> DEFINE q == [Idle EXCEPT !.pc = "proxied", !.upstream = up, !.account = account]
    <2>1. q \in Records /\ q.pc # "exchange"
        BY IdleFields DEF Records, Phases
    <2>2. Send(h, b, q)
        BY <1>8 DEF SendProxied
    <2> HIDE DEF q
    <2> QED BY <1>5, <2>1, <2>2
<1>9. ASSUME NEW h \in Handlers, AnswerArrives(h) PROVE AttemptsInv'
    <2>1. handler' = [handler EXCEPT ![h] = Idle] /\ UNCHANGED <<attempts, exchanged, startedBy>>
        BY <1>9 DEF AnswerArrives
    <2> QED BY <1>2, <2>1, IdleFields, NotExchanging
<1>10. ASSUME NEW h \in Handlers, Verify(h) PROVE AttemptsInv'
    <2> DEFINE e == IF handler[h].exp < SessionTTL THEN handler[h].exp ELSE SessionTTL
               q == [[handler[h] EXCEPT !.pc = "make"] EXCEPT !.exp = e]
    <2>1. handler' = [handler EXCEPT ![h].pc = "make", ![h].exp = e] /\ UNCHANGED <<attempts, exchanged, startedBy>>
        BY <1>10 DEF Verify
    <2> HIDE DEF e
    <2>2. handler' = [handler EXCEPT ![h] = q]
        BY <2>1 DEF OwnershipInv, HandlersInv
    <2>3. q.pc = "make"
        BY HandlerFields DEF Records
    <2> HIDE DEF q
    <2> QED BY <1>2, <2>1, <2>2, <2>3, NotExchanging
<1>11. CASE Tick \/ MiddlewareRestart
    <2>1. attempts' \in [Logins -> Nat] /\ \A l \in Logins : attempts'[l] # 0 => attempts[l] # 0
        BY <1>1, <1>11 DEF Tick, MiddlewareRestart
    <2>2. UNCHANGED <<exchanged, startedBy>>
        BY <1>11 DEF Tick, MiddlewareRestart
    <2>3. \A k \in Handlers : handler'[k] = Idle \/ handler'[k] = handler[k] \/ handler'[k].pc = "verify"
        <3>1. \A k \in Handlers : handler[k] \in Records
            BY DEF OwnershipInv, HandlersInv
        <3>2. \A r \in Records : [r EXCEPT !.exp = @ - 1].pc = r.pc
            BY DEF Records
        <3>3. CASE Tick
            <4>1. handler' = [k \in Handlers |->
                    IF handler[k].pc = "verify" /\ handler[k].exp > 0 THEN [handler[k] EXCEPT !.exp = @ - 1] ELSE handler[k]]
                BY <3>3 DEF Tick
            <4> QED BY <3>1, <3>2, <4>1
        <3>4. CASE MiddlewareRestart
            BY <3>4 DEF MiddlewareRestart
        <3> QED BY <1>11, <3>3, <3>4
    <2>4. \A k \in Handlers, l \in Logins : Exchanging(k, l)' => Exchanging(k, l)
        BY <2>3, IdleFields DEF Exchanging
    <2> QED BY <2>1, <2>2, <2>4, AttemptsKept
<1>12. CASE UNCHANGED loginVars
    BY <1>12 DEF loginVars, AttemptsInv, Exchanging
<1> QED BY <1>4, <1>6, <1>7, <1>8, <1>9, <1>10, <1>11, <1>12, StartedLogins, StartAttempts, TakeAttempts, ExchangeAttempts
        DEF LoginNext

-----------------------------------------------------------------------------
(* The theorems *)

LEMMA LoginInitially ==
    ASSUME LoginInit
    PROVE  LoginInv
<1>1. LoginsInv
    BY DEF LoginInit, LoginsInv
<1>2. JarsInv
    <2>1. [login |-> 0, session |-> 0] \in Jars
        BY DEF Jars, Ids
    <2> QED BY <2>1 DEF LoginInit, JarsInv, Owns
<1>3. HandlersInv
    BY IdleFields, IdleIsGood DEF LoginInit, HandlersInv
<1>4. SessionsInv
    BY DEF LoginInit, SessionsInv
<1>5. AttemptsInv
    <2>1. \A h \in Handlers, l \in Logins : ~Exchanging(h, l)
        BY IdleFields DEF LoginInit, Exchanging
    <2>2. <<>> \in Seq(Clients)
        OBVIOUS
    <2> QED BY <2>1, <2>2 DEF LoginInit, AttemptsInv
<1> QED BY <1>1, <1>2, <1>3, <1>4, <1>5 DEF LoginInv, OwnershipInv

LEMMA LoginStep ==
    ASSUME LoginInv, [LoginNext]_loginVars
    PROVE  LoginInv'
BY OwnershipStep, SessionsStep, AttemptsStep DEF LoginInv

\* A login's code is exchanged at most once, by the browser that started it,
\* however callbacks, answers, ticks and restarts interleave.
THEOREM LoginsOnce == LoginSpec => []LoginsAreOneShot
<1>1. LoginInit => LoginInv
    BY LoginInitially
<1>2. LoginInv /\ [LoginNext]_loginVars => LoginInv'
    BY LoginStep
<1>3. LoginInv => LoginsAreOneShot
    BY DEF LoginInv, AttemptsInv, LoginsAreOneShot
<1> QED BY <1>1, <1>2, <1>3, PTL DEF LoginSpec


\* A step of one handler leaves the others alone.
LEMMA OthersStay ==
    ASSUME OwnershipInv, NEW k \in Handlers, NEW h \in Handlers, h # k,
           \/ \E q : handler' = [handler EXCEPT ![k] = q]
           \/ TakeAttempt(k) \/ Verify(k) \/ \E life \in TokenLives : Exchange(k, life)
    PROVE  handler'[h] = handler[h]
<1>1. handler \in [Handlers -> Records]
    BY DEF OwnershipInv, HandlersInv
<1> QED BY <1>1 DEF TakeAttempt, Verify, Exchange

\* A request that is passed on with a service's credential came with a session
\* that the table has.
LEMMA ServiceNeedsSession ==
    ASSUME OwnershipInv, [LoginNext]_loginVars, NEW h \in Handlers,
           handler[h].pc = "proxied", handler'[h].pc = "answer", handler'[h].credential = "service"
    PROVE  Current(h)
<1>1. handler[h] # Idle
    BY IdleFields
<1>2. ASSUME NEW k \in Handlers, NEW b \in Clients, Start(k, b) PROVE FALSE
    <2>1. k # h
        BY <1>1, <1>2 DEF Start
    <2>2. \E q : handler' = [handler EXCEPT ![k] = q]
        BY <1>2 DEF Start
    <2> QED BY <2>1, <2>2, OthersStay
<1>3. ASSUME NEW k \in Handlers, NEW b \in Clients, NEW request, Send(k, b, request) PROVE FALSE
    <2>1. k # h
        BY <1>1, <1>3 DEF Send
    <2>2. \E q : handler' = [handler EXCEPT ![k] = q]
        BY <1>3 DEF Send
    <2> QED BY <2>1, <2>2, OthersStay
<1>4. ASSUME NEW k \in Handlers, NEW b \in Clients, NEW l, SendCallback(k, b, l) PROVE FALSE
    BY <1>3, <1>4 DEF SendCallback
<1>5. ASSUME NEW k \in Handlers, NEW b \in Clients, NEW up, NEW account, SendProxied(k, b, up, account) PROVE FALSE
    BY <1>3, <1>5 DEF SendProxied
<1>6. ASSUME NEW k \in Handlers, NEW b \in Clients, SendLogout(k, b) \/ SendMe(k, b) PROVE FALSE
    BY <1>3, <1>6 DEF SendLogout, SendMe
<1>7. ASSUME NEW k \in Handlers, TakeAttempt(k) \/ Verify(k) \/ \E life \in TokenLives : Exchange(k, life) PROVE FALSE
    <2>1. k # h
        BY <1>7 DEF TakeAttempt, Verify, Exchange
    <2> QED BY <1>7, <2>1, OthersStay
<1>8. ASSUME NEW k \in Handlers, NEW cookies, NEW credential, Answer(k, cookies, credential) PROVE k = h
    <2>1. \E q : handler' = [handler EXCEPT ![k] = q]
        BY <1>8 DEF Answer
    <2> QED BY <2>1, OthersStay
<1>9. ASSUME NEW k \in Handlers, CallbackRefused(k) \/ LoginFails(k) \/ MakeSession(k) \/ Logout(k) \/ Me(k) PROVE FALSE
    BY <1>8, <1>9 DEF CallbackRefused, LoginFails, Fail, MakeSession, Logout, Me
<1>10. ASSUME NEW k \in Handlers, AnswerArrives(k) PROVE FALSE
    <2>1. k # h
        BY <1>10 DEF AnswerArrives
    <2>2. \E q : handler' = [handler EXCEPT ![k] = q]
        BY <1>10 DEF AnswerArrives
    <2> QED BY <2>1, <2>2, OthersStay
<1>11. ASSUME NEW k \in Handlers, NEW cookies, NEW credential \in {"none", "account"}, Answer(k, cookies, credential)
       PROVE  FALSE
    <2> DEFINE q == [Idle EXCEPT !.pc = "answer", !.b = handler[k].b, !.cookies = cookies, !.credential = credential]
    <2>1. q.credential = credential
        BY DEF Idle
    <2>2. handler' = [handler EXCEPT ![k] = q] /\ k = h
        BY <1>8, <1>11 DEF Answer
    <2> HIDE DEF q
    <2>3. handler'[h] = q
        BY <2>2 DEF OwnershipInv, HandlersInv
    <2> QED BY <2>1, <2>3
<1>12. ASSUME NEW k \in Handlers, ServeAccount(k) PROVE FALSE
    BY <1>11, <1>12 DEF ServeAccount
<1>13. ASSUME NEW k \in Handlers, ServeSession(k) PROVE Current(h)
    <2>1. k = h
        BY <1>8, <1>13 DEF ServeSession
    <2>2. CASE ~Current(k)
        BY <1>11, <1>13, <2>2 DEF ServeSession
    <2> QED BY <2>1, <2>2
<1>14. CASE Tick
    <2>1. handler'[h] = handler[h]
        BY <1>14 DEF Tick
    <2> QED BY <2>1
<1>15. CASE MiddlewareRestart
    BY <1>15, IdleFields DEF MiddlewareRestart
<1>16. CASE UNCHANGED loginVars
    BY <1>16 DEF loginVars
<1> QED BY <1>2, <1>4, <1>5, <1>6, <1>7, <1>9, <1>10, <1>12, <1>13, <1>14, <1>15, <1>16 DEF LoginNext

\* A service's credential goes only with a request whose session its own browser
\* logged in for, and that is neither logged out nor too old when it is handled.
THEOREM CredentialsAreEarned == LoginSpec => CredentialsNeedASession
<1> DEFINE Earned ==
        \A h \in Handlers :
          handler[h].pc = "proxied" /\ handler'[h].pc = "answer" /\ handler'[h].credential = "service" =>
             LET s == handler[h].session
             IN  s # 0 /\ startedBy[s] = handler[h].b /\ left[s] > 0
<1>1. LoginInit => LoginInv
    BY LoginInitially
<1>2. LoginInv /\ [LoginNext]_loginVars => LoginInv'
    BY LoginStep
<1>3. LoginInv /\ [LoginNext]_loginVars => [Earned]_loginVars
    <2> SUFFICES ASSUME LoginInv, [LoginNext]_loginVars, NEW h \in Handlers,
                        handler[h].pc = "proxied", handler'[h].pc = "answer", handler'[h].credential = "service"
                 PROVE  LET s == handler[h].session
                        IN  s # 0 /\ startedBy[s] = handler[h].b /\ left[s] > 0
        OBVIOUS
    <2> DEFINE s == handler[h].session
    <2>1. s # 0 /\ sessions[s] > 0
        BY ServiceNeedsSession DEF LoginInv, Current
    <2>2. s \in Ids /\ Owns(startedBy, handler[h].b, s)
        BY HandlerFields DEF LoginInv, Good
    <2>3. s \in Logins /\ s > 0
        BY <2>1, <2>2 DEF Ids, Logins
    <2>4. startedBy[s] = handler[h].b
        BY <2>2, <2>3 DEF Owns
    <2> HIDE DEF s
    <2>5. sessions[s] \in Nat /\ left[s] \in Nat /\ sessions[s] <= left[s]
        BY <2>3 DEF LoginInv, SessionsInv
    <2>6. left[s] > 0
        BY <2>1, <2>5
    <2> QED BY <2>1, <2>4, <2>6 DEF s
<1> QED BY <1>1, <1>2, <1>3, PTL DEF LoginSpec, CredentialsNeedASession
=============================================================================
