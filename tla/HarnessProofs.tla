--------------------------- MODULE HarnessProofs ----------------------------
(***************************************************************************)
(* Theorems about the two CLI harnesses and their Close, for any number of *)
(* callers, keys, requests, sessions, clients, credentials and processes.  *)
(*                                                                         *)
(* CodexInv is the inductive invariant of the app-server pool, ClaudeInv   *)
(* that of the transport sessions, CloseInv what the shutdown has reached. *)
(* A step of the sessions touches one or two of them and turns one caller: *)
(* TouchingStep says what has to be shown of these, and that the others    *)
(* are as they were.                                                       *)
(***************************************************************************)
EXTENDS HarnessGateway, FiniteSetTheorems, SequenceTheorems, TLAPS

\* One more, and one fewer.
LEMMA OneMore ==
    ASSUME NEW U, IsFiniteSet(U), NEW x, x \notin U
    PROVE  IsFiniteSet(U \union {x}) /\ Cardinality(U \union {x}) = Cardinality(U) + 1
BY FS_AddElement

LEMMA OneFewer ==
    ASSUME NEW U, IsFiniteSet(U), NEW x \in U
    PROVE  IsFiniteSet(U \ {x}) /\ Cardinality(U \ {x}) = Cardinality(U) - 1
BY FS_RemoveElement

-----------------------------------------------------------------------------
(* CodexAppServer *)

UsePcs == {"thread", "turn", "collect", "release"}
StartPcs == {"handshake", "reap"}

ProcessRecords == [life : {"none", "up", "dead", "gone"}, stopped : BOOLEAN, failed : BOOLEAN,
                   deaf : BOOLEAN, active : Nat]

ClientRecords ==
    [pc : {"idle", "acquire"} \union UsePcs \union StartPcs,
     credential : Credentials \union {Off.credential}, process : 0..MaxProcesses,
     events : Seq(Events), calls : Nat, content : BOOLEAN, fatal : BOOLEAN, answered : BOOLEAN,
     made : Nat, over : BOOLEAN]

CodexTypes ==
    /\ processes \in [Credentials -> 0..MaxProcesses]
    /\ process \in [Pids -> ProcessRecords]
    /\ clients \in [Clients -> ClientRecords]
    /\ \A c \in Clients : clients[c].pc \in UsePcs \union StartPcs => clients[c].process \in Pids
    /\ \A c \in Clients : clients[c].pc \in {"acquire"} \union StartPcs => clients[c].credential \in Credentials

\* Nobody has stopped it, or its own output did.
Spared(r) == r.stopped => r.failed

UsersCounted ==
    \A p \in Pids : IsFiniteSet(Users(p)) /\ process[p].active = Cardinality(Users(p))

\* c.mu is held by the one client whose process shakes hands or is reaped; that
\* process is not in the pool and its credential has no other.
StartsAreExclusive ==
    \A c \in Clients : clients[c].pc \in StartPcs =>
        /\ mutex = {c}
        /\ ~Pooled(clients[c].process) /\ process[clients[c].process].active = 0
        /\ processes[clients[c].credential] = 0
        /\ clients[c].pc = "handshake" => Spared(process[clients[c].process])

PoolIsSound ==
    \A p \in Pids :
        /\ Pooled(p) => Spared(process[p])
        /\ Users(p) # {} /\ process[p].life = "up" => Spared(process[p])
        /\ process[p].life = "up" => Pooled(p) \/ Starting(p) \/ process[p].stopped \/ base # "live"

CodexInv == CodexTypes /\ UsersCounted /\ StartsAreExclusive /\ PoolIsSound

\* The client c becomes y.
Becomes(c, y) == clients' = [clients EXCEPT ![c] = y]

InUse(y, p) == y.process = p /\ y.pc \in UsePcs

\* Who uses p after client c has become y.
LEMMA UsersAfter ==
    ASSUME CodexTypes, NEW c \in Clients, NEW y, Becomes(c, y), NEW p
    PROVE  Users(p)' = IF InUse(y, p) THEN Users(p) \union {c} ELSE Users(p) \ {c}
<1>1. \A d \in Clients : clients'[d] = IF d = c THEN y ELSE clients[d]
    BY DEF CodexTypes, Becomes
<1>2. Users(p)' = {d \in Clients : InUse(clients'[d], p)} /\ Users(p) = {d \in Clients : InUse(clients[d], p)}
    BY DEF Users, InUse, UsePcs
<1> QED BY <1>1, <1>2

\* A client that becomes y without starting or ending a use.
LEMMA SameUse ==
    ASSUME CodexTypes, NEW c \in Clients, NEW y, Becomes(c, y), NEW p,
           InUse(y, p) <=> InUse(clients[c], p)
    PROVE  Users(p)' = Users(p)
<1>1. InUse(clients[c], p) <=> c \in Users(p)
    BY DEF Users, InUse, UsePcs
<1> QED BY <1>1, UsersAfter

\* Steps that touch only the client, between uses or within one.
LEMMA ClientAlone ==
    ASSUME CodexInv, NEW c \in Clients, NEW y \in ClientRecords, Becomes(c, y), UNCHANGED poolVars,
           clients[c].pc \notin StartPcs, y.pc \notin StartPcs,
           y.pc \in UsePcs <=> clients[c].pc \in UsePcs,
           y.pc \in UsePcs => y.process = clients[c].process,
           y.pc = "acquire" => y.credential \in Credentials
    PROVE  CodexInv'
<1>0. CodexTypes
    BY DEF CodexInv
<1>1. \A d \in Clients : clients'[d] = IF d = c THEN y ELSE clients[d]
    BY <1>0 DEF CodexTypes, Becomes
<1>2. processes' = processes /\ process' = process /\ mutex' = mutex /\ base' = base
    BY DEF poolVars
<1>3. \A p \in Pids : Users(p)' = Users(p)
    <2> SUFFICES ASSUME NEW p \in Pids PROVE InUse(y, p) <=> InUse(clients[c], p)
        BY <1>0, SameUse
    <2> QED BY DEF InUse
<1>4. \A p \in Pids : (Pooled(p)' <=> Pooled(p)) /\ (Starting(p)' <=> Starting(p))
    <2>1. \A p \in Pids : Pooled(p)' <=> Pooled(p)
        BY <1>2 DEF Pooled
    <2>2. \A p \in Pids : Starting(p) <=> \E d \in Clients : clients[d].process = p /\ clients[d].pc \in StartPcs
        BY DEF Starting, StartPcs
    <2>3. \A p \in Pids : Starting(p)' <=> \E d \in Clients : clients'[d].process = p /\ clients'[d].pc \in StartPcs
        BY DEF Starting, StartPcs
    <2>4. \A d \in Clients : clients'[d].pc \in StartPcs <=> clients[d].pc \in StartPcs
        BY <1>1
    <2>5. \A d \in Clients : clients'[d].pc \in StartPcs => clients'[d] = clients[d]
        BY <1>1
    <2> QED BY <2>1, <2>2, <2>3, <2>4, <2>5
<1>5. CodexTypes'
    <2>1. clients' \in [Clients -> ClientRecords]
        BY <1>0 DEF CodexTypes, Becomes
    <2>2. \A d \in Clients : clients'[d].pc \in UsePcs \union StartPcs => clients'[d].process \in Pids
        BY <1>0, <1>1 DEF CodexTypes
    <2>3. \A d \in Clients : clients'[d].pc \in {"acquire"} \union StartPcs => clients'[d].credential \in Credentials
        BY <1>0, <1>1 DEF CodexTypes
    <2> QED BY <1>0, <1>2, <2>1, <2>2, <2>3 DEF CodexTypes
<1>6. UsersCounted'
    BY <1>2, <1>3 DEF CodexInv, UsersCounted
<1>7. StartsAreExclusive'
    <2> SUFFICES ASSUME NEW d \in Clients, clients'[d].pc \in StartPcs
                 PROVE  /\ mutex = {d}
                        /\ ~Pooled(clients[d].process)' /\ process[clients'[d].process].active = 0
                        /\ processes[clients'[d].credential] = 0
                        /\ clients'[d].pc = "handshake" => Spared(process[clients'[d].process])
        BY <1>2 DEF StartsAreExclusive
    <2>1. clients'[d] = clients[d]
        BY <1>1
    <2>2. Pooled(clients[d].process)' <=> Pooled(clients[d].process)
        BY <1>2, <2>1 DEF Pooled
    <2> QED BY <2>1, <2>2 DEF CodexInv, StartsAreExclusive
<1>8. PoolIsSound'
    BY <1>2, <1>3, <1>4 DEF CodexInv, PoolIsSound
<1> QED BY <1>5, <1>6, <1>7, <1>8 DEF CodexInv

\* How the fields of a client that matter here are written.
LEMMA OffIs == Off \in ClientRecords /\ Off.pc = "idle"
<1>1. <<>> \in Seq(Events)
    OBVIOUS
<1>2. Off.credential \in Credentials \union {Off.credential}
    OBVIOUS
<1>3. MaxProcesses \in Nat
    BY CodexAssumption
<1> QED BY <1>1, <1>2, <1>3 DEF Off, ClientRecords

LEMMA AcquireIs ==
    ASSUME NEW k \in Credentials, NEW y, y = [Off EXCEPT !.pc = "acquire", !.credential = k]
    PROVE  y \in ClientRecords /\ y.pc = "acquire" /\ y.credential = k
BY OffIs DEF ClientRecords

LEMMA PcIs ==
    ASSUME NEW x \in ClientRecords, NEW q \in UsePcs \union StartPcs, NEW y, y = [x EXCEPT !.pc = q]
    PROVE  y \in ClientRecords /\ y.pc = q /\ y.process = x.process /\ y.credential = x.credential
BY DEF ClientRecords

LEMMA ReleaseIs ==
    ASSUME NEW x \in ClientRecords, NEW y, y = [Off EXCEPT !.pc = "release", !.process = x.process]
    PROVE  y \in ClientRecords /\ y.pc = "release" /\ y.process = x.process
BY OffIs DEF ClientRecords, UsePcs

LEMMA AlonePlaces ==
    ASSUME CodexInv, NEW c \in Clients,
           \/ RPCFails(c) \/ StartThread(c) \/ StartTurn(c) \/ CollectFails(c) \/ TurnCompletes(c)
           \/ TakeEvent(c) \/ AcquireFails(c)
           \/ \E e \in Notifications : AppServerSays(c, e)
           \/ \E k \in Credentials : CallCodex(c, k)
    PROVE  CodexInv'
<1>0. clients[c] \in ClientRecords /\ clients \in [Clients -> ClientRecords]
    BY DEF CodexInv, CodexTypes
<1> DEFINE x == clients[c]
<1>a. x \in ClientRecords
    BY <1>0
<1> HIDE DEF x
<1>1. CASE Ends(c) /\ UNCHANGED poolVars /\ clients[c].pc \in UsePcs
    <2>1. PICK y : y = [Off EXCEPT !.pc = "release", !.process = x.process]
        OBVIOUS
    <2>2. y \in ClientRecords /\ y.pc = "release" /\ y.process = clients[c].process
        BY <1>a, <2>1, ReleaseIs DEF x
    <2>3. Becomes(c, y)
        BY <1>1, <2>1 DEF Ends, Becomes, x
    <2>4. y.pc \in UsePcs /\ y.pc \notin StartPcs /\ clients[c].pc \notin StartPcs /\ y.pc # "acquire"
        BY <1>1, <2>2 DEF UsePcs, StartPcs
    <2> QED BY <1>1, <2>2, <2>3, <2>4, ClientAlone
<1>2. ASSUME NEW q \in UsePcs, clients' = [clients EXCEPT ![c].pc = q], UNCHANGED poolVars, clients[c].pc \in UsePcs
      PROVE  CodexInv'
    <2>1. PICK y : y = [x EXCEPT !.pc = q]
        OBVIOUS
    <2>2. y \in ClientRecords /\ y.pc = q /\ y.process = clients[c].process
        BY <1>a, <2>1, PcIs DEF x
    <2>3. Becomes(c, y)
        BY <1>2, <2>1 DEF Becomes, x
    <2>4. y.pc \in UsePcs /\ y.pc \notin StartPcs /\ clients[c].pc \notin StartPcs /\ y.pc # "acquire"
        BY <1>2, <2>2 DEF UsePcs, StartPcs
    <2> QED BY <1>2, <2>2, <2>3, <2>4, ClientAlone
<1>3. CASE RPCFails(c) \/ CollectFails(c)
    BY <1>1, <1>3 DEF RPCFails, CollectFails, Doing, UsePcs
<1>4. CASE StartThread(c) \/ StartTurn(c)
    BY <1>2, <1>4 DEF StartThread, StartTurn, Doing, UsePcs
<1>5. CASE TurnCompletes(c)
    <2>1. clients[c].pc = "collect" /\ UNCHANGED poolVars
        BY <1>5 DEF TurnCompletes, Doing
    <2>2. Ends(c) \/ clients' = [clients EXCEPT ![c].pc = "release", ![c].answered = TRUE]
        BY <1>5, Zenon DEF TurnCompletes
    <2>3. CASE Ends(c)
        BY <1>1, <2>1, <2>3 DEF UsePcs
    <2>4. CASE clients' = [clients EXCEPT ![c].pc = "release", ![c].answered = TRUE]
        <3>1. PICK y : y = [[x EXCEPT !.pc = "release"] EXCEPT !.answered = TRUE]
            OBVIOUS
        <3>2. y \in ClientRecords /\ y.pc = "release" /\ y.process = clients[c].process
            BY <1>a, <3>1 DEF x, ClientRecords, UsePcs
        <3>3. Becomes(c, y)
            BY <1>0, <2>4, <3>1 DEF Becomes, x
        <3>4. y.pc \in UsePcs /\ y.pc \notin StartPcs /\ clients[c].pc \in UsePcs /\ clients[c].pc \notin StartPcs /\ y.pc # "acquire"
            BY <2>1, <3>2 DEF UsePcs, StartPcs
        <3> QED BY <2>1, <3>2, <3>3, <3>4, ClientAlone
    <2> QED BY <2>2, <2>3, <2>4
<1>6. CASE TakeEvent(c)
    <2>1. clients[c].pc = "collect" /\ UNCHANGED poolVars /\ clients[c].events # <<>>
        BY <1>6 DEF TakeEvent, Doing
    <2>2. PICK n, f, g : clients' = [clients EXCEPT ![c].events = Tail(@), ![c].calls = n, ![c].content = f, ![c].fatal = g]
                          /\ n \in {x.calls, x.calls + 1} /\ f \in BOOLEAN /\ g \in BOOLEAN
        <3> DEFINE e == Head(clients[c].events)
        <3>1. clients' = [clients EXCEPT ![c].events = Tail(@),
                                         ![c].calls = IF e = "item/tool/call" THEN @ + 1 ELSE @,
                                         ![c].content = @ \/ e = "item/completed",
                                         ![c].fatal = @ \/ e = "error"]
            BY <1>6 DEF TakeEvent
        <3> HIDE DEF e
        <3>2. x.calls \in Nat /\ x.content \in BOOLEAN /\ x.fatal \in BOOLEAN
            BY <1>a DEF ClientRecords
        <3> WITNESS IF e = "item/tool/call" THEN x.calls + 1 ELSE x.calls, x.content \/ e = "item/completed", x.fatal \/ e = "error"
        <3> QED BY <1>0, <3>1, <3>2 DEF x, ClientRecords
    <2>3. Tail(x.events) \in Seq(Events)
        BY <1>a, <2>1 DEF x, ClientRecords
    <2>4. PICK y : y = [[[[x EXCEPT !.events = Tail(x.events)] EXCEPT !.calls = n] EXCEPT !.content = f] EXCEPT !.fatal = g]
        OBVIOUS
    <2>5. y \in ClientRecords /\ y.pc = clients[c].pc /\ y.process = clients[c].process
        <3>1. n \in Nat /\ f \in BOOLEAN /\ g \in BOOLEAN
            BY <1>a, <2>2 DEF ClientRecords
        <3> QED BY <1>a, <2>3, <2>4, <3>1 DEF x, ClientRecords
    <2>6. Becomes(c, y)
        BY <1>0, <2>2, <2>4 DEF Becomes, x
    <2>7. y.pc \in UsePcs /\ y.pc \notin StartPcs /\ clients[c].pc \in UsePcs /\ clients[c].pc \notin StartPcs /\ y.pc # "acquire"
        BY <2>1, <2>5 DEF UsePcs, StartPcs
    <2> QED BY <2>1, <2>5, <2>6, <2>7, ClientAlone
<1>7. CASE AcquireFails(c)
    <2>1. clients[c].pc = "acquire" /\ Becomes(c, Off) /\ UNCHANGED poolVars
        BY <1>7 DEF AcquireFails, Doing, Becomes, poolVars
    <2>2. Off.pc \notin StartPcs /\ Off.pc \notin UsePcs /\ clients[c].pc \notin StartPcs /\ clients[c].pc \notin UsePcs /\ Off.pc # "acquire"
        BY OffIs, <2>1 DEF UsePcs, StartPcs
    <2> QED BY OffIs, <2>1, <2>2, ClientAlone
<1>8. ASSUME NEW e \in Notifications, AppServerSays(c, e) PROVE CodexInv'
    <2>1. clients[c].pc \in {"turn", "collect"} /\ UNCHANGED poolVars
        BY <1>8 DEF AppServerSays
    <2>2. PICK n, f, s : clients' = [clients EXCEPT ![c].made = n, ![c].over = f, ![c].events = s]
                          /\ n \in {x.made, x.made + 1} /\ f \in BOOLEAN /\ s \in {x.events, Append(x.events, e)}
        <3>1. clients' = [clients EXCEPT ![c].made = IF e = "item/tool/call" THEN @ + 1 ELSE @,
                                         ![c].over = e \in Terminal,
                                         ![c].events = IF Len(@) < EventCap THEN Append(@, e) ELSE @]
            BY <1>8 DEF AppServerSays
        <3> WITNESS IF e = "item/tool/call" THEN x.made + 1 ELSE x.made, e \in Terminal,
                    IF Len(x.events) < EventCap THEN Append(x.events, e) ELSE x.events
        <3> QED BY <1>0, <3>1 DEF x, ClientRecords
    <2>3. s \in Seq(Events)
        <3>1. e \in Events
            BY CodexAssumption
        <3>2. x.events \in Seq(Events)
            BY <1>a DEF ClientRecords
        <3>3. Append(x.events, e) \in Seq(Events)
            BY <3>1, <3>2, AppendProperties
        <3>4. s \in {x.events, Append(x.events, e)}
            BY <2>2
        <3> QED BY <3>2, <3>3, <3>4, Zenon
    <2>4. PICK y : y = [[[x EXCEPT !.made = n] EXCEPT !.over = f] EXCEPT !.events = s]
        OBVIOUS
    <2>5. y \in ClientRecords /\ y.pc = clients[c].pc /\ y.process = clients[c].process
        <3>1. n \in Nat /\ f \in BOOLEAN
            BY <1>a, <2>2 DEF ClientRecords
        <3> QED BY <1>a, <2>3, <2>4, <3>1 DEF x, ClientRecords
    <2>6. Becomes(c, y)
        BY <1>0, <2>2, <2>4 DEF Becomes, x
    <2>7. y.pc \in UsePcs /\ y.pc \notin StartPcs /\ clients[c].pc \in UsePcs /\ clients[c].pc \notin StartPcs /\ y.pc # "acquire"
        BY <2>1, <2>5 DEF UsePcs, StartPcs
    <2> QED BY <2>1, <2>5, <2>6, <2>7, ClientAlone
<1>9. ASSUME NEW k \in Credentials, CallCodex(c, k) PROVE CodexInv'
    <2>1. PICK y : y = [Off EXCEPT !.pc = "acquire", !.credential = k]
        OBVIOUS
    <2>2. y \in ClientRecords /\ y.pc = "acquire" /\ y.credential = k
        BY <2>1, AcquireIs
    <2>3. clients[c].pc = "idle" /\ Becomes(c, y) /\ UNCHANGED poolVars
        BY <1>9, <2>1 DEF CallCodex, Doing, Becomes, poolVars
    <2>4. y.pc \notin StartPcs /\ y.pc \notin UsePcs /\ clients[c].pc \notin StartPcs /\ clients[c].pc \notin UsePcs
        BY <2>2, <2>3 DEF UsePcs, StartPcs
    <2> QED BY <2>2, <2>3, <2>4, ClientAlone
<1> QED BY <1>3, <1>4, <1>5, <1>6, <1>7, <1>8, <1>9

USE DEF Spared

LEMMA NoUser ==
    ASSUME CodexInv, NEW p \in Pids, process[p].active = 0
    PROVE  Users(p) = {}
BY FS_EmptySet DEF CodexInv, UsersCounted

\* While c.mu is free nobody starts a process.
LEMMA NobodyStarts ==
    ASSUME CodexInv, mutex = {}, NEW c \in Clients
    PROVE  clients[c].pc \notin StartPcs
BY DEF CodexInv, StartsAreExclusive

\* The pool after an acquire has evicted E.
LEMMA Evicts ==
    ASSUME CodexInv, NEW E \in Evictable
    PROVE  /\ Without(E) \in [Credentials -> 0..MaxProcesses]
           /\ \A k \in Credentials : Without(E)[k] = IF processes[k] \in E THEN 0 ELSE processes[k]
           /\ Stopped(E) \in [Pids -> ProcessRecords]
           /\ \A p \in Pids : /\ Stopped(E)[p].life = process[p].life
                              /\ Stopped(E)[p].active = process[p].active
                              /\ Stopped(E)[p].stopped <=> process[p].stopped \/ p \in E
                              /\ Stopped(E)[p].failed = process[p].failed
           /\ \A p \in Pids : p \in E => Pooled(p) /\ (process[p].life = "gone" \/ Users(p) = {})
           /\ E \subseteq Pids
<1>1. processes \in [Credentials -> 0..MaxProcesses] /\ process \in [Pids -> ProcessRecords] /\ MaxProcesses \in Nat
    BY CodexAssumption DEF CodexInv, CodexTypes
<1>2. E \subseteq Pids /\ \A p \in E : Pooled(p) /\ (process[p].life = "gone" \/ process[p].active = 0)
    BY DEF Evictable
<1>3. \A p \in Pids : p \in E => Pooled(p) /\ (process[p].life = "gone" \/ Users(p) = {})
    BY <1>2, NoUser
<1>4. \A k \in Credentials : Without(E)[k] = IF processes[k] \in E THEN 0 ELSE processes[k]
    BY DEF Without
<1>5. Without(E) \in [Credentials -> 0..MaxProcesses]
    BY <1>1 DEF Without
<1>6. ASSUME NEW p \in Pids, NEW r, r = [process[p] EXCEPT !.stopped = @ \/ p \in E]
      PROVE  r \in ProcessRecords /\ r.life = process[p].life /\ r.active = process[p].active
             /\ (r.stopped <=> process[p].stopped \/ p \in E) /\ r.failed = process[p].failed
    <2>1. process[p] \in ProcessRecords
        BY <1>1
    <2>2. PICK b : b = (process[p].stopped \/ p \in E)
        OBVIOUS
    <2>3. b \in BOOLEAN
        BY <2>2
    <2>4. r = [process[p] EXCEPT !.stopped = b]
        BY <1>6, <2>1, <2>2 DEF ProcessRecords
    <2>5. r \in ProcessRecords /\ r.life = process[p].life /\ r.active = process[p].active /\ r.stopped = b
          /\ r.failed = process[p].failed
        BY <2>1, <2>3, <2>4 DEF ProcessRecords
    <2> QED BY <2>2, <2>5
<1>7. \A p \in Pids : Stopped(E)[p] = [process[p] EXCEPT !.stopped = @ \/ p \in E]
    BY DEF Stopped
<1>8. Stopped(E) = [p \in Pids |-> Stopped(E)[p]]
    BY DEF Stopped
<1>9. Stopped(E) \in [Pids -> ProcessRecords]
    BY <1>6, <1>7, <1>8
<1> QED BY <1>2, <1>3, <1>4, <1>5, <1>6, <1>7, <1>9

LEMMA JoinCodex ==
    ASSUME CodexInv, NEW c \in Clients, Join(c)
    PROVE  CodexInv'
<1>0. CodexTypes
    BY DEF CodexInv
<1>1. clients[c].pc = "acquire" /\ mutex = {} /\ base = "live" /\ mutex' = mutex /\ base' = base
    BY DEF Join, Doing
<1>2. PICK E \in Evictable :
             /\ Without(E)[clients[c].credential] # 0
             /\ processes' = Without(E)
             /\ process' = [Stopped(E) EXCEPT ![Without(E)[clients[c].credential]].active = @ + 1]
             /\ clients' = [clients EXCEPT ![c].pc = "thread", ![c].process = Without(E)[clients[c].credential]]
    BY DEF Join
<1>3. PICK q : q = Without(E)[clients[c].credential]
    OBVIOUS
<1>4. clients[c].credential \in Credentials /\ clients[c] \in ClientRecords
    BY <1>0, <1>1 DEF CodexTypes
<1>5. /\ Without(E) \in [Credentials -> 0..MaxProcesses]
      /\ \A k \in Credentials : Without(E)[k] = IF processes[k] \in E THEN 0 ELSE processes[k]
      /\ Stopped(E) \in [Pids -> ProcessRecords]
      /\ \A p \in Pids : /\ Stopped(E)[p].life = process[p].life
                         /\ Stopped(E)[p].active = process[p].active
                         /\ Stopped(E)[p].stopped <=> process[p].stopped \/ p \in E
                         /\ Stopped(E)[p].failed = process[p].failed
      /\ \A p \in Pids : p \in E => Pooled(p) /\ (process[p].life = "gone" \/ Users(p) = {})
      /\ E \subseteq Pids
    BY Evicts
<1>6. q \in Pids /\ q \notin E /\ Pooled(q) /\ q \in 0..MaxProcesses
    <2>1. q # 0 /\ q \in 0..MaxProcesses /\ MaxProcesses \in Nat
        BY <1>2, <1>3, <1>4, <1>5, CodexAssumption
    <2>2. q \in Pids
        BY <2>1 DEF Pids
    <2>3. processes[clients[c].credential] = q /\ q \notin E
        BY <1>3, <1>4, <1>5, <2>1
    <2> QED BY <1>4, <2>1, <2>2, <2>3 DEF Pooled
<1>7. /\ process' \in [Pids -> ProcessRecords]
      /\ \A p \in Pids : /\ process'[p].life = process[p].life
                         /\ process'[p].active = IF p = q THEN process[p].active + 1 ELSE process[p].active
                         /\ process'[p].stopped <=> process[p].stopped \/ p \in E
                         /\ process'[p].failed = process[p].failed
    <2>1. PICK S : S = Stopped(E)
        OBVIOUS
    <2>2. process' = [S EXCEPT ![q].active = @ + 1]
        BY <1>2, <1>3, <2>1
    <2>3. S \in [Pids -> ProcessRecords]
          /\ \A p \in Pids : S[p].life = process[p].life /\ S[p].active = process[p].active
                             /\ (S[p].stopped <=> process[p].stopped \/ p \in E)
                             /\ S[p].failed = process[p].failed
        BY <1>5, <2>1
    <2>4. PICK r : r = [S[q] EXCEPT !.active = @ + 1]
        OBVIOUS
    <2>5. r \in ProcessRecords /\ r.life = S[q].life /\ r.stopped = S[q].stopped /\ r.active = S[q].active + 1
          /\ r.failed = S[q].failed
        BY <1>6, <2>3, <2>4 DEF ProcessRecords
    <2>6. process' = [S EXCEPT ![q] = r]
        BY <2>2, <2>4
    <2> QED BY <1>6, <2>3, <2>5, <2>6
<1>8. PICK y : y = [[clients[c] EXCEPT !.pc = "thread"] EXCEPT !.process = q]
    OBVIOUS
<1>9. y \in ClientRecords /\ y.pc = "thread" /\ y.process = q
    <2>1. PICK x : x = clients[c]
        OBVIOUS
    <2>2. x \in ClientRecords /\ y = [[x EXCEPT !.pc = "thread"] EXCEPT !.process = q]
        BY <1>4, <1>8, <2>1
    <2> QED BY <1>6, <2>2 DEF ClientRecords, UsePcs
<1>10. Becomes(c, y)
    BY <1>0, <1>2, <1>3, <1>8 DEF Becomes, CodexTypes
<1>11. \A d \in Clients : clients'[d] = IF d = c THEN y ELSE clients[d]
    BY <1>0, <1>10 DEF CodexTypes, Becomes
<1>12. \A d \in Clients : clients[d].pc \notin StartPcs /\ clients'[d].pc \notin StartPcs
    BY <1>1, <1>9, <1>11, NobodyStarts DEF StartPcs
<1>13. \A p \in Pids : Pooled(p)' => Pooled(p) /\ p \notin E
    <2> SUFFICES ASSUME NEW p \in Pids, NEW k \in Credentials, processes'[k] = p PROVE Pooled(p) /\ p \notin E
        BY DEF Pooled
    <2>1. p # 0
        BY DEF Pids
    <2> QED BY <1>2, <1>5, <2>1 DEF Pooled
<1>14. \A p \in Pids : Pooled(p) /\ p \notin E => Pooled(p)'
    BY <1>2, <1>5 DEF Pooled
<1>15. c \notin Users(q)
    BY <1>1 DEF Users
<1>16. Users(q)' = Users(q) \union {c}
    BY <1>0, <1>9, <1>10, UsersAfter DEF InUse, UsePcs
<1>17. \A p \in Pids : p # q => Users(p)' = Users(p)
    <2> SUFFICES ASSUME NEW p \in Pids, p # q PROVE ~InUse(y, p) /\ ~InUse(clients[c], p)
        BY <1>0, <1>10, SameUse
    <2> QED BY <1>1, <1>9 DEF InUse, UsePcs
<1>18. CodexTypes'
    <2>1. clients' \in [Clients -> ClientRecords]
        BY <1>0, <1>9, <1>10 DEF CodexTypes, Becomes
    <2>2. \A d \in Clients : clients'[d].pc \in UsePcs \union StartPcs => clients'[d].process \in Pids
        BY <1>0, <1>6, <1>9, <1>11 DEF CodexTypes
    <2>3. \A d \in Clients : clients'[d].pc \in {"acquire"} \union StartPcs => clients'[d].credential \in Credentials
        BY <1>0, <1>9, <1>11 DEF CodexTypes, StartPcs
    <2> QED BY <1>2, <1>5, <1>7, <2>1, <2>2, <2>3 DEF CodexTypes
<1>19. UsersCounted'
    <2> SUFFICES ASSUME NEW p \in Pids PROVE IsFiniteSet(Users(p)') /\ process'[p].active = Cardinality(Users(p)')
        BY DEF UsersCounted
    <2>1. IsFiniteSet(Users(p)) /\ process[p].active = Cardinality(Users(p))
        BY DEF CodexInv, UsersCounted
    <2>2. CASE p = q
        BY <1>7, <1>15, <1>16, <2>1, <2>2, OneMore
    <2>3. CASE p # q
        BY <1>7, <1>17, <2>1, <2>3
    <2> QED BY <2>2, <2>3
<1>20. StartsAreExclusive'
    BY <1>12 DEF StartsAreExclusive
<1>21. PoolIsSound'
    <2> SUFFICES ASSUME NEW p \in Pids
                 PROVE  /\ Pooled(p)' => Spared(process'[p])
                        /\ Users(p)' # {} /\ process'[p].life = "up" => Spared(process'[p])
                        /\ process'[p].life = "up" => Pooled(p)' \/ process'[p].stopped
        BY DEF PoolIsSound
    <2>1. /\ Pooled(p) => Spared(process[p])
          /\ Users(p) # {} /\ process[p].life = "up" => Spared(process[p])
          /\ process[p].life = "up" => Pooled(p) \/ process[p].stopped
        <3>1. ~Starting(p)
            BY <1>12 DEF Starting, StartPcs
        <3> QED BY <1>1, <3>1 DEF CodexInv, PoolIsSound
    <2>2. Pooled(p)' => Spared(process'[p])
        BY <1>7, <1>13, <2>1
    <2>3. Users(p)' # {} /\ process'[p].life = "up" => Spared(process'[p])
        <3>1. CASE p = q
            BY <1>6, <1>7, <2>1, <3>1
        <3>2. CASE p # q
            BY <1>5, <1>7, <1>17, <2>1, <3>2
        <3> QED BY <3>1, <3>2
    <2>4. process'[p].life = "up" => Pooled(p)' \/ process'[p].stopped
        BY <1>7, <1>14, <2>1
    <2> QED BY <2>2, <2>3, <2>4
<1> QED BY <1>18, <1>19, <1>20, <1>21 DEF CodexInv

LEMMA LaunchCodex ==
    ASSUME CodexInv, NEW c \in Clients, Launch(c)
    PROVE  CodexInv'
<1>0. CodexTypes
    BY DEF CodexInv
<1>a. PICK q : q = CHOOSE n \in Unborn : TRUE
    OBVIOUS
<1>1. /\ clients[c].pc = "acquire" /\ mutex = {} /\ base = "live" /\ mutex' = {c} /\ base' = base
      /\ clients' = [clients EXCEPT ![c].pc = "handshake", ![c].process = q] /\ Unborn # {}
    BY <1>a DEF Launch, Doing
<1>2. PICK E \in Evictable :
             /\ Without(E)[clients[c].credential] = 0
             /\ processes' = Without(E)
             /\ process' = [Stopped(E) EXCEPT ![q] = [NoProcess EXCEPT !.life = "up"]]
    BY <1>a DEF Launch
<1>3. q \in Unborn
    BY <1>1, <1>a
<1>4. clients[c].credential \in Credentials /\ clients[c] \in ClientRecords
    BY <1>0, <1>1 DEF CodexTypes
<1>5. /\ Without(E) \in [Credentials -> 0..MaxProcesses]
      /\ \A k \in Credentials : Without(E)[k] = IF processes[k] \in E THEN 0 ELSE processes[k]
      /\ Stopped(E) \in [Pids -> ProcessRecords]
      /\ \A p \in Pids : /\ Stopped(E)[p].life = process[p].life
                         /\ Stopped(E)[p].active = process[p].active
                         /\ Stopped(E)[p].stopped <=> process[p].stopped \/ p \in E
                         /\ Stopped(E)[p].failed = process[p].failed
      /\ \A p \in Pids : p \in E => Pooled(p) /\ (process[p].life = "gone" \/ Users(p) = {})
      /\ E \subseteq Pids
    BY Evicts
<1>6. q \in Pids /\ ~Pooled(q) /\ q \in 0..MaxProcesses /\ process[q].active = 0
      /\ \A d \in Clients : clients[d].process # q
    BY <1>3, CodexAssumption DEF Unborn, Pids
<1>7. /\ process' \in [Pids -> ProcessRecords]
      /\ process'[q].life = "up" /\ process'[q].active = 0 /\ Spared(process'[q])
      /\ \A p \in Pids : p # q => /\ process'[p].life = process[p].life
                                  /\ process'[p].active = process[p].active
                                  /\ process'[p].stopped <=> process[p].stopped \/ p \in E
                                  /\ process'[p].failed = process[p].failed
    <2>1. PICK S : S = Stopped(E)
        OBVIOUS
    <2>2. PICK r : r = [NoProcess EXCEPT !.life = "up"]
        OBVIOUS
    <2>3. r \in ProcessRecords /\ r.life = "up" /\ ~r.stopped /\ r.active = 0
        BY <2>2 DEF NoProcess, ProcessRecords
    <2>4. process' = [S EXCEPT ![q] = r]
        BY <1>2, <2>1, <2>2
    <2>5. S \in [Pids -> ProcessRecords]
          /\ \A p \in Pids : S[p].life = process[p].life /\ S[p].active = process[p].active
                             /\ (S[p].stopped <=> process[p].stopped \/ p \in E)
                             /\ S[p].failed = process[p].failed
        BY <1>5, <2>1
    <2> QED BY <1>6, <2>3, <2>4, <2>5
<1>8. PICK y : y = [[clients[c] EXCEPT !.pc = "handshake"] EXCEPT !.process = q]
    OBVIOUS
<1>9. y \in ClientRecords /\ y.pc = "handshake" /\ y.process = q /\ y.credential = clients[c].credential
    <2>1. PICK x : x = clients[c]
        OBVIOUS
    <2>2. x \in ClientRecords /\ y = [[x EXCEPT !.pc = "handshake"] EXCEPT !.process = q]
        BY <1>4, <1>8, <2>1
    <2> QED BY <1>6, <2>1, <2>2 DEF ClientRecords, StartPcs
<1>10. Becomes(c, y)
    BY <1>0, <1>1, <1>8 DEF Becomes, CodexTypes
<1>11. \A d \in Clients : clients'[d] = IF d = c THEN y ELSE clients[d]
    BY <1>0, <1>10 DEF CodexTypes, Becomes
<1>12. \A d \in Clients : clients[d].pc \notin StartPcs
    BY <1>1, NobodyStarts
<1>13. ASSUME NEW p \in Pids PROVE Pooled(p)' <=> Pooled(p) /\ p \notin E
    <2>1. p # 0
        BY DEF Pids
    <2> QED BY <1>2, <1>5, <2>1 DEF Pooled
<1>14. \A p \in Pids : Users(p)' = Users(p)
    <2> SUFFICES ASSUME NEW p \in Pids PROVE ~InUse(y, p) /\ ~InUse(clients[c], p)
        BY <1>0, <1>10, SameUse
    <2> QED BY <1>1, <1>9 DEF InUse, UsePcs
<1>15. CodexTypes'
    <2>1. clients' \in [Clients -> ClientRecords]
        BY <1>0, <1>9, <1>10 DEF CodexTypes, Becomes
    <2>2. \A d \in Clients : clients'[d].pc \in UsePcs \union StartPcs => clients'[d].process \in Pids
        BY <1>0, <1>6, <1>9, <1>11 DEF CodexTypes
    <2>3. \A d \in Clients : clients'[d].pc \in {"acquire"} \union StartPcs => clients'[d].credential \in Credentials
        BY <1>0, <1>4, <1>9, <1>11 DEF CodexTypes, StartPcs
    <2> QED BY <1>2, <1>5, <1>7, <2>1, <2>2, <2>3 DEF CodexTypes
<1>16. UsersCounted'
    <2> SUFFICES ASSUME NEW p \in Pids PROVE IsFiniteSet(Users(p)') /\ process'[p].active = Cardinality(Users(p)')
        BY DEF UsersCounted
    <2>1. IsFiniteSet(Users(p)) /\ process[p].active = Cardinality(Users(p))
        BY DEF CodexInv, UsersCounted
    <2> QED BY <1>6, <1>7, <1>14, <2>1
<1>17. StartsAreExclusive'
    <2> SUFFICES ASSUME NEW d \in Clients, clients'[d].pc \in StartPcs
                 PROVE  /\ mutex' = {d}
                        /\ ~Pooled(clients[d].process)' /\ process'[clients'[d].process].active = 0
                        /\ processes'[clients'[d].credential] = 0
                        /\ clients'[d].pc = "handshake" => Spared(process'[clients'[d].process])
        BY DEF StartsAreExclusive
    <2>1. d = c /\ clients'[d] = y
        BY <1>11, <1>12
    <2>2. ~Pooled(q)'
        BY <1>6, <1>13
    <2>3. ~Pooled(clients[d].process)'
        BY <1>9, <2>1, <2>2 DEF Pooled
    <2> QED BY <1>1, <1>2, <1>7, <1>9, <2>1, <2>3
<1>18. PoolIsSound'
    <2> SUFFICES ASSUME NEW p \in Pids
                 PROVE  /\ Pooled(p)' => Spared(process'[p])
                        /\ Users(p)' # {} /\ process'[p].life = "up" => Spared(process'[p])
                        /\ process'[p].life = "up" => Pooled(p)' \/ Starting(p)' \/ process'[p].stopped
        BY DEF PoolIsSound
    <2>1. /\ Pooled(p) => Spared(process[p])
          /\ Users(p) # {} /\ process[p].life = "up" => Spared(process[p])
          /\ process[p].life = "up" => Pooled(p) \/ process[p].stopped
        <3>1. ~Starting(p)
            BY <1>12 DEF Starting, StartPcs
        <3> QED BY <1>1, <3>1 DEF CodexInv, PoolIsSound
    <2>2. CASE p = q
        <3>1. Starting(p)'
            BY <1>9, <1>11, <2>2 DEF Starting
        <3> QED BY <1>7, <2>2, <3>1
    <2>3. CASE p # q
        <3>1. Pooled(p)' => Spared(process'[p])
            BY <1>7, <1>13, <2>1, <2>3
        <3>2. Users(p)' # {} /\ process'[p].life = "up" => Spared(process'[p])
            BY <1>5, <1>7, <1>14, <2>1, <2>3
        <3>3. process'[p].life = "up" => Pooled(p)' \/ process'[p].stopped
            BY <1>7, <1>13, <2>1, <2>3
        <3> QED BY <3>1, <3>2, <3>3
    <2> QED BY <2>2, <2>3
<1> QED BY <1>15, <1>16, <1>17, <1>18 DEF CodexInv

\* The end of a start: the process enters the pool with its first user.
LEMMA HandshakeDoneCodex ==
    ASSUME CodexInv, NEW c \in Clients, HandshakeDone(c)
    PROVE  CodexInv'
<1>0. CodexTypes
    BY DEF CodexInv
<1>1. PICK q : q = clients[c].process
    OBVIOUS
<1>2. /\ clients[c].pc = "handshake" /\ mutex' = {} /\ base' = base
      /\ processes' = [processes EXCEPT ![clients[c].credential] = q]
      /\ process' = [process EXCEPT ![q].active = 1]
      /\ clients' = [clients EXCEPT ![c].pc = "thread"]
    BY <1>1 DEF HandshakeDone, Doing
<1>3. clients[c].pc \in StartPcs /\ clients[c].pc \notin UsePcs
    BY <1>2 DEF StartPcs, UsePcs
<1>4. q \in Pids /\ clients[c].credential \in Credentials /\ clients[c] \in ClientRecords /\ q \in 0..MaxProcesses
    BY <1>0, <1>1, <1>3, CodexAssumption DEF CodexTypes, Pids
<1>5. mutex = {c} /\ ~Pooled(q) /\ process[q].active = 0 /\ Spared(process[q]) /\ processes[clients[c].credential] = 0
    BY <1>1, <1>2, <1>3 DEF CodexInv, StartsAreExclusive
<1>6. /\ process' \in [Pids -> ProcessRecords]
      /\ \A p \in Pids : /\ process'[p].life = process[p].life
                         /\ process'[p].active = IF p = q THEN 1 ELSE process[p].active
                         /\ process'[p].stopped = process[p].stopped
                         /\ process'[p].failed = process[p].failed
    <2>1. PICK r : r = [process[q] EXCEPT !.active = 1]
        OBVIOUS
    <2>2. process \in [Pids -> ProcessRecords]
        BY <1>0 DEF CodexTypes
    <2>3. r \in ProcessRecords /\ r.life = process[q].life /\ r.stopped = process[q].stopped /\ r.active = 1
          /\ r.failed = process[q].failed
        BY <1>4, <2>1, <2>2 DEF ProcessRecords
    <2>4. process' = [process EXCEPT ![q] = r]
        BY <1>2, <2>1
    <2> QED BY <1>4, <2>2, <2>3, <2>4
<1>7. PICK y : y = [clients[c] EXCEPT !.pc = "thread"]
    OBVIOUS
<1>8. y \in ClientRecords /\ y.pc = "thread" /\ y.process = q
    BY <1>1, <1>4, <1>7 DEF ClientRecords, UsePcs
<1>9. Becomes(c, y)
    BY <1>2, <1>7 DEF Becomes
<1>10. \A d \in Clients : clients'[d] = IF d = c THEN y ELSE clients[d]
    BY <1>0, <1>9 DEF CodexTypes, Becomes
<1>11. \A d \in Clients : clients'[d].pc \notin StartPcs
    <2> SUFFICES ASSUME NEW d \in Clients, d # c PROVE clients[d].pc \notin StartPcs
        BY <1>8, <1>10 DEF StartPcs
    <2> QED BY <1>5 DEF CodexInv, StartsAreExclusive
<1>12. ASSUME NEW p \in Pids PROVE Pooled(p)' <=> Pooled(p) \/ p = q
    <2>1. p # 0
        BY DEF Pids
    <2>2. \A k \in Credentials : processes'[k] = IF k = clients[c].credential THEN q ELSE processes[k]
        BY <1>0, <1>2 DEF CodexTypes
    <2> QED BY <1>4, <1>5, <2>1, <2>2 DEF Pooled
<1>13. Users(q) = {} /\ Users(q)' = Users(q) \union {c}
    BY <1>0, <1>4, <1>5, <1>8, <1>9, NoUser, UsersAfter DEF InUse, UsePcs
<1>14. \A p \in Pids : p # q => Users(p)' = Users(p)
    <2> SUFFICES ASSUME NEW p \in Pids, p # q PROVE ~InUse(y, p) /\ ~InUse(clients[c], p)
        BY <1>0, <1>9, SameUse
    <2> QED BY <1>1, <1>8 DEF InUse
<1>15. CodexTypes'
    <2>1. clients' \in [Clients -> ClientRecords]
        BY <1>0, <1>8, <1>9 DEF CodexTypes, Becomes
    <2>2. \A d \in Clients : clients'[d].pc \in UsePcs \union StartPcs => clients'[d].process \in Pids
        BY <1>0, <1>4, <1>8, <1>10 DEF CodexTypes
    <2>3. \A d \in Clients : clients'[d].pc \in {"acquire"} \union StartPcs => clients'[d].credential \in Credentials
        BY <1>0, <1>8, <1>10 DEF CodexTypes, StartPcs
    <2>4. processes' \in [Credentials -> 0..MaxProcesses]
        BY <1>0, <1>2, <1>4 DEF CodexTypes
    <2> QED BY <1>6, <2>1, <2>2, <2>3, <2>4 DEF CodexTypes
<1>16. UsersCounted'
    <2> SUFFICES ASSUME NEW p \in Pids PROVE IsFiniteSet(Users(p)') /\ process'[p].active = Cardinality(Users(p)')
        BY DEF UsersCounted
    <2>1. CASE p = q
        <3>1. Users(p)' = {c}
            BY <1>13, <2>1
        <3> QED BY <1>6, <2>1, <3>1, FS_Singleton
    <2>2. CASE p # q
        BY <1>6, <1>14, <2>2 DEF CodexInv, UsersCounted
    <2> QED BY <2>1, <2>2
<1>17. StartsAreExclusive'
    BY <1>11 DEF StartsAreExclusive
<1>18. PoolIsSound'
    <2> SUFFICES ASSUME NEW p \in Pids
                 PROVE  /\ Pooled(p)' => Spared(process'[p])
                        /\ Users(p)' # {} /\ process'[p].life = "up" => Spared(process'[p])
                        /\ process'[p].life = "up" => Pooled(p)' \/ process'[p].stopped \/ base # "live"
        BY <1>2 DEF PoolIsSound
    <2>1. CASE p = q
        BY <1>5, <1>6, <1>12, <2>1
    <2>2. CASE p # q
        <3>1. ~Starting(p)
            BY <1>1, <1>5, <2>2 DEF Starting, CodexInv, StartsAreExclusive, StartPcs
        <3> QED BY <1>6, <1>12, <1>14, <2>2, <3>1 DEF CodexInv, PoolIsSound
    <2> QED BY <2>1, <2>2
<1> QED BY <1>15, <1>16, <1>17, <1>18 DEF CodexInv

\* A step of client c, who starts or has started process q, that leaves the
\* pool and the users alone.
LEMMA HandshakeFailsCodex ==
    ASSUME CodexInv, NEW c \in Clients, HandshakeFails(c)
    PROVE  CodexInv'
<1>0. CodexTypes
    BY DEF CodexInv
<1>1. PICK q : q = clients[c].process
    OBVIOUS
<1>2. /\ clients[c].pc = "handshake" /\ mutex' = mutex /\ base' = base /\ processes' = processes
      /\ process' = [process EXCEPT ![q].stopped = TRUE]
      /\ clients' = [clients EXCEPT ![c].pc = "reap"]
    BY <1>1 DEF HandshakeFails, Doing
<1>3. clients[c].pc \in StartPcs /\ clients[c].pc \notin UsePcs
    BY <1>2 DEF StartPcs, UsePcs
<1>4. q \in Pids /\ clients[c].credential \in Credentials /\ clients[c] \in ClientRecords
    BY <1>0, <1>1, <1>3 DEF CodexTypes
<1>5. mutex = {c} /\ ~Pooled(q) /\ process[q].active = 0 /\ processes[clients[c].credential] = 0
    BY <1>1, <1>3 DEF CodexInv, StartsAreExclusive
<1>6. /\ process' \in [Pids -> ProcessRecords]
      /\ \A p \in Pids : /\ process'[p].life = process[p].life
                         /\ process'[p].active = process[p].active
                         /\ process'[p].stopped = IF p = q THEN TRUE ELSE process[p].stopped
                         /\ process'[p].failed = process[p].failed
    <2>1. PICK r : r = [process[q] EXCEPT !.stopped = TRUE]
        OBVIOUS
    <2>2. process \in [Pids -> ProcessRecords]
        BY <1>0 DEF CodexTypes
    <2>3. r \in ProcessRecords /\ r.life = process[q].life /\ r.stopped = TRUE /\ r.active = process[q].active
          /\ r.failed = process[q].failed
        BY <1>4, <2>1, <2>2 DEF ProcessRecords
    <2>4. process' = [process EXCEPT ![q] = r]
        BY <1>2, <2>1
    <2> QED BY <1>4, <2>2, <2>3, <2>4
<1>7. PICK y : y = [clients[c] EXCEPT !.pc = "reap"]
    OBVIOUS
<1>8. y \in ClientRecords /\ y.pc = "reap" /\ y.process = q /\ y.credential = clients[c].credential
    BY <1>1, <1>4, <1>7 DEF ClientRecords, StartPcs
<1>9. Becomes(c, y)
    BY <1>2, <1>7 DEF Becomes
<1>10. \A d \in Clients : clients'[d] = IF d = c THEN y ELSE clients[d]
    BY <1>0, <1>9 DEF CodexTypes, Becomes
<1>11. \A p : Pooled(p)' <=> Pooled(p)
    BY <1>2 DEF Pooled
<1>12. \A p \in Pids : Users(p)' = Users(p)
    <2> SUFFICES ASSUME NEW p \in Pids PROVE ~InUse(y, p) /\ ~InUse(clients[c], p)
        BY <1>0, <1>9, SameUse
    <2> QED BY <1>3, <1>8 DEF InUse, UsePcs
<1>13. Users(q) = {}
    BY <1>4, <1>5, NoUser
<1>14. CodexTypes'
    <2>1. clients' \in [Clients -> ClientRecords]
        BY <1>0, <1>8, <1>9 DEF CodexTypes, Becomes
    <2>2. \A d \in Clients : clients'[d].pc \in UsePcs \union StartPcs => clients'[d].process \in Pids
        BY <1>0, <1>4, <1>8, <1>10 DEF CodexTypes
    <2>3. \A d \in Clients : clients'[d].pc \in {"acquire"} \union StartPcs => clients'[d].credential \in Credentials
        BY <1>0, <1>4, <1>8, <1>10 DEF CodexTypes
    <2> QED BY <1>0, <1>2, <1>6, <2>1, <2>2, <2>3 DEF CodexTypes
<1>15. UsersCounted'
    BY <1>6, <1>12 DEF CodexInv, UsersCounted
<1>16. StartsAreExclusive'
    <2> SUFFICES ASSUME NEW d \in Clients, clients'[d].pc \in StartPcs
                 PROVE  /\ mutex' = {d}
                        /\ ~Pooled(clients[d].process)' /\ process'[clients'[d].process].active = 0
                        /\ processes'[clients'[d].credential] = 0
                        /\ clients'[d].pc = "handshake" => Spared(process'[clients'[d].process])
        BY DEF StartsAreExclusive
    <2>1. d = c
        BY <1>5, <1>10 DEF CodexInv, StartsAreExclusive
    <2>2. clients'[d] = y
        BY <1>10, <2>1
    <2>3. ~Pooled(clients[d].process)'
        BY <1>2, <1>5, <1>8, <2>2 DEF Pooled
    <2> QED BY <1>2, <1>4, <1>5, <1>6, <1>8, <2>1, <2>2, <2>3
<1>17. PoolIsSound'
    <2> SUFFICES ASSUME NEW p \in Pids
                 PROVE  /\ Pooled(p)' => Spared(process'[p])
                        /\ Users(p)' # {} /\ process'[p].life = "up" => Spared(process'[p])
                        /\ process'[p].life = "up" => Pooled(p)' \/ Starting(p)' \/ process'[p].stopped \/ base # "live"
        BY <1>2 DEF PoolIsSound
    <2>1. CASE p = q
        BY <1>5, <1>6, <1>11, <1>12, <1>13, <2>1
    <2>2. CASE p # q
        <3>1. ~Starting(p)
            BY <1>1, <1>5, <2>2 DEF Starting, CodexInv, StartsAreExclusive, StartPcs
        <3> QED BY <1>6, <1>11, <1>12, <2>2, <3>1 DEF CodexInv, PoolIsSound
    <2> QED BY <2>1, <2>2
<1> QED BY <1>14, <1>15, <1>16, <1>17 DEF CodexInv

LEMMA ReapCodex ==
    ASSUME CodexInv, NEW c \in Clients, Reap(c)
    PROVE  CodexInv'
<1>0. CodexTypes
    BY DEF CodexInv
<1>1. PICK q : q = clients[c].process
    OBVIOUS
<1>2. /\ clients[c].pc = "reap" /\ mutex' = {} /\ base' = base /\ processes' = processes
      /\ process' = process /\ process[q].life = "gone" /\ Becomes(c, Off)
    BY <1>1 DEF Reap, Doing, ProcessOf, Becomes
<1>3. clients[c].pc \in StartPcs /\ clients[c].pc \notin UsePcs
    BY <1>2 DEF StartPcs, UsePcs
<1>4. mutex = {c}
    BY <1>3 DEF CodexInv, StartsAreExclusive
<1>5. Off \in ClientRecords /\ Off.pc = "idle"
    BY OffIs
<1>6. \A d \in Clients : clients'[d] = IF d = c THEN Off ELSE clients[d]
    BY <1>0, <1>2 DEF CodexTypes, Becomes
<1>7. \A p : Pooled(p)' <=> Pooled(p)
    BY <1>2 DEF Pooled
<1>8. \A p \in Pids : Users(p)' = Users(p)
    <2> SUFFICES ASSUME NEW p \in Pids PROVE ~InUse(Off, p) /\ ~InUse(clients[c], p)
        BY <1>0, <1>2, SameUse
    <2> QED BY <1>3, <1>5 DEF InUse, UsePcs
<1>9. \A d \in Clients : clients'[d].pc \notin StartPcs
    <2> SUFFICES ASSUME NEW d \in Clients, d # c PROVE clients[d].pc \notin StartPcs
        BY <1>5, <1>6 DEF StartPcs
    <2> QED BY <1>4 DEF CodexInv, StartsAreExclusive
<1>10. CodexTypes'
    <2>1. clients' \in [Clients -> ClientRecords]
        BY <1>0, <1>2, <1>5 DEF CodexTypes, Becomes
    <2>2. \A d \in Clients : clients'[d].pc \in UsePcs \union StartPcs => clients'[d].process \in Pids
        BY <1>0, <1>5, <1>6 DEF CodexTypes, UsePcs, StartPcs
    <2>3. \A d \in Clients : clients'[d].pc \in {"acquire"} \union StartPcs => clients'[d].credential \in Credentials
        BY <1>0, <1>5, <1>6 DEF CodexTypes, StartPcs
    <2> QED BY <1>0, <1>2, <2>1, <2>2, <2>3 DEF CodexTypes
<1>11. UsersCounted'
    BY <1>2, <1>8 DEF CodexInv, UsersCounted
<1>12. StartsAreExclusive'
    BY <1>9 DEF StartsAreExclusive
<1>13. PoolIsSound'
    <2> SUFFICES ASSUME NEW p \in Pids
                 PROVE  /\ Pooled(p)' => Spared(process'[p])
                        /\ Users(p)' # {} /\ process'[p].life = "up" => Spared(process'[p])
                        /\ process'[p].life = "up" => Pooled(p)' \/ process'[p].stopped \/ base # "live"
        BY <1>2 DEF PoolIsSound
    <2>1. process[p].life = "up" => ~Starting(p)
        BY <1>1, <1>2, <1>4 DEF Starting, CodexInv, StartsAreExclusive, StartPcs
    <2> QED BY <1>2, <1>7, <1>8, <2>1 DEF CodexInv, PoolIsSound
<1> QED BY <1>10, <1>11, <1>12, <1>13 DEF CodexInv

LEMMA ReleaseCodex ==
    ASSUME CodexInv, NEW c \in Clients, ReleaseProcess(c)
    PROVE  CodexInv'
<1>0. CodexTypes
    BY DEF CodexInv
<1>1. PICK q : q = clients[c].process
    OBVIOUS
<1>2. /\ clients[c].pc = "release" /\ mutex = {} /\ mutex' = mutex /\ base' = base /\ processes' = processes
      /\ process' = [process EXCEPT ![q].active = @ - 1] /\ Becomes(c, Off)
    BY <1>1 DEF ReleaseProcess, Doing, Becomes
<1>3. q \in Pids /\ c \in Users(q)
    BY <1>0, <1>1, <1>2 DEF CodexTypes, UsePcs, Users
<1>4. Off \in ClientRecords /\ Off.pc = "idle"
    BY OffIs
<1>5. \A d \in Clients : clients'[d] = IF d = c THEN Off ELSE clients[d]
    BY <1>0, <1>2 DEF CodexTypes, Becomes
<1>6. \A p : Pooled(p)' <=> Pooled(p)
    BY <1>2 DEF Pooled
<1>7. \A p \in Pids : p # q => Users(p)' = Users(p)
    <2> SUFFICES ASSUME NEW p \in Pids, p # q PROVE ~InUse(Off, p) /\ ~InUse(clients[c], p)
        BY <1>0, <1>2, SameUse
    <2> QED BY <1>1, <1>4 DEF InUse, UsePcs
<1>8. Users(q)' = Users(q) \ {c}
    BY <1>0, <1>2, <1>4, UsersAfter DEF InUse, UsePcs
<1>9. /\ IsFiniteSet(Users(q)) /\ process[q].active = Cardinality(Users(q))
      /\ IsFiniteSet(Users(q) \ {c}) /\ Cardinality(Users(q) \ {c}) = Cardinality(Users(q)) - 1
    BY <1>3, OneFewer DEF CodexInv, UsersCounted
<1>10. process[q].active - 1 \in Nat
    BY <1>9, FS_CardinalityType
<1>11. /\ process' \in [Pids -> ProcessRecords]
      /\ \A p \in Pids : /\ process'[p].life = process[p].life
                         /\ process'[p].active = IF p = q THEN process[p].active - 1 ELSE process[p].active
                         /\ process'[p].stopped = process[p].stopped
                         /\ process'[p].failed = process[p].failed
    <2>1. PICK r : r = [process[q] EXCEPT !.active = @ - 1]
        OBVIOUS
    <2>2. process \in [Pids -> ProcessRecords]
        BY <1>0 DEF CodexTypes
    <2>3. r \in ProcessRecords /\ r.life = process[q].life /\ r.stopped = process[q].stopped /\ r.active = process[q].active - 1
          /\ r.failed = process[q].failed
        BY <1>3, <1>10, <2>1, <2>2 DEF ProcessRecords
    <2>4. process' = [process EXCEPT ![q] = r]
        BY <1>2, <2>1
    <2> QED BY <1>3, <2>2, <2>3, <2>4
<1>12. \A d \in Clients : clients[d].pc \notin StartPcs /\ clients'[d].pc \notin StartPcs
    BY <1>2, <1>4, <1>5, NobodyStarts DEF StartPcs
<1>13. CodexTypes'
    <2>1. clients' \in [Clients -> ClientRecords]
        BY <1>0, <1>2, <1>4 DEF CodexTypes, Becomes
    <2>2. \A d \in Clients : clients'[d].pc \in UsePcs \union StartPcs => clients'[d].process \in Pids
        BY <1>0, <1>4, <1>5 DEF CodexTypes, UsePcs, StartPcs
    <2>3. \A d \in Clients : clients'[d].pc \in {"acquire"} \union StartPcs => clients'[d].credential \in Credentials
        BY <1>0, <1>4, <1>5 DEF CodexTypes, StartPcs
    <2> QED BY <1>0, <1>2, <1>11, <2>1, <2>2, <2>3 DEF CodexTypes
<1>14. UsersCounted'
    <2> SUFFICES ASSUME NEW p \in Pids PROVE IsFiniteSet(Users(p)') /\ process'[p].active = Cardinality(Users(p)')
        BY DEF UsersCounted
    <2>1. CASE p = q
        BY <1>8, <1>9, <1>11, <2>1
    <2>2. CASE p # q
        BY <1>7, <1>11, <2>2 DEF CodexInv, UsersCounted
    <2> QED BY <2>1, <2>2
<1>15. StartsAreExclusive'
    BY <1>12 DEF StartsAreExclusive
<1>16. PoolIsSound'
    <2> SUFFICES ASSUME NEW p \in Pids
                 PROVE  /\ Pooled(p)' => Spared(process'[p])
                        /\ Users(p)' # {} /\ process'[p].life = "up" => Spared(process'[p])
                        /\ process'[p].life = "up" => Pooled(p)' \/ process'[p].stopped \/ base # "live"
        BY <1>2 DEF PoolIsSound
    <2>1. ~Starting(p)
        BY <1>12 DEF Starting, StartPcs
    <2>2. Users(p)' # {} => Users(p) # {}
        BY <1>7, <1>8
    <2> QED BY <1>6, <1>11, <2>1, <2>2 DEF CodexInv, PoolIsSound
<1> QED BY <1>13, <1>14, <1>15, <1>16 DEF CodexInv

\* A process changes by itself, or by what it writes: no process comes up, a stop is
\* not taken back, and only its failure stops it.
LEMMA ProcessAlone ==
    ASSUME CodexInv, NEW q \in Pids, NEW r \in ProcessRecords, process' = [process EXCEPT ![q] = r],
           UNCHANGED othersOfProcess, r.active = process[q].active,
           r.life = "up" => process[q].life = "up", process[q].stopped => r.stopped,
           Spared(process[q]) => Spared(r)
    PROVE  CodexInv'
<1>2. clients' = clients /\ mutex' = mutex /\ base' = base /\ processes' = processes
    BY DEF othersOfProcess
<1>3. process \in [Pids -> ProcessRecords]
    BY DEF CodexInv, CodexTypes
<1>4. /\ process' \in [Pids -> ProcessRecords]
      /\ \A p \in Pids : /\ process'[p].life = "up" => process[p].life = "up"
                         /\ process'[p].active = process[p].active
                         /\ process[p].stopped => process'[p].stopped
                         /\ Spared(process[p]) => Spared(process'[p])
    BY <1>3
<1>5. \A p : (Pooled(p)' <=> Pooled(p)) /\ Users(p)' = Users(p) /\ (Starting(p)' <=> Starting(p))
    BY <1>2 DEF Pooled, Users, Starting
<1>6. CodexTypes'
    BY <1>2, <1>4 DEF CodexInv, CodexTypes
<1>7. UsersCounted'
    BY <1>4, <1>5 DEF CodexInv, UsersCounted
<1>8. StartsAreExclusive'
    <2> SUFFICES ASSUME NEW d \in Clients, clients[d].pc \in StartPcs
                 PROVE  /\ mutex = {d}
                        /\ ~Pooled(clients[d].process) /\ process'[clients[d].process].active = 0
                        /\ processes[clients[d].credential] = 0
                        /\ clients[d].pc = "handshake" => Spared(process'[clients[d].process])
        BY <1>2 DEF StartsAreExclusive, Pooled
    <2>1. clients[d].process \in Pids
        BY DEF CodexInv, CodexTypes
    <2> QED BY <1>4, <2>1 DEF CodexInv, StartsAreExclusive
<1>9. PoolIsSound'
    <2> SUFFICES ASSUME NEW p \in Pids
                 PROVE  /\ Pooled(p) => Spared(process'[p])
                        /\ Users(p) # {} /\ process'[p].life = "up" => Spared(process'[p])
                        /\ process'[p].life = "up" => Pooled(p) \/ Starting(p) \/ process'[p].stopped \/ base # "live"
        BY <1>2, <1>5 DEF PoolIsSound
    <2> QED BY <1>4 DEF CodexInv, PoolIsSound
<1> QED BY <1>6, <1>7, <1>8, <1>9 DEF CodexInv

\* Its output overflows, it stops reading, it exits, and its home is removed.
LEMMA ProcessStep ==
    ASSUME CodexInv, NEW q \in Pids,
           AppServerOverflows(q) \/ AppServerStopsReading(q) \/ ProcessExits(q) \/ RemoveHome(q)
    PROVE  CodexInv'
<1>1. PICK x : x = process[q]
    OBVIOUS
<1>2. x \in ProcessRecords /\ process \in [Pids -> ProcessRecords] /\ UNCHANGED othersOfProcess
    BY <1>1 DEF CodexInv, CodexTypes, AppServerOverflows, AppServerStopsReading, ProcessExits, RemoveHome
<1>3. CASE AppServerOverflows(q)
    <2>1. PICK r : r = [[x EXCEPT !.failed = TRUE] EXCEPT !.stopped = TRUE]
        OBVIOUS
    <2>2. r \in ProcessRecords /\ r.active = x.active /\ r.life = x.life /\ r.stopped /\ r.failed
        BY <1>2, <2>1 DEF ProcessRecords
    <2>3. process' = [process EXCEPT ![q] = r]
        BY <1>1, <1>2, <1>3, <2>1 DEF AppServerOverflows
    <2> QED BY <1>1, <1>2, <2>2, <2>3, ProcessAlone
<1>4. CASE AppServerStopsReading(q)
    <2>1. PICK r : r = [x EXCEPT !.deaf = TRUE]
        OBVIOUS
    <2>2. /\ r \in ProcessRecords /\ r.active = x.active /\ r.life = x.life
          /\ r.stopped = x.stopped /\ r.failed = x.failed
        BY <1>2, <2>1 DEF ProcessRecords
    <2>3. process' = [process EXCEPT ![q] = r]
        BY <1>1, <1>4, <2>1 DEF AppServerStopsReading
    <2> QED BY <1>1, <1>2, <2>2, <2>3, ProcessAlone
<1>5. CASE ProcessExits(q)
    <2>1. PICK r : r = [[x EXCEPT !.life = "dead"] EXCEPT !.deaf = FALSE]
        OBVIOUS
    <2>2. /\ r \in ProcessRecords /\ r.active = x.active /\ r.life = "dead"
          /\ r.stopped = x.stopped /\ r.failed = x.failed
        BY <1>2, <2>1 DEF ProcessRecords
    <2>3. process' = [process EXCEPT ![q] = r]
        BY <1>1, <1>2, <1>5, <2>1 DEF ProcessExits
    <2> QED BY <1>1, <1>2, <2>2, <2>3, ProcessAlone
<1>6. CASE RemoveHome(q)
    <2>1. PICK r : r = [[x EXCEPT !.life = "gone"] EXCEPT !.failed = TRUE]
        OBVIOUS
    <2>2. /\ r \in ProcessRecords /\ r.active = x.active /\ r.life = "gone"
          /\ r.stopped = x.stopped /\ r.failed
        BY <1>2, <2>1 DEF ProcessRecords
    <2>3. process' = [process EXCEPT ![q] = r]
        BY <1>1, <1>2, <1>6, <2>1 DEF RemoveHome
    <2> QED BY <1>1, <1>2, <2>2, <2>3, ProcessAlone
<1> QED BY <1>3, <1>4, <1>5, <1>6

\* Close: the pool is no longer live.
LEMMA ClosingCodex ==
    ASSUME CodexInv, CancelBase \/ TakeProcesses \/ CodexClosed
    PROVE  CodexInv'
<1>1. process' = process /\ clients' = clients /\ mutex' = mutex /\ base' # "live"
    BY DEF CancelBase, TakeProcesses, CodexClosed
<1>2. /\ processes' \in [Credentials -> 0..MaxProcesses]
      /\ \A k \in Credentials : processes'[k] = processes[k] \/ processes'[k] = 0
    <2>1. MaxProcesses \in Nat
        BY CodexAssumption
    <2>2. processes \in [Credentials -> 0..MaxProcesses]
        BY DEF CodexInv, CodexTypes
    <2>3. processes' = processes \/ processes' = [k \in Credentials |-> 0]
        BY DEF CancelBase, TakeProcesses, CodexClosed
    <2> QED BY <2>1, <2>2, <2>3
<1>3. \A p \in Pids : Pooled(p)' => Pooled(p)
    BY <1>2 DEF Pooled, Pids
<1>4. \A p : Users(p)' = Users(p)
    BY <1>1 DEF Users
<1>5. CodexTypes'
    BY <1>1, <1>2 DEF CodexInv, CodexTypes
<1>6. UsersCounted'
    BY <1>1, <1>4 DEF CodexInv, UsersCounted
<1>7. StartsAreExclusive'
    <2> SUFFICES ASSUME NEW d \in Clients, clients[d].pc \in StartPcs
                 PROVE  /\ mutex = {d}
                        /\ ~Pooled(clients[d].process)' /\ process[clients[d].process].active = 0
                        /\ processes'[clients[d].credential] = 0
                        /\ clients[d].pc = "handshake" => Spared(process[clients[d].process])
        BY <1>1 DEF StartsAreExclusive
    <2>1. clients[d].process \in Pids /\ clients[d].credential \in Credentials
        BY DEF CodexInv, CodexTypes
    <2>2. PICK q : q = clients[d].process
        OBVIOUS
    <2>3. ~Pooled(q)
        BY <2>2 DEF CodexInv, StartsAreExclusive
    <2>4. ~Pooled(clients[d].process)'
        BY <1>1, <1>3, <2>1, <2>2, <2>3 DEF Pooled
    <2> QED BY <1>2, <2>1, <2>4 DEF CodexInv, StartsAreExclusive
<1>8. PoolIsSound'
    BY <1>1, <1>3, <1>4 DEF CodexInv, PoolIsSound
<1> QED BY <1>5, <1>6, <1>7, <1>8 DEF CodexInv

LEMMA CodexStart == CodexInit => CodexInv
<1> SUFFICES ASSUME CodexInit PROVE CodexInv
    OBVIOUS
<1>1. MaxProcesses \in Nat
    BY CodexAssumption
<1>2. \A c \in Clients : clients[c] = Off
    BY DEF CodexInit
<1>3. Off \in ClientRecords /\ Off.pc = "idle"
    BY OffIs
<1>4. \A p : Users(p) = {} /\ ~Starting(p)
    BY <1>2, <1>3 DEF Users, Starting
<1>5. \A p \in Pids : process[p] = NoProcess /\ ~Pooled(p)
    BY DEF CodexInit, Pooled, Pids
<1>6. NoProcess \in ProcessRecords /\ NoProcess.active = 0 /\ NoProcess.life = "none" /\ ~NoProcess.stopped
    BY DEF NoProcess, ProcessRecords
<1>7. CodexTypes
    <2>1. processes \in [Credentials -> 0..MaxProcesses]
        BY <1>1 DEF CodexInit
    <2>2. process \in [Pids -> ProcessRecords]
        BY <1>6 DEF CodexInit
    <2>3. clients \in [Clients -> ClientRecords]
        BY <1>3 DEF CodexInit
    <2> QED BY <1>2, <1>3, <2>1, <2>2, <2>3 DEF CodexTypes, UsePcs, StartPcs
<1>8. UsersCounted
    BY <1>4, <1>5, <1>6, FS_EmptySet DEF UsersCounted
<1>9. StartsAreExclusive
    BY <1>2, <1>3 DEF StartsAreExclusive, StartPcs
<1>10. PoolIsSound
    BY <1>4, <1>5, <1>6 DEF PoolIsSound
<1> QED BY <1>7, <1>8, <1>9, <1>10 DEF CodexInv

LEMMA CodexNext ==
    ASSUME CodexInv, CodexStep
    PROVE  CodexInv'
<1>1. ASSUME NEW c \in Clients, LockStep(c) \/ ClientStep(c) \/ \E e \in Notifications : AppServerSays(c, e)
      PROVE  CodexInv'
    BY <1>1, AlonePlaces, JoinCodex, LaunchCodex, HandshakeDoneCodex, HandshakeFailsCodex, ReapCodex, ReleaseCodex
       DEF LockStep, ClientStep
<1> QED BY <1>1, ProcessStep DEF CodexStep

HIDE DEF Spared

LEMMA AccountsFollow == CodexInv => ProcessesAreAccountedFor
BY DEF CodexInv, UsersCounted, PoolIsSound, Spared, ProcessesAreAccountedFor

-----------------------------------------------------------------------------
(* ClaudeSessions *)

Texts == Requests \union {<<>>}
Replies == {<<>>} \union {<<x>> : x \in Answers}
WorkPcs == {"check", "replace", "run", "retire", "release"}
CallPcs == {"idle", "look", "wait", "clean"} \union WorkPcs
Cuts == {NoContinuation} \union UNION {Continuations(r) : r \in Requests}

Objects == [key : Keys, active : Nat, retired : BOOLEAN, gate : BOOLEAN, directory : BOOLEAN,
            delivered : Texts, generated : Replies, told : Texts, own : Replies]

CallRecords == [pc : CallPcs, key : Keys, messages : Texts, continuation : Cuts,
                session : 0..MaxSessions, fresh : 0..MaxSessions, resume : BOOLEAN,
                then : {"done", "run", "look"}, answered : BOOLEAN]

\* A call works in the session whose gate it holds and in the one it has
\* reserved; it is counted there, and where it waits; it cleans what it left last.
WorksIn(call, s) == call.fresh = s \/ (call.session = s /\ call.pc \in WorkPcs)
UsesIn(call, s) == WorksIn(call, s) \/ (call.session = s /\ call.pc = "wait")
CleansIn(call, s) == call.session = s /\ call.pc = "clean"

\* A call has a session from Acquire on, and a replacement while it leaves the
\* session it replaces.
CallIsWhole(call) ==
    /\ call.pc \notin {"idle", "look"} => call.session \in Sids
    /\ call.fresh # 0 => call.pc \in {"release", "clean"} /\ call.then = "run" /\ call.fresh # call.session
    /\ call.pc \in {"release", "clean"} /\ call.then = "run" => call.fresh # 0
    /\ call.pc \in {"look", "wait", "check", "replace", "run"} => call.messages \in Requests
    /\ call.pc \in {"release", "clean"} /\ call.then # "done" => call.messages \in Requests
    /\ call.pc = "replace" \/ call.fresh # 0 => ~call.resume
    /\ call.pc = "wait" => call.then = "done"
    /\ call.answered => call.pc \in {"release", "clean"} /\ call.then = "done"

ClaudeTypes ==
    /\ sessions \in [Keys -> 0..MaxSessions]
    /\ session \in [Sids -> Objects]
    /\ calls \in [Callers -> CallRecords]
    /\ doomed \in SUBSET Sids
    /\ \A c \in Callers : CallIsWhole(calls[c])

UsersOf(s) == {c \in Callers : UsesIn(calls[c], s)}

\* session.active counts the callers that wait for the session or work in it.
UsersAreCounted ==
    \A s \in Sids : IsFiniteSet(UsersOf(s)) /\ session[s].active = Cardinality(UsersOf(s))

Live(s) == session[s] # Blank
InMap(s) == \E k \in Keys : sessions[k] = s

\* One caller has the token of a gate, or it is in the gate.
GatesAreHeld ==
    \A s \in Sids :
        /\ \A c \in Callers : WorksIn(calls[c], s) => ~session[s].gate
        /\ \A c, d \in Callers : WorksIn(calls[c], s) /\ WorksIn(calls[d], s) => c = d
        /\ Live(s) /\ ~session[s].gate => \E c \in Callers : WorksIn(calls[c], s)

KeysAreKept ==
    /\ \A k \in Keys, s \in Sids : sessions[k] = s => session[s].key = k /\ Live(s)
    /\ \A c \in Callers : calls[c].pc \in {"wait", "check", "replace", "run"} =>
                            session[calls[c].session].key = calls[c].key
    /\ \A c \in Callers : calls[c].fresh # 0 => session[calls[c].fresh].key = calls[c].key

\* What is being removed is out of the map, unused, and removed by one.
RemovalsAreFinal ==
    \A s \in Sids :
        /\ s \in doomed => session[s].active = 0 /\ session[s].retired /\ ~InMap(s)
        /\ \A c \in Callers : CleansIn(calls[c], s) =>
             session[s].active = 0 /\ session[s].retired /\ ~InMap(s) /\ s \notin doomed
        /\ \A c, d \in Callers : CleansIn(calls[c], s) /\ CleansIn(calls[d], s) => c = d

LiveIsReachable ==
    \A s \in Sids :
        /\ Live(s) /\ ~session[s].retired => InMap(s)
        /\ session[s].retired /\ session[s].active = 0 => s \in doomed \/ \E c \in Callers : CleansIn(calls[c], s)

\* What the CLI was told is what the session says was delivered, but for a
\* session that is about to be retired.
TranscriptIs(o) == o.told = o.delivered /\ o.own = o.generated

TranscriptsAreKept ==
    /\ \A s \in Sids : \/ TranscriptIs(session[s]) \/ session[s].retired
                       \/ \E c \in Callers : calls[c].session = s /\ calls[c].pc \in {"replace", "retire"}
    /\ \A c \in Callers : calls[c].pc = "run" =>
         IF calls[c].resume
         THEN /\ TranscriptIs(session[calls[c].session])
              /\ Resumable(session[calls[c].session], calls[c].messages, calls[c].continuation)
         ELSE session[calls[c].session].told = <<>>
    /\ \A c \in Callers : calls[c].fresh # 0 => session[calls[c].fresh].told = <<>>
    /\ \A c \in Callers : calls[c].answered => session[calls[c].session].told = calls[c].messages

ClaudeInv ==
    /\ ClaudeTypes /\ UsersAreCounted /\ GatesAreHeld /\ KeysAreKept
    /\ RemovalsAreFinal /\ LiveIsReachable /\ TranscriptsAreKept

Turns(c, y) == calls' = [calls EXCEPT ![c] = y]

LEMMA BlankIs ==
    /\ Blank \in Objects /\ Blank.active = 0 /\ ~Blank.retired /\ ~Blank.gate /\ ~Blank.directory
    /\ Blank.told = <<>> /\ Blank.delivered = <<>> /\ Blank.own = <<>> /\ Blank.generated = <<>>
    /\ Blank.key \in Keys
<1>1. (CHOOSE k \in Keys : TRUE) \in Keys
    BY ClaudeAssumption
<1> QED BY <1>1 DEF Blank, Objects, Texts, Replies

LEMMA IdleIs ==
    /\ Idle \in CallRecords /\ Idle.pc = "idle" /\ Idle.session = 0 /\ Idle.fresh = 0
    /\ Idle.then = "done" /\ ~Idle.answered /\ ~Idle.resume /\ Idle.key \in Keys
<1>1. (CHOOSE k \in Keys : TRUE) \in Keys /\ MaxSessions \in Nat
    BY ClaudeAssumption
<1> QED BY <1>1 DEF Idle, CallRecords, CallPcs, Texts, Cuts

LEMMA IdleIsWhole == CallIsWhole(Idle)
BY IdleIs DEF CallIsWhole

LEMMA MappedIs ==
    ASSUME ClaudeInv, NEW s \in Sids
    PROVE  Mapped(s) <=> InMap(s)
<1>1. session[s].key \in Keys
    BY DEF ClaudeInv, ClaudeTypes, Objects
<1> QED BY <1>1 DEF Mapped, InMap, ClaudeInv, KeysAreKept

LEMMA UsedFacts ==
    ASSUME ClaudeInv, NEW c \in Callers, NEW s \in Sids, UsesIn(calls[c], s)
    PROVE  /\ session[s].active # 0 /\ Live(s) /\ s \notin doomed
           /\ \A d \in Callers : ~CleansIn(calls[d], s)
<1>1. c \in UsersOf(s)
    BY DEF UsersOf
<1>2. session[s].active # 0
    BY <1>1, FS_EmptySet DEF ClaudeInv, UsersAreCounted
<1>3. Live(s)
    BY <1>2, BlankIs DEF Live
<1> QED BY <1>2, <1>3 DEF ClaudeInv, RemovalsAreFinal

LEMMA MappedFacts ==
    ASSUME ClaudeInv, NEW s \in Sids, InMap(s)
    PROVE  Live(s) /\ s \notin doomed /\ \A d \in Callers : ~CleansIn(calls[d], s)
BY DEF ClaudeInv, KeysAreKept, RemovalsAreFinal, InMap

LEMMA UnusedFacts ==
    ASSUME ClaudeInv, NEW s \in Sids, ~Live(s)
    PROVE  /\ session[s].active = 0 /\ ~InMap(s) /\ s \notin doomed
           /\ \A d \in Callers : ~UsesIn(calls[d], s) /\ ~CleansIn(calls[d], s)
<1>1. session[s].active = 0 /\ ~session[s].retired
    BY BlankIs DEF Live
<1>2. \A d \in Callers : ~UsesIn(calls[d], s)
    BY UsedFacts
<1> QED BY <1>1, <1>2, MappedFacts DEF ClaudeInv, RemovalsAreFinal

LEMMA CallsAfter ==
    ASSUME ClaudeTypes, NEW c \in Callers, NEW y \in CallRecords, Turns(c, y)
    PROVE  /\ calls' \in [Callers -> CallRecords]
           /\ \A d \in Callers : calls'[d] = IF d = c THEN y ELSE calls[d]
BY DEF ClaudeTypes, Turns

\* The count follows a caller that comes or goes.
LEMMA CountedAfter ==
    ASSUME ClaudeInv, NEW c \in Callers, NEW y \in CallRecords, Turns(c, y),
           \A s \in Sids : session'[s].active =
               IF UsesIn(y, s) /\ ~UsesIn(calls[c], s) THEN session[s].active + 1
               ELSE IF ~UsesIn(y, s) /\ UsesIn(calls[c], s) THEN session[s].active - 1
               ELSE session[s].active
    PROVE  UsersAreCounted'
<1> SUFFICES ASSUME NEW s \in Sids PROVE IsFiniteSet(UsersOf(s)') /\ session'[s].active = Cardinality(UsersOf(s)')
    BY DEF UsersAreCounted
<1>1. IsFiniteSet(UsersOf(s)) /\ session[s].active = Cardinality(UsersOf(s))
    BY DEF ClaudeInv, UsersAreCounted
<1>2. \A d \in Callers : calls'[d] = IF d = c THEN y ELSE calls[d]
    BY CallsAfter DEF ClaudeInv
<1>3. UsersOf(s)' = {d \in Callers : UsesIn(calls'[d], s)} /\ UsersOf(s) = {d \in Callers : UsesIn(calls[d], s)}
    BY DEF UsersOf, UsesIn, WorksIn
<1>4. c \in UsersOf(s) <=> UsesIn(calls[c], s)
    BY <1>3
<1>5. UsersOf(s)' = IF UsesIn(y, s) THEN UsersOf(s) \union {c} ELSE UsersOf(s) \ {c}
    BY <1>2, <1>3
<1>6. CASE UsesIn(y, s) /\ ~UsesIn(calls[c], s)
    BY <1>1, <1>4, <1>5, <1>6, OneMore
<1>7. CASE ~UsesIn(y, s) /\ UsesIn(calls[c], s)
    BY <1>1, <1>4, <1>5, <1>7, OneFewer
<1>8. CASE UsesIn(y, s) <=> UsesIn(calls[c], s)
    <2>1. UsersOf(s)' = UsersOf(s)
        BY <1>4, <1>5, <1>8
    <2> QED BY <1>1, <1>8, <2>1
<1> QED BY <1>6, <1>7, <1>8

\* A step of one caller that writes nothing but its own call, and keeps the
\* sessions it works in, is counted in and removes.
LEMMA CallerAlone ==
    ASSUME ClaudeInv, NEW c \in Callers, NEW y \in CallRecords, Turns(c, y), CallIsWhole(y),
           UNCHANGED <<sessions, session, doomed>>,
           \A s \in Sids : /\ WorksIn(y, s) <=> WorksIn(calls[c], s)
                           /\ UsesIn(y, s) <=> UsesIn(calls[c], s)
                           /\ CleansIn(y, s) <=> CleansIn(calls[c], s),
           y.pc \in {"wait", "check", "replace", "run"} => session[y.session].key = y.key,
           y.fresh = 0,
           calls[c].pc \notin {"replace", "retire"},
           y.pc = "run" =>
             IF y.resume THEN /\ TranscriptIs(session[y.session])
                              /\ Resumable(session[y.session], y.messages, y.continuation)
             ELSE session[y.session].told = <<>>,
           ~y.answered
    PROVE  ClaudeInv'
<1>0. ClaudeTypes
    BY DEF ClaudeInv
<1>1. calls' \in [Callers -> CallRecords] /\ \A d \in Callers : calls'[d] = IF d = c THEN y ELSE calls[d]
    BY <1>0, CallsAfter
<1>2. sessions' = sessions /\ session' = session /\ doomed' = doomed
    OBVIOUS
<1>3. \A s : (InMap(s)' <=> InMap(s)) /\ (Live(s)' <=> Live(s))
    BY <1>2 DEF InMap, Live
<1>4. \A d \in Callers, s \in Sids : /\ WorksIn(calls'[d], s) <=> WorksIn(calls[d], s)
                                     /\ CleansIn(calls'[d], s) <=> CleansIn(calls[d], s)
    BY <1>1
<1>5. ClaudeTypes'
    BY <1>0, <1>1, <1>2 DEF ClaudeTypes
<1>6. UsersAreCounted'
    BY <1>2, CountedAfter
<1>7. GatesAreHeld'
    <2> SUFFICES ASSUME NEW s \in Sids
                 PROVE  /\ \A d \in Callers : WorksIn(calls'[d], s) => ~session[s].gate
                        /\ \A d, e \in Callers : WorksIn(calls'[d], s) /\ WorksIn(calls'[e], s) => d = e
                        /\ Live(s) /\ ~session[s].gate => \E d \in Callers : WorksIn(calls'[d], s)
        BY <1>2, <1>3 DEF GatesAreHeld, WorksIn
    <2> QED BY <1>4 DEF ClaudeInv, GatesAreHeld
<1>8. KeysAreKept'
    BY <1>1, <1>2, <1>3 DEF ClaudeInv, KeysAreKept
<1>9. RemovalsAreFinal'
    <2> SUFFICES ASSUME NEW s \in Sids
                 PROVE  /\ s \in doomed => session[s].active = 0 /\ session[s].retired /\ ~InMap(s)
                        /\ \A d \in Callers : CleansIn(calls'[d], s) =>
                             session[s].active = 0 /\ session[s].retired /\ ~InMap(s) /\ s \notin doomed
                        /\ \A d, e \in Callers : CleansIn(calls'[d], s) /\ CleansIn(calls'[e], s) => d = e
        BY <1>2, <1>3 DEF RemovalsAreFinal, CleansIn
    <2> QED BY <1>4 DEF ClaudeInv, RemovalsAreFinal
<1>10. LiveIsReachable'
    <2> SUFFICES ASSUME NEW s \in Sids
                 PROVE  /\ Live(s) /\ ~session[s].retired => InMap(s)
                        /\ session[s].retired /\ session[s].active = 0 =>
                             s \in doomed \/ \E d \in Callers : CleansIn(calls'[d], s)
        BY <1>2, <1>3 DEF LiveIsReachable, CleansIn
    <2> QED BY <1>4 DEF ClaudeInv, LiveIsReachable
<1>11. TranscriptsAreKept'
    <2>1. \A s \in Sids : \/ TranscriptIs(session[s]) \/ session[s].retired
                          \/ \E d \in Callers : calls'[d].session = s /\ calls'[d].pc \in {"replace", "retire"}
        BY <1>1 DEF ClaudeInv, TranscriptsAreKept
    <2>2. \A d \in Callers : calls'[d].pc = "run" =>
             IF calls'[d].resume
             THEN /\ TranscriptIs(session[calls'[d].session])
                  /\ Resumable(session[calls'[d].session], calls'[d].messages, calls'[d].continuation)
             ELSE session[calls'[d].session].told = <<>>
        BY <1>1 DEF ClaudeInv, TranscriptsAreKept
    <2>3. \A d \in Callers : calls'[d].fresh # 0 => session[calls'[d].fresh].told = <<>>
        BY <1>1 DEF ClaudeInv, TranscriptsAreKept
    <2>4. \A d \in Callers : calls'[d].answered => session[calls'[d].session].told = calls'[d].messages
        BY <1>1 DEF ClaudeInv, TranscriptsAreKept
    <2> QED BY <1>2, <2>1, <2>2, <2>3, <2>4 DEF TranscriptsAreKept
<1> QED BY <1>5, <1>6, <1>7, <1>8, <1>9, <1>10, <1>11 DEF ClaudeInv

-----------------------------------------------------------------------------
(* The invariant session by session and call by call *)

FixesIn(call, s) == call.session = s /\ call.pc \in {"replace", "retire"}

GateIsHeld(s) ==
    /\ \A c \in Callers : WorksIn(calls[c], s) => ~session[s].gate
    /\ \A c, d \in Callers : WorksIn(calls[c], s) /\ WorksIn(calls[d], s) => c = d
    /\ Live(s) /\ ~session[s].gate => \E c \in Callers : WorksIn(calls[c], s)

RemovalIsFinal(s) ==
    /\ s \in doomed => session[s].active = 0 /\ session[s].retired /\ ~InMap(s)
    /\ \A c \in Callers : CleansIn(calls[c], s) =>
         session[s].active = 0 /\ session[s].retired /\ ~InMap(s) /\ s \notin doomed
    /\ \A c, d \in Callers : CleansIn(calls[c], s) /\ CleansIn(calls[d], s) => c = d

IsReachable(s) ==
    /\ Live(s) /\ ~session[s].retired => InMap(s)
    /\ session[s].retired /\ session[s].active = 0 => s \in doomed \/ \E c \in Callers : CleansIn(calls[c], s)

IsKept(s) == TranscriptIs(session[s]) \/ session[s].retired \/ \E c \in Callers : FixesIn(calls[c], s)

SessionIsSound(s) == GateIsHeld(s) /\ RemovalIsFinal(s) /\ IsReachable(s) /\ IsKept(s)

\* What a call relies on in the session objects f.
Fits(call, f) ==
    /\ call.pc \in {"wait", "check", "replace", "run"} => f[call.session].key = call.key
    /\ call.fresh # 0 => f[call.fresh].key = call.key /\ f[call.fresh].told = <<>>
    /\ call.pc = "run" =>
         IF call.resume
         THEN /\ TranscriptIs(f[call.session])
              /\ Resumable(f[call.session], call.messages, call.continuation)
         ELSE f[call.session].told = <<>>
    /\ call.answered => f[call.session].told = call.messages

CallIsSound(c) == Fits(calls[c], session)

MapIsSound == \A k \in Keys, s \in Sids : sessions[k] = s => session[s].key = k /\ Live(s)

LEMMA ClaudeInvIs ==
    ClaudeInv <=> /\ ClaudeTypes /\ UsersAreCounted /\ MapIsSound
                  /\ \A s \in Sids : SessionIsSound(s)
                  /\ \A c \in Callers : CallIsSound(c)
<1>1. GatesAreHeld <=> \A s \in Sids : GateIsHeld(s)
    BY DEF GatesAreHeld, GateIsHeld
<1>2. RemovalsAreFinal <=> \A s \in Sids : RemovalIsFinal(s)
    BY DEF RemovalsAreFinal, RemovalIsFinal
<1>3. LiveIsReachable <=> \A s \in Sids : IsReachable(s)
    BY DEF LiveIsReachable, IsReachable
<1>4. KeysAreKept /\ TranscriptsAreKept
        <=> MapIsSound /\ (\A s \in Sids : IsKept(s)) /\ \A c \in Callers : CallIsSound(c)
    BY DEF KeysAreKept, TranscriptsAreKept, MapIsSound, IsKept, FixesIn, CallIsSound, Fits
<1> QED BY <1>1, <1>2, <1>3, <1>4 DEF ClaudeInv, SessionIsSound

\* A call stands to a session after a step as it stood before it.
SameIn(x, y, s) ==
    /\ WorksIn(y, s) <=> WorksIn(x, s)
    /\ CleansIn(y, s) <=> CleansIn(x, s)
    /\ FixesIn(y, s) <=> FixesIn(x, s)

\* What a caller relies on in the session s is left alone.
LeavesAlone(x, s) ==
    /\ UsesIn(x, s) => session'[s].key = session[s].key
    /\ WorksIn(x, s) \/ CleansIn(x, s) =>
         /\ session'[s].told = session[s].told /\ session'[s].own = session[s].own
         /\ session'[s].delivered = session[s].delivered /\ session'[s].generated = session[s].generated

\* A step of the callers C that touches the sessions T keeps the invariant when
\* it does so for C and for T.
LEMMA TouchingStep ==
    ASSUME ClaudeInv, ClaudeTypes', UsersAreCounted', MapIsSound',
           NEW C \in SUBSET Callers, NEW T \in SUBSET Sids,
           \A d \in Callers \ C : calls'[d] = calls[d],
           \A s \in Sids \ T : /\ session'[s] = session[s] /\ (InMap(s)' <=> InMap(s))
                               /\ s \in doomed' <=> s \in doomed
                               /\ \A c \in C : SameIn(calls[c], calls'[c], s),
           \A s \in T : \A d \in Callers \ C : LeavesAlone(calls[d], s),
           \A s \in T : SessionIsSound(s)',
           \A c \in C : CallIsSound(c)'
    PROVE  ClaudeInv'
<1>1. \A s \in Sids : SessionIsSound(s) 
    BY ClaudeInvIs
<1>2. \A s \in Sids \ T : SessionIsSound(s)'
    <2> SUFFICES ASSUME NEW s \in Sids \ T PROVE SessionIsSound(s)'
        OBVIOUS
    <2>1. \A d \in Callers : SameIn(calls[d], calls'[d], s)
        BY DEF SameIn
    <2>2. session'[s] = session[s] /\ (InMap(s)' <=> InMap(s)) /\ (s \in doomed' <=> s \in doomed)
        OBVIOUS
    <2>3. Live(s)' <=> Live(s)
        BY <2>2 DEF Live
    <2>4. GateIsHeld(s)'
        <3>1. \A d \in Callers : WorksIn(calls'[d], s) <=> WorksIn(calls[d], s)
            BY <2>1 DEF SameIn
        <3>2. GateIsHeld(s)
            BY <1>1 DEF SessionIsSound
        <3>3. GateIsHeld(s)' <=>
                /\ \A c \in Callers : WorksIn(calls'[c], s) => ~session'[s].gate
                /\ \A c, d \in Callers : WorksIn(calls'[c], s) /\ WorksIn(calls'[d], s) => c = d
                /\ Live(s)' /\ ~session'[s].gate => \E c \in Callers : WorksIn(calls'[c], s)
            BY DEF GateIsHeld, WorksIn
        <3> QED BY <2>2, <2>3, <3>1, <3>2, <3>3 DEF GateIsHeld
    <2>5. RemovalIsFinal(s)'
        <3>1. \A d \in Callers : CleansIn(calls'[d], s) <=> CleansIn(calls[d], s)
            BY <2>1 DEF SameIn
        <3>2. RemovalIsFinal(s)
            BY <1>1 DEF SessionIsSound
        <3>3. RemovalIsFinal(s)' <=>
                /\ s \in doomed' => session'[s].active = 0 /\ session'[s].retired /\ ~InMap(s)'
                /\ \A c \in Callers : CleansIn(calls'[c], s) =>
                     session'[s].active = 0 /\ session'[s].retired /\ ~InMap(s)' /\ s \notin doomed'
                /\ \A c, d \in Callers : CleansIn(calls'[c], s) /\ CleansIn(calls'[d], s) => c = d
            BY DEF RemovalIsFinal, CleansIn
        <3> QED BY <2>2, <3>1, <3>2, <3>3 DEF RemovalIsFinal
    <2>6. IsReachable(s)'
        <3>1. \A d \in Callers : CleansIn(calls'[d], s) <=> CleansIn(calls[d], s)
            BY <2>1 DEF SameIn
        <3>2. IsReachable(s)
            BY <1>1 DEF SessionIsSound
        <3>3. IsReachable(s)' <=>
                /\ Live(s)' /\ ~session'[s].retired => InMap(s)'
                /\ session'[s].retired /\ session'[s].active = 0 =>
                     s \in doomed' \/ \E c \in Callers : CleansIn(calls'[c], s)
            BY DEF IsReachable, CleansIn
        <3> QED BY <2>2, <2>3, <3>1, <3>2, <3>3 DEF IsReachable
    <2>7. IsKept(s)'
        <3>1. \A d \in Callers : FixesIn(calls'[d], s) <=> FixesIn(calls[d], s)
            BY <2>1 DEF SameIn
        <3>2. IsKept(s)
            BY <1>1 DEF SessionIsSound
        <3>3. IsKept(s)' <=> TranscriptIs(session'[s]) \/ session'[s].retired
                             \/ \E c \in Callers : FixesIn(calls'[c], s)
            BY DEF IsKept, FixesIn, TranscriptIs
        <3> QED BY <2>2, <3>1, <3>2, <3>3 DEF IsKept
    <2> QED BY <2>4, <2>5, <2>6, <2>7 DEF SessionIsSound
<1>3. \A d \in Callers \ C : CallIsSound(d)'
    <2> SUFFICES ASSUME NEW d \in Callers \ C PROVE CallIsSound(d)'
        OBVIOUS
    <2>1. calls'[d] = calls[d] /\ CallIsSound(d) /\ CallIsWhole(calls[d])
        BY ClaudeInvIs DEF ClaudeInv, ClaudeTypes
    <2>2. PICK x : x = calls[d]
        OBVIOUS
    <2>3. \A s \in Sids : LeavesAlone(x, s)
        BY <2>2 DEF LeavesAlone
    <2>4. x.fresh \in Sids \/ x.fresh = 0
        BY <2>2, ClaudeAssumption DEF ClaudeInv, ClaudeTypes, CallRecords, Sids
    <2>5. x.pc \in {"wait", "check", "replace", "run"} => session'[x.session].key = x.key
        <3> HAVE x.pc \in {"wait", "check", "replace", "run"}
        <3>1. x.session \in Sids /\ UsesIn(x, x.session)
            BY <2>1, <2>2 DEF CallIsWhole, UsesIn, WorksIn, WorkPcs
        <3> QED BY <2>1, <2>2, <2>3, <3>1 DEF CallIsSound, Fits, LeavesAlone
    <2>6. x.fresh # 0 => session'[x.fresh].key = x.key /\ session'[x.fresh].told = <<>>
        <3> HAVE x.fresh # 0
        <3>1. x.fresh \in Sids /\ UsesIn(x, x.fresh) /\ WorksIn(x, x.fresh)
            BY <2>4 DEF UsesIn, WorksIn
        <3> QED BY <2>1, <2>2, <2>3, <3>1 DEF CallIsSound, Fits, LeavesAlone
    <2>7. x.pc = "run" => IF x.resume THEN /\ TranscriptIs(session'[x.session])
                                           /\ Resumable(session'[x.session], x.messages, x.continuation)
                          ELSE session'[x.session].told = <<>>
        <3> HAVE x.pc = "run"
        <3>1. x.session \in Sids /\ WorksIn(x, x.session)
            BY <2>1, <2>2 DEF CallIsWhole, WorksIn, WorkPcs
        <3>2. /\ session'[x.session].told = session[x.session].told
              /\ session'[x.session].own = session[x.session].own
              /\ session'[x.session].delivered = session[x.session].delivered
              /\ session'[x.session].generated = session[x.session].generated
            BY <2>3, <3>1 DEF LeavesAlone
        <3>3. Resumable(session[x.session], x.messages, x.continuation) =>
              Resumable(session'[x.session], x.messages, x.continuation)
            BY <3>2 DEF Resumable, ValidContinuation, MessagePrefix
        <3> QED BY <2>1, <2>2, <3>2, <3>3 DEF CallIsSound, Fits, TranscriptIs
    <2>8. x.answered => session'[x.session].told = x.messages
        <3> HAVE x.answered
        <3>1. x.session \in Sids /\ (WorksIn(x, x.session) \/ CleansIn(x, x.session))
            BY <2>1, <2>2 DEF CallIsWhole, WorksIn, CleansIn, WorkPcs
        <3> QED BY <2>1, <2>2, <2>3, <3>1 DEF CallIsSound, Fits, LeavesAlone
    <2>9. Fits(x, session')
        BY <2>5, <2>6, <2>7, <2>8 DEF Fits
    <2> QED BY <2>1, <2>2, <2>9 DEF CallIsSound
<1>4. /\ \A s \in Sids : SessionIsSound(s)'
      /\ \A c \in Callers : CallIsSound(c)'
    BY <1>2, <1>3
<1>5. ClaudeInv' <=> /\ ClaudeTypes' /\ UsersAreCounted' /\ MapIsSound'
                     /\ \A s \in Sids : SessionIsSound(s)'
                     /\ \A c \in Callers : CallIsSound(c)'
    <2>1. (ClaudeInv <=> /\ ClaudeTypes /\ UsersAreCounted /\ MapIsSound
                         /\ \A s \in Sids : SessionIsSound(s)
                         /\ \A c \in Callers : CallIsSound(c))'
        BY ClaudeInvIs, PTL
    <2> QED BY <2>1
<1> QED BY <1>4, <1>5

-----------------------------------------------------------------------------
(* Steps of a caller that leave the sessions alone *)

LEMMA SidsAre == 0 \in 0..MaxSessions /\ 0 \notin Sids /\ Sids \subseteq 0..MaxSessions /\ IsFiniteSet(Sids)
                 /\ \A n \in 0..MaxSessions : n = 0 \/ n \in Sids
BY ClaudeAssumption, FS_Interval DEF Sids

\* A call without a session.
LEMMA NoSession ==
    ASSUME NEW call, call.pc \in {"idle", "look"}, call.fresh = 0, NEW s \in Sids
    PROVE  ~WorksIn(call, s) /\ ~UsesIn(call, s) /\ ~CleansIn(call, s) /\ ~FixesIn(call, s)
BY SidsAre DEF WorksIn, UsesIn, CleansIn, FixesIn, WorkPcs

LEMMA CallIs ==
    ASSUME ClaudeInv, NEW c \in Callers
    PROVE  /\ calls[c] \in CallRecords /\ CallIsWhole(calls[c]) /\ CallIsSound(c)
           /\ calls[c].fresh = 0 \/ calls[c].fresh \in Sids
           /\ calls[c].session = 0 \/ calls[c].session \in Sids
           /\ calls[c].key \in Keys
<1>1. calls[c] \in CallRecords /\ CallIsWhole(calls[c])
    BY DEF ClaudeInv, ClaudeTypes
<1>2. CallIsSound(c)
    BY ClaudeInvIs
<1> QED BY <1>1, <1>2, SidsAre DEF CallRecords

LEMMA SessionIs ==
    ASSUME ClaudeInv, NEW s \in Sids
    PROVE  /\ session[s] \in Objects /\ SessionIsSound(s)
           /\ session[s].key \in Keys /\ session[s].active \in Nat
           /\ IsFiniteSet(UsersOf(s)) /\ session[s].active = Cardinality(UsersOf(s))
<1>1. session[s] \in Objects
    BY DEF ClaudeInv, ClaudeTypes
<1>2. SessionIsSound(s)
    BY ClaudeInvIs
<1> QED BY <1>1, <1>2 DEF Objects, ClaudeInv, UsersAreCounted

LEMMA ClaudeStart == ClaudeInit => ClaudeInv
<1> SUFFICES ASSUME ClaudeInit PROVE ClaudeInv
    OBVIOUS
<1>1. \A s \in Sids : session[s] = Blank
    BY DEF ClaudeInit
<1>2. \A c \in Callers : calls[c] = Idle
    BY DEF ClaudeInit
<1>3. \A k \in Keys : sessions[k] = 0
    BY DEF ClaudeInit
<1>4. doomed = {}
    BY DEF ClaudeInit
<1>5. ClaudeTypes
    <2>1. session \in [Sids -> Objects]
        BY BlankIs DEF ClaudeInit
    <2>2. calls \in [Callers -> CallRecords]
        BY IdleIs DEF ClaudeInit
    <2>3. sessions \in [Keys -> 0..MaxSessions]
        BY ClaudeAssumption DEF ClaudeInit
    <2> QED BY <1>2, <1>4, <2>1, <2>2, <2>3, IdleIsWhole DEF ClaudeTypes
<1>6. \A c \in Callers, s \in Sids : ~WorksIn(calls[c], s) /\ ~UsesIn(calls[c], s) /\ ~CleansIn(calls[c], s)
    BY <1>2, IdleIs, NoSession
<1>7. UsersAreCounted
    <2>1. \A s \in Sids : UsersOf(s) = {}
        BY <1>6 DEF UsersOf
    <2> QED BY <1>1, <2>1, BlankIs, FS_EmptySet DEF UsersAreCounted
<1>8. MapIsSound
    BY <1>3, SidsAre DEF MapIsSound
<1>9. \A s \in Sids : SessionIsSound(s)
    <2> SUFFICES ASSUME NEW s \in Sids PROVE SessionIsSound(s)
        OBVIOUS
    <2>1. ~InMap(s) /\ ~Live(s)
        BY <1>1, <1>3, SidsAre DEF InMap, Live
    <2>2. GateIsHeld(s)
        BY <1>6, <2>1 DEF GateIsHeld
    <2>3. RemovalIsFinal(s)
        BY <1>4, <1>6 DEF RemovalIsFinal
    <2>4. IsReachable(s)
        BY <1>1, <2>1, BlankIs DEF IsReachable
    <2>5. IsKept(s)
        BY <1>1, BlankIs DEF IsKept, TranscriptIs
    <2> QED BY <2>2, <2>3, <2>4, <2>5 DEF SessionIsSound
<1>10. \A c \in Callers : CallIsSound(c)
    BY <1>2, IdleIs DEF CallIsSound, Fits
<1> QED BY <1>5, <1>7, <1>8, <1>9, <1>10, ClaudeInvIs

LEMMA CallClaudeKeeps ==
    ASSUME ClaudeInv, NEW c \in Callers, NEW k \in Keys, NEW r \in Requests, NEW n \in Continuations(r),
           CallClaude(c, k, r, n)
    PROVE  ClaudeInv'
<1>1. PICK y : y = [Idle EXCEPT !.pc = "look", !.key = k, !.messages = r, !.continuation = n]
    OBVIOUS
<1>2. Turns(c, y) /\ calls[c].pc = "idle" /\ UNCHANGED <<sessions, session, doomed>>
    BY <1>1 DEF CallClaude, Turns, At
<1>3. n \in Cuts /\ r \in Texts
    BY DEF Cuts, Texts
<1>4. /\ y \in CallRecords /\ y.pc = "look" /\ y.messages = r /\ y.fresh = 0 /\ ~y.answered
      /\ y.then = "done" /\ y.session = 0
    BY <1>1, <1>3, IdleIs DEF CallRecords, CallPcs
<1>5. CallIsWhole(y)
    BY <1>4 DEF CallIsWhole
<1>6. calls[c].fresh = 0
    BY <1>2, CallIs DEF CallIsWhole
<1>7. \A s \in Sids : /\ WorksIn(y, s) <=> WorksIn(calls[c], s)
                      /\ UsesIn(y, s) <=> UsesIn(calls[c], s)
                      /\ CleansIn(y, s) <=> CleansIn(calls[c], s)
    BY <1>2, <1>4, <1>6, NoSession
<1> QED BY <1>2, <1>4, <1>5, <1>7, CallerAlone

LEMMA LookFailsKeeps ==
    ASSUME ClaudeInv, NEW c \in Callers, LookFails(c)
    PROVE  ClaudeInv'
<1>1. Turns(c, Idle) /\ calls[c].pc = "look" /\ UNCHANGED <<sessions, session, doomed>>
    BY DEF LookFails, Turns, At
<1>2. calls[c].fresh = 0
    BY <1>1, CallIs DEF CallIsWhole
<1>3. \A s \in Sids : /\ WorksIn(Idle, s) <=> WorksIn(calls[c], s)
                      /\ UsesIn(Idle, s) <=> UsesIn(calls[c], s)
                      /\ CleansIn(Idle, s) <=> CleansIn(calls[c], s)
    BY <1>1, <1>2, IdleIs, NoSession
<1> QED BY <1>1, <1>3, IdleIs, IdleIsWhole, CallerAlone

LEMMA StaleKeeps ==
    ASSUME ClaudeInv, NEW c \in Callers, Stale(c)
    PROVE  ClaudeInv'
<1>1. PICK x : x = calls[c]
    OBVIOUS
<1>2. PICK y : y = [[x EXCEPT !.pc = "release"] EXCEPT !.then = IF Mapped(x.session) THEN "done" ELSE "look"]
    OBVIOUS
<1>3. x \in CallRecords /\ CallIsWhole(x) /\ x.pc = "check" /\ UNCHANGED <<sessions, session, doomed>>
    BY <1>1, CallIs DEF Stale, At
<1>4. Turns(c, y)
    BY <1>1, <1>2 DEF Stale, Turns, ClaudeInv, ClaudeTypes
<1>5. x.fresh = 0 /\ ~x.answered /\ x.session \in Sids /\ x.messages \in Requests
    BY <1>3 DEF CallIsWhole
<1>6. /\ y \in CallRecords /\ y.pc = "release" /\ y.then # "run" /\ y.fresh = 0 /\ ~y.answered
      /\ y.session = x.session /\ y.messages = x.messages
    BY <1>2, <1>3, <1>5 DEF CallRecords, CallPcs, WorkPcs
<1>7. CallIsWhole(y)
    BY <1>5, <1>6 DEF CallIsWhole
<1>8. \A s \in Sids : /\ WorksIn(y, s) <=> WorksIn(x, s)
                      /\ UsesIn(y, s) <=> UsesIn(x, s)
                      /\ CleansIn(y, s) <=> CleansIn(x, s)
    BY <1>3, <1>5, <1>6 DEF WorksIn, UsesIn, CleansIn, WorkPcs
<1> QED BY <1>1, <1>3, <1>4, <1>6, <1>7, <1>8, CallerAlone

LEMMA DecideKeeps ==
    ASSUME ClaudeInv, NEW c \in Callers, Decide(c)
    PROVE  ClaudeInv'
<1>1. PICK x : x = calls[c]
    OBVIOUS
<1>2. PICK o : o = session[x.session]
    OBVIOUS
<1>3. PICK resume : resume = (o.directory /\ o.delivered # <<>> /\ Resumable(o, x.messages, x.continuation))
    OBVIOUS
<1>4. PICK pc : pc = IF ~o.directory \/ (o.delivered # <<>> /\ ~resume) THEN "replace" ELSE "run"
    OBVIOUS
<1>5. PICK y : y = [[x EXCEPT !.resume = resume] EXCEPT !.pc = pc]
    OBVIOUS
<1>6. x \in CallRecords /\ CallIsWhole(x) /\ x.pc = "check" /\ UNCHANGED <<sessions, session, doomed>>
    BY <1>1, CallIs DEF Decide, At
<1>7. Turns(c, y)
    BY <1>1, <1>2, <1>3, <1>4, <1>5 DEF Decide, Turns, ClaudeInv, ClaudeTypes
<1>8. x.fresh = 0 /\ ~x.answered /\ x.session \in Sids /\ x.messages \in Requests
    BY <1>6 DEF CallIsWhole
<1>9. resume \in BOOLEAN
    BY <1>3
<1>10. pc \in {"replace", "run"}
    BY <1>4
<1>11. /\ y \in CallRecords /\ y.pc = pc /\ y.resume = resume /\ y.fresh = 0 /\ ~y.answered
       /\ y.session = x.session /\ y.messages = x.messages /\ y.continuation = x.continuation
       /\ y.key = x.key
    BY <1>5, <1>6, <1>8, <1>9, <1>10 DEF CallRecords, CallPcs, WorkPcs
<1>12. CallIsWhole(y)
    <2>1. pc = "replace" => ~resume
        BY <1>3, <1>4
    <2> QED BY <1>8, <1>10, <1>11, <2>1 DEF CallIsWhole
<1>13. \A s \in Sids : /\ WorksIn(y, s) <=> WorksIn(x, s)
                       /\ UsesIn(y, s) <=> UsesIn(x, s)
                       /\ CleansIn(y, s) <=> CleansIn(x, s)
    BY <1>6, <1>8, <1>10, <1>11 DEF WorksIn, UsesIn, CleansIn, WorkPcs
<1>14. session[y.session].key = y.key
    BY <1>1, <1>6, <1>11, CallIs DEF CallIsSound, Fits
<1>15. ~o.retired
    BY <1>1, <1>2 DEF Decide
<1>16. TranscriptIs(o)
    <2>1. IsKept(x.session)
        BY <1>8, SessionIs DEF SessionIsSound
    <2>2. \A d \in Callers : ~FixesIn(calls[d], x.session)
        <3> SUFFICES ASSUME NEW d \in Callers, FixesIn(calls[d], x.session) PROVE FALSE
            OBVIOUS
        <3>1. WorksIn(calls[c], x.session) /\ WorksIn(calls[d], x.session)
            BY <1>1, <1>6 DEF FixesIn, WorksIn, WorkPcs
        <3>2. c = d
            BY <1>8, <3>1, SessionIs DEF SessionIsSound, GateIsHeld
        <3> QED BY <1>1, <1>6, <3>2 DEF FixesIn
    <2> QED BY <1>2, <1>15, <2>1, <2>2 DEF IsKept
<1>17. y.pc = "run" => IF y.resume THEN TranscriptIs(o) /\ Resumable(o, y.messages, y.continuation)
                       ELSE o.told = <<>>
    <2> HAVE y.pc = "run"
    <2>1. CASE resume
        BY <1>3, <1>11, <1>16, <2>1
    <2>2. CASE ~resume
        BY <1>4, <1>11, <1>16, <2>2 DEF TranscriptIs
    <2> QED BY <2>1, <2>2
<1>18. y.pc = "run" =>
         IF y.resume THEN /\ TranscriptIs(session[y.session])
                          /\ Resumable(session[y.session], y.messages, y.continuation)
         ELSE session[y.session].told = <<>>
    BY <1>2, <1>11, <1>17
<1>19. \A s \in Sids : /\ WorksIn(y, s) <=> WorksIn(calls[c], s)
                       /\ UsesIn(y, s) <=> UsesIn(calls[c], s)
                       /\ CleansIn(y, s) <=> CleansIn(calls[c], s)
    BY <1>1, <1>13
<1>20. calls[c].pc \notin {"replace", "retire"} /\ y.fresh = 0 /\ ~y.answered /\ y \in CallRecords
    BY <1>1, <1>6, <1>11
<1> QED BY <1>6, <1>7, <1>12, <1>14, <1>18, <1>19, <1>20, CallerAlone

-----------------------------------------------------------------------------
(* Steps of a caller that write one session *)

\* A caller turns to y and the session s, which no other is removing, becomes o.
Writes(c, y, s, o) ==
    /\ y \in CallRecords /\ Turns(c, y) /\ CallIsWhole(y) /\ Fits(y, session')
    /\ s \in Sids /\ o \in Objects /\ session' = [session EXCEPT ![s] = o]
    /\ sessions' \in [Keys -> 0..MaxSessions] /\ doomed' = doomed /\ s \notin doomed /\ MapIsSound'
    /\ \A d \in Callers \ {c} : ~CleansIn(calls[d], s)
    /\ \A t \in Sids \ {s} : /\ (InMap(t)' <=> InMap(t)) /\ SameIn(calls[c], y, t)
                             /\ UsesIn(y, t) <=> UsesIn(calls[c], t)
    /\ o.active = IF UsesIn(y, s) /\ ~UsesIn(calls[c], s) THEN session[s].active + 1
                  ELSE IF ~UsesIn(y, s) /\ UsesIn(calls[c], s) THEN session[s].active - 1
                  ELSE session[s].active
    /\ \A d \in Callers \ {c} : UsesIn(calls[d], s) => o.key = session[s].key
    /\ \A d \in Callers \ {c} : WorksIn(calls[d], s) =>
           /\ ~o.gate /\ ~WorksIn(y, s)
           /\ o.told = session[s].told /\ o.own = session[s].own
           /\ o.delivered = session[s].delivered /\ o.generated = session[s].generated
    /\ WorksIn(y, s) => ~o.gate
    /\ o # Blank /\ ~o.gate => WorksIn(y, s) \/ \E d \in Callers \ {c} : WorksIn(calls[d], s)
    /\ CleansIn(y, s) => o.active = 0 /\ o.retired /\ ~InMap(s)'
    /\ o # Blank /\ ~o.retired => InMap(s)'
    /\ o.retired /\ o.active = 0 => CleansIn(y, s)
    /\ TranscriptIs(o) \/ o.retired \/ FixesIn(y, s) \/ \E d \in Callers \ {c} : FixesIn(calls[d], s)

LEMMA OneSession ==
    ASSUME ClaudeInv, NEW c \in Callers, NEW y, NEW s, NEW o, Writes(c, y, s, o)
    PROVE  ClaudeInv'
<1> SUFFICES ASSUME y \in CallRecords, Turns(c, y), CallIsWhole(y),
                    s \in Sids, o \in Objects, session' = [session EXCEPT ![s] = o],
                    sessions' \in [Keys -> 0..MaxSessions], doomed' = doomed,
                    s \notin doomed, \A d \in Callers \ {c} : ~CleansIn(calls[d], s),
                    \A t \in Sids \ {s} : /\ (InMap(t)' <=> InMap(t)) /\ SameIn(calls[c], y, t)
                                          /\ UsesIn(y, t) <=> UsesIn(calls[c], t),
                    o.active = IF UsesIn(y, s) /\ ~UsesIn(calls[c], s) THEN session[s].active + 1
                               ELSE IF ~UsesIn(y, s) /\ UsesIn(calls[c], s) THEN session[s].active - 1
                               ELSE session[s].active,
                    MapIsSound',
                    \A d \in Callers \ {c} : UsesIn(calls[d], s) => o.key = session[s].key,
                    \A d \in Callers \ {c} : WorksIn(calls[d], s) =>
                        /\ ~o.gate /\ ~WorksIn(y, s)
                        /\ o.told = session[s].told /\ o.own = session[s].own
                        /\ o.delivered = session[s].delivered /\ o.generated = session[s].generated,
                    WorksIn(y, s) => ~o.gate,
                    o # Blank /\ ~o.gate => WorksIn(y, s) \/ \E d \in Callers \ {c} : WorksIn(calls[d], s),
                    CleansIn(y, s) => o.active = 0 /\ o.retired /\ ~InMap(s)',
                    o # Blank /\ ~o.retired => InMap(s)',
                    o.retired /\ o.active = 0 => CleansIn(y, s),
                    TranscriptIs(o) \/ o.retired \/ FixesIn(y, s) \/ \E d \in Callers \ {c} : FixesIn(calls[d], s),
                    Fits(y, session')
             PROVE  ClaudeInv'
    BY DEF Writes
<1>0. ClaudeTypes
    BY DEF ClaudeInv
<1>1. calls' \in [Callers -> CallRecords] /\ \A d \in Callers : calls'[d] = IF d = c THEN y ELSE calls[d]
    BY <1>0, CallsAfter
<1>2. session' \in [Sids -> Objects] /\ \A t \in Sids : session'[t] = IF t = s THEN o ELSE session[t]
    BY <1>0 DEF ClaudeTypes
<1>3. ClaudeTypes'
    BY <1>0, <1>1, <1>2 DEF ClaudeTypes
<1>4. UsersAreCounted'
    <2>1. \A t \in Sids : session'[t].active =
               IF UsesIn(y, t) /\ ~UsesIn(calls[c], t) THEN session[t].active + 1
               ELSE IF ~UsesIn(y, t) /\ UsesIn(calls[c], t) THEN session[t].active - 1
               ELSE session[t].active
        BY <1>2
    <2> QED BY <2>1, CountedAfter
<1>5. Live(s)' <=> o # Blank
    BY <1>2 DEF Live
<1>6. GateIsHeld(s)'
    <2>1. GateIsHeld(s)
        BY SessionIs DEF SessionIsSound
    <2>2. \A d \in Callers : WorksIn(calls'[d], s) => ~o.gate
        BY <1>1
    <2>3. \A d, e \in Callers : WorksIn(calls'[d], s) /\ WorksIn(calls'[e], s) => d = e
        BY <1>1, <2>1 DEF GateIsHeld
    <2>4. o # Blank /\ ~o.gate => \E d \in Callers : WorksIn(calls'[d], s)
        BY <1>1
    <2>5. session'[s] = o
        BY <1>2
    <2>6. GateIsHeld(s)' <=>
            /\ \A d \in Callers : WorksIn(calls'[d], s) => ~session'[s].gate
            /\ \A d, e \in Callers : WorksIn(calls'[d], s) /\ WorksIn(calls'[e], s) => d = e
            /\ Live(s)' /\ ~session'[s].gate => \E d \in Callers : WorksIn(calls'[d], s)
        BY DEF GateIsHeld, WorksIn
    <2> QED BY <1>5, <2>2, <2>3, <2>4, <2>5, <2>6
<1>7. RemovalIsFinal(s)'
    <2>1. \A d \in Callers : CleansIn(calls'[d], s) => d = c /\ CleansIn(y, s)
        BY <1>1
    <2>2. session'[s] = o
        BY <1>2
    <2>3. RemovalIsFinal(s)' <=>
            /\ s \in doomed' => session'[s].active = 0 /\ session'[s].retired /\ ~InMap(s)'
            /\ \A d \in Callers : CleansIn(calls'[d], s) =>
                 session'[s].active = 0 /\ session'[s].retired /\ ~InMap(s)' /\ s \notin doomed'
            /\ \A d, e \in Callers : CleansIn(calls'[d], s) /\ CleansIn(calls'[e], s) => d = e
        BY DEF RemovalIsFinal, CleansIn
    <2> QED BY <2>1, <2>2, <2>3
<1>8. IsReachable(s)'
    <2>1. CleansIn(y, s) => CleansIn(calls'[c], s)
        BY <1>1
    <2>2. session'[s] = o
        BY <1>2
    <2>3. IsReachable(s)' <=>
            /\ Live(s)' /\ ~session'[s].retired => InMap(s)'
            /\ session'[s].retired /\ session'[s].active = 0 =>
                 s \in doomed' \/ \E d \in Callers : CleansIn(calls'[d], s)
        BY DEF IsReachable, CleansIn
    <2> QED BY <1>5, <2>1, <2>2, <2>3
<1>9. IsKept(s)'
    <2>1. FixesIn(y, s) \/ (\E d \in Callers \ {c} : FixesIn(calls[d], s)) =>
          \E d \in Callers : FixesIn(calls'[d], s)
        BY <1>1
    <2>2. session'[s] = o
        BY <1>2
    <2>3. IsKept(s)' <=> TranscriptIs(session'[s]) \/ session'[s].retired
                         \/ \E d \in Callers : FixesIn(calls'[d], s)
        BY DEF IsKept, FixesIn, TranscriptIs
    <2> QED BY <2>1, <2>2, <2>3
<1>10. \A t \in {s} : SessionIsSound(t)'
    BY <1>6, <1>7, <1>8, <1>9 DEF SessionIsSound
<1>11. \A d \in {c} : CallIsSound(d)'
    <2>1. CallIsSound(c)' <=> Fits(y, session')
        BY <1>1 DEF CallIsSound
    <2> QED BY <2>1
<1>12. \A t \in {s} : \A d \in Callers \ {c} : LeavesAlone(calls[d], t)
    <2> SUFFICES ASSUME NEW d \in Callers \ {c} PROVE LeavesAlone(calls[d], s)
        OBVIOUS
    <2>1. session'[s] = o /\ ~CleansIn(calls[d], s)
        BY <1>2
    <2>2. UsesIn(calls[d], s) => session'[s].key = session[s].key
        BY <2>1
    <2>3. WorksIn(calls[d], s) =>
            /\ session'[s].told = session[s].told /\ session'[s].own = session[s].own
            /\ session'[s].delivered = session[s].delivered /\ session'[s].generated = session[s].generated
        BY <2>1
    <2> QED BY <2>1, <2>2, <2>3 DEF LeavesAlone
<1>13. \A t \in Sids \ {s} : /\ session'[t] = session[t] /\ (InMap(t)' <=> InMap(t))
                             /\ t \in doomed' <=> t \in doomed
                             /\ \A d \in {c} : SameIn(calls[d], calls'[d], t)
    BY <1>1, <1>2
<1>14. {c} \in SUBSET Callers /\ {s} \in SUBSET Sids /\ \A d \in Callers \ {c} : calls'[d] = calls[d]
    BY <1>1
<1> QED BY <1>3, <1>4, <1>10, <1>11, <1>12, <1>13, <1>14, TouchingStep

\* The map after a session has been taken out of it.
LEMMA UnmappedIs ==
    ASSUME ClaudeInv, NEW s \in Sids, sessions' = Unmapped(s)
    PROVE  /\ sessions' \in [Keys -> 0..MaxSessions] /\ ~InMap(s)'
           /\ \A t \in Sids \ {s} : InMap(t)' <=> InMap(t)
           /\ \A k \in Keys, t \in Sids : sessions'[k] = t => sessions[k] = t
<1>1. sessions \in [Keys -> 0..MaxSessions] /\ 0 \in 0..MaxSessions
    BY ClaudeAssumption DEF ClaudeInv, ClaudeTypes
<1>2. PICK key : key = session[s].key
    OBVIOUS
<1>3. \A k \in Keys : sessions[k] = s => k = key
    BY <1>2, ClaudeInvIs DEF MapIsSound
<1>4. CASE Mapped(s)
    <2>1. sessions' = [sessions EXCEPT ![key] = 0]
        BY <1>2, <1>4 DEF Unmapped
    <2>2. sessions' \in [Keys -> 0..MaxSessions] /\ \A k \in Keys : sessions'[k] = IF k = key THEN 0 ELSE sessions[k]
        BY <1>1, <2>1
    <2>3. sessions[key] = s
        BY <1>2, <1>4 DEF Mapped
    <2> QED BY <1>3, <2>2, <2>3, SidsAre DEF InMap
<1>5. CASE ~Mapped(s)
    <2>1. sessions' = sessions
        BY <1>5 DEF Unmapped
    <2>2. ~InMap(s)
        BY <1>5, MappedIs
    <2> QED BY <1>1, <2>1, <2>2 DEF InMap
<1> QED BY <1>4, <1>5

\* The caller that works in a session is the only one there, and nobody removes it.
LEMMA HolderIs ==
    ASSUME ClaudeInv, NEW c \in Callers, NEW s \in Sids, WorksIn(calls[c], s)
    PROVE  /\ s \notin doomed /\ \A d \in Callers : ~CleansIn(calls[d], s)
           /\ \A d \in Callers \ {c} : ~WorksIn(calls[d], s) /\ ~FixesIn(calls[d], s)
           /\ session[s].active # 0 /\ Live(s) /\ ~session[s].gate
<1>1. UsesIn(calls[c], s)
    BY DEF UsesIn
<1>2. GateIsHeld(s)
    BY SessionIs DEF SessionIsSound
<1>3. \A d \in Callers \ {c} : ~WorksIn(calls[d], s)
    BY <1>2 DEF GateIsHeld
<1>4. \A d \in Callers \ {c} : ~FixesIn(calls[d], s)
    BY <1>3 DEF FixesIn, WorksIn, WorkPcs
<1> QED BY <1>1, <1>2, <1>3, <1>4, UsedFacts DEF GateIsHeld

\* The map is left alone, or loses s; s keeps its key.
LEMMA MapAfter ==
    ASSUME ClaudeInv, NEW s \in Sids, NEW o, session' = [session EXCEPT ![s] = o],
           \A k \in Keys, t \in Sids : sessions'[k] = t => sessions[k] = t,
           o.key = session[s].key, InMap(s)' => o # Blank
    PROVE  MapIsSound'
<1>1. \A t \in Sids : session'[t] = IF t = s THEN o ELSE session[t]
    BY DEF ClaudeInv, ClaudeTypes
<1> SUFFICES ASSUME NEW k \in Keys, NEW t \in Sids, sessions'[k] = t PROVE session'[t].key = k /\ Live(t)'
    BY DEF MapIsSound
<1>2. session[t].key = k /\ Live(t)
    BY ClaudeInvIs DEF MapIsSound
<1>3. t = s => InMap(s)'
    BY DEF InMap
<1> QED BY <1>1, <1>2, <1>3 DEF Live

LEMMA TakeGateKeeps ==
    ASSUME ClaudeInv, NEW c \in Callers, TakeGate(c)
    PROVE  ClaudeInv'
<1>1. PICK x : x = calls[c]
    OBVIOUS
<1>2. PICK s : s = x.session
    OBVIOUS
<1>3. PICK y : y = [x EXCEPT !.pc = "check"]
    OBVIOUS
<1>4. PICK o : o = [session[s] EXCEPT !.gate = FALSE]
    OBVIOUS
<1>5. x \in CallRecords /\ CallIsWhole(x) /\ Fits(x, session) /\ x.pc = "wait"
    BY <1>1, CallIs DEF TakeGate, At, CallIsSound
<1>6. s \in Sids /\ x.fresh = 0 /\ ~x.answered /\ x.then = "done" /\ x.messages \in Requests
    BY <1>2, <1>5 DEF CallIsWhole
<1>7. Turns(c, y) /\ sessions' = sessions /\ doomed' = doomed
    BY <1>1, <1>3 DEF TakeGate, Turns
<1>8. session' = [session EXCEPT ![s] = o] /\ session[s].gate
    BY <1>1, <1>2, <1>4 DEF TakeGate
<1>9. session[s] \in Objects /\ SessionIsSound(s)
    BY <1>6, SessionIs
<1>10. /\ o \in Objects /\ ~o.gate /\ o.active = session[s].active /\ o.key = session[s].key
       /\ o.retired = session[s].retired /\ (TranscriptIs(session[s]) => TranscriptIs(o))
    BY <1>4, <1>9 DEF Objects, TranscriptIs
<1>11. /\ y \in CallRecords /\ y.pc = "check" /\ y.session = s /\ y.fresh = 0 /\ ~y.answered
       /\ y.key = x.key /\ y.messages \in Requests /\ y.then = "done"
    BY <1>2, <1>3, <1>5, <1>6 DEF CallRecords, CallPcs, WorkPcs
<1>12. CallIsWhole(y)
    BY <1>6, <1>11 DEF CallIsWhole
<1>13. UsesIn(calls[c], s) /\ UsesIn(y, s) /\ WorksIn(y, s) /\ ~CleansIn(y, s)
    BY <1>1, <1>2, <1>5, <1>11 DEF UsesIn, WorksIn, CleansIn, WorkPcs
<1>14. \A t \in Sids \ {s} : SameIn(calls[c], y, t) /\ (UsesIn(y, t) <=> UsesIn(calls[c], t))
    BY <1>1, <1>2, <1>5, <1>6, <1>11, SidsAre DEF SameIn, UsesIn, WorksIn, CleansIn, FixesIn
<1>15. session[s].active # 0 /\ Live(s) /\ s \notin doomed /\ \A d \in Callers : ~CleansIn(calls[d], s)
    BY <1>6, <1>13, UsedFacts
<1>16. \A d \in Callers : ~WorksIn(calls[d], s) /\ ~FixesIn(calls[d], s)
    <2>1. \A d \in Callers : ~WorksIn(calls[d], s)
        BY <1>8, <1>9 DEF SessionIsSound, GateIsHeld
    <2> QED BY <2>1 DEF FixesIn, WorksIn, WorkPcs
<1>17. \A t : InMap(t)' <=> InMap(t)
    BY <1>7 DEF InMap
<1>18. ~o.retired => InMap(s)'
    BY <1>9, <1>10, <1>15, <1>17 DEF SessionIsSound, IsReachable
<1>19. TranscriptIs(o) \/ o.retired
    BY <1>9, <1>10, <1>16 DEF SessionIsSound, IsKept
<1>20. Fits(y, session')
    <2>1. session'[s] = o
        BY <1>6, <1>8 DEF ClaudeInv, ClaudeTypes
    <2> QED BY <1>2, <1>5, <1>10, <1>11, <2>1 DEF Fits
<1>21. MapIsSound'
    BY <1>6, <1>7, <1>8, <1>10, <1>15, BlankIs, MapAfter
<1>22. sessions' \in [Keys -> 0..MaxSessions]
    BY <1>7 DEF ClaudeInv, ClaudeTypes
<1>w. Writes(c, y, s, o)
    BY <1>6, <1>7, <1>8, <1>10, <1>11, <1>12, <1>13, <1>14, <1>15, <1>16, <1>17, <1>18, <1>19, <1>20, <1>21,
           <1>22 DEF Writes
<1> QED BY <1>w, OneSession

\* ReplacementFails and Retire: the holder of the gate retires the session.
LEMMA RetirementKeeps ==
    ASSUME ClaudeInv, NEW c \in Callers, NEW s, s = calls[c].session, calls[c].pc \in {"replace", "retire"},
           sessions' = Unmapped(s) \/ (sessions' = sessions /\ session[s].retired),
           session' = [session EXCEPT ![s].retired = TRUE],
           calls' = [calls EXCEPT ![c] = Going(c, "release")], doomed' = doomed
    PROVE  ClaudeInv'
<1>1. PICK x : x = calls[c]
    OBVIOUS
<1>2. PICK y : y = Going(c, "release")
    OBVIOUS
<1>3. PICK o : o = [session[s] EXCEPT !.retired = TRUE]
    OBVIOUS
<1>4. x \in CallRecords /\ CallIsWhole(x) /\ x.pc \in {"replace", "retire"} /\ x.session = s
    BY <1>1, CallIs
<1>5. s \in Sids /\ x.fresh = 0
    BY <1>4 DEF CallIsWhole
<1>6. Turns(c, y)
    BY <1>2 DEF Turns
<1>7. session' = [session EXCEPT ![s] = o]
    BY <1>3
<1>8. session[s] \in Objects /\ SessionIsSound(s)
    BY <1>5, SessionIs
<1>9. /\ o \in Objects /\ o.gate = session[s].gate /\ o.active = session[s].active /\ o.key = session[s].key
      /\ o.retired
    BY <1>3, <1>8 DEF Objects
<1>10. /\ y \in CallRecords /\ y.pc = "release" /\ y.session = s /\ y.fresh = 0 /\ ~y.answered
       /\ y.then = "done"
    BY <1>2, <1>4, <1>5, IdleIs, SidsAre DEF Going, CallRecords, CallPcs, WorkPcs
<1>11. CallIsWhole(y)
    BY <1>5, <1>10 DEF CallIsWhole
<1>12. UsesIn(calls[c], s) /\ UsesIn(y, s) /\ WorksIn(y, s) /\ ~CleansIn(y, s) /\ WorksIn(calls[c], s)
    BY <1>1, <1>4, <1>10 DEF UsesIn, WorksIn, CleansIn, WorkPcs
<1>13. \A t \in Sids \ {s} : SameIn(calls[c], y, t) /\ (UsesIn(y, t) <=> UsesIn(calls[c], t))
    BY <1>1, <1>4, <1>5, <1>10, SidsAre DEF SameIn, UsesIn, WorksIn, CleansIn, FixesIn
<1>14. /\ s \notin doomed /\ \A d \in Callers : ~CleansIn(calls[d], s)
       /\ \A d \in Callers \ {c} : ~WorksIn(calls[d], s) /\ ~FixesIn(calls[d], s)
       /\ session[s].active # 0 /\ Live(s) /\ ~session[s].gate
    BY <1>5, <1>12, HolderIs
<1>15. /\ sessions' \in [Keys -> 0..MaxSessions]
       /\ \A t \in Sids \ {s} : InMap(t)' <=> InMap(t)
       /\ \A k \in Keys, t \in Sids : sessions'[k] = t => sessions[k] = t
    <2>1. CASE sessions' = Unmapped(s)
        BY <1>5, <2>1, UnmappedIs
    <2>2. CASE sessions' = sessions
        <3>1. sessions \in [Keys -> 0..MaxSessions]
            BY DEF ClaudeInv, ClaudeTypes
        <3> QED BY <2>2, <3>1 DEF InMap
    <2> QED BY <2>1, <2>2
<1>16. Fits(y, session')
    BY <1>10 DEF Fits
<1>17. MapIsSound'
    <2>1. o # Blank
        BY <1>9, BlankIs
    <2>2. o.key = session[s].key /\ \A k \in Keys, t \in Sids : sessions'[k] = t => sessions[k] = t
        BY <1>9, <1>15
    <2> QED BY <1>5, <1>7, <2>1, <2>2, MapAfter
<1>w. Writes(c, y, s, o)
    BY <1>5, <1>6, <1>7, <1>9, <1>10, <1>11, <1>12, <1>13, <1>14, <1>15, <1>16, <1>17 DEF Writes
<1> QED BY <1>w, OneSession

LEMMA ReplacementFailsKeeps ==
    ASSUME ClaudeInv, NEW c \in Callers, ReplacementFails(c)
    PROVE  ClaudeInv'
<1>1. PICK s : s = calls[c].session
    OBVIOUS
<1>2. calls[c].pc \in {"replace", "retire"}
    BY DEF ReplacementFails, At
<1>3. sessions' = Unmapped(s) \/ (sessions' = sessions /\ session[s].retired)
    BY <1>1 DEF ReplacementFails
<1>4. /\ session' = [session EXCEPT ![s].retired = TRUE]
      /\ calls' = [calls EXCEPT ![c] = Going(c, "release")] /\ doomed' = doomed
    BY <1>1 DEF ReplacementFails
<1> QED BY <1>1, <1>2, <1>3, <1>4, RetirementKeeps

LEMMA RetireKeeps ==
    ASSUME ClaudeInv, NEW c \in Callers, Retire(c)
    PROVE  ClaudeInv'
<1>1. PICK s : s = calls[c].session
    OBVIOUS
<1>2. calls[c].pc \in {"replace", "retire"}
    BY DEF Retire, At
<1>3. sessions' = Unmapped(s)
    BY <1>1 DEF Retire
<1>4. /\ session' = [session EXCEPT ![s].retired = TRUE]
      /\ calls' = [calls EXCEPT ![c] = Going(c, "release")] /\ doomed' = doomed
    BY <1>1 DEF Retire
<1> QED BY <1>1, <1>2, <1>3, <1>4, RetirementKeeps

-----------------------------------------------------------------------------
(* The CLI *)

\* Whichever way the call was decided, the transcript after its prompt is the
\* messages of its request.
LEMMA TranscriptIsTheRequest ==
    ASSUME ClaudeInv, NEW c \in Callers, calls[c].pc = "run"
    PROVE  Transcript(c) = calls[c].messages
<1>1. PICK x : x = calls[c]
    OBVIOUS
<1>2. PICK o : o = session[x.session]
    OBVIOUS
<1>3. CallIsWhole(x) /\ Fits(x, session) /\ x.pc = "run"
    BY <1>1, CallIs DEF CallIsSound
<1>4. x.messages \in Requests
    BY <1>3 DEF CallIsWhole
<1>5. PICK M : M = {x.messages[i] : i \in DOMAIN x.messages}
    OBVIOUS
<1>6. PICK m : m = x.messages
    OBVIOUS
<1>7. m \in Seq(M) /\ Len(m) \in Nat
    <2>1. m \in Seq(M)
        BY <1>4, <1>5, <1>6, ClaudeAssumption
    <2> QED BY <2>1
<1>8. CASE ~x.resume
    <2>1. o.told = <<>>
        BY <1>2, <1>3, <1>8 DEF Fits
    <2>2. <<>> \o m = m
        BY <1>7, ConcatEmptySeq
    <2> QED BY <1>1, <1>2, <1>6, <1>8, <2>1, <2>2 DEF Transcript
<1>9. CASE x.resume
    <2>1. TranscriptIs(o) /\ Resumable(o, m, x.continuation)
        BY <1>2, <1>3, <1>6, <1>9 DEF Fits
    <2>2. CASE x.continuation # NoContinuation
        <3>1. m = o.told \o o.own \o x.continuation.messages
            BY <2>1, <2>2 DEF Resumable, ValidContinuation, TranscriptIs
        <3>2. Transcript(c) = o.told \o o.own \o x.continuation.messages
            BY <1>1, <1>2, <1>9, <2>2 DEF Transcript, ResumeMessages
        <3> QED BY <1>1, <1>6, <3>1, <3>2
    <2>3. CASE x.continuation = NoContinuation
        <3>1. PICK n : n = Len(o.delivered)
            OBVIOUS
        <3>2. Len(m) >= n /\ SubSeq(m, 1, n) = o.delivered /\ o.told = o.delivered
            BY <2>1, <2>3, <3>1 DEF Resumable, MessagePrefix, TranscriptIs
        <3>3. o.delivered \in Texts
            <4>1. x.session \in Sids
                BY <1>3 DEF CallIsWhole
            <4> QED BY <1>2, <4>1 DEF ClaudeInv, ClaudeTypes, Objects
        <3>4. n \in Nat
            <4>1. CASE o.delivered = <<>>
                BY <3>1, <4>1
            <4>2. CASE o.delivered \in Requests
                <5>1. PICK r \in Requests : r = o.delivered
                    BY <4>2
                <5>2. PICK R : r \in Seq(R)
                    BY ClaudeAssumption
                <5>3. Len(r) \in Nat
                    BY <5>2
                <5> QED BY <3>1, <5>1, <5>3
            <4> QED BY <3>3, <4>1, <4>2 DEF Texts
        <3>5. SubSeq(m, 1, n) \o SubSeq(m, n + 1, Len(m)) = SubSeq(m, 1, Len(m))
            <4>1. 1 \in 1..(Len(m) + 1) /\ n \in (1 - 1)..Len(m) /\ Len(m) \in n..Len(m)
                BY <1>7, <3>2, <3>4
            <4> QED BY <1>7, <4>1, ConcatAdjacentSubSeq
        <3>6. SubSeq(m, 1, Len(m)) = m
            BY <1>7, SubSeqFull
        <3>7. SubSeq(m, 1, n) \o <<>> = SubSeq(m, 1, n)
            <4>1. \A i \in 1..n : m[i] \in M
                BY <1>7, <3>2, <3>4, ElementOfSeq
            <4>2. SubSeq(m, 1, n) \in Seq(M)
                BY <3>4, <4>1, SubSeqProperties
            <4> QED BY <4>2, ConcatEmptySeq
        <3>8. Transcript(c) = o.told \o <<>> \o SubSeq(m, n + 1, Len(m))
            BY <1>1, <1>2, <1>6, <1>9, <2>3, <3>1 DEF Transcript, ResumeMessages
        <3>9. Transcript(c) = (SubSeq(m, 1, n) \o <<>>) \o SubSeq(m, n + 1, Len(m))
            BY <3>2, <3>8, Zenon
        <3> QED BY <1>1, <1>6, <3>5, <3>6, <3>7, <3>9, Zenon
    <2> QED BY <2>2, <2>3
<1> QED BY <1>8, <1>9

LEMMA CLIKeeps ==
    ASSUME ClaudeInv, NEW c \in Callers, NEW s, s = calls[c].session, calls[c].pc = "run",
           NEW y \in CallRecords, Turns(c, y), CallIsWhole(y), Fits(y, session'),
           y.session = s, y.fresh = 0, y.pc \in {"release", "retire", "replace"},
           NEW o \in Objects, session' = [session EXCEPT ![s] = o], UNCHANGED <<sessions, doomed>>,
           o.key = session[s].key, o.active = session[s].active,
           o.retired = session[s].retired, o.gate = session[s].gate,
           TranscriptIs(o) \/ FixesIn(y, s)
    PROVE  ClaudeInv'
<1>1. PICK x : x = calls[c]
    OBVIOUS
<1>2. CallIsWhole(x) /\ x.pc = "run" /\ x.session = s
    BY <1>1, CallIs
<1>3. s \in Sids /\ x.fresh = 0
    BY <1>2 DEF CallIsWhole
<1>4. UsesIn(calls[c], s) /\ UsesIn(y, s) /\ WorksIn(y, s) /\ ~CleansIn(y, s) /\ WorksIn(calls[c], s)
    BY <1>1, <1>2 DEF UsesIn, WorksIn, CleansIn, WorkPcs
<1>5. \A t \in Sids \ {s} : SameIn(calls[c], y, t) /\ (UsesIn(y, t) <=> UsesIn(calls[c], t))
    BY <1>1, <1>2, <1>3, SidsAre DEF SameIn, UsesIn, WorksIn, CleansIn, FixesIn
<1>6. /\ s \notin doomed /\ \A d \in Callers : ~CleansIn(calls[d], s)
      /\ \A d \in Callers \ {c} : ~WorksIn(calls[d], s) /\ ~FixesIn(calls[d], s)
      /\ session[s].active # 0 /\ Live(s) /\ ~session[s].gate
    BY <1>3, <1>4, HolderIs
<1>7. \A t : InMap(t)' <=> InMap(t)
    BY DEF InMap
<1>8. ~o.retired => InMap(s)'
    <2>1. IsReachable(s)
        BY <1>3, SessionIs DEF SessionIsSound
    <2> QED BY <1>6, <1>7, <2>1 DEF IsReachable
<1>9. o # Blank
    BY <1>6, BlankIs
<1>10. MapIsSound'
    BY <1>3, <1>9, MapAfter
<1>11. sessions' \in [Keys -> 0..MaxSessions] /\ doomed' = doomed
    BY DEF ClaudeInv, ClaudeTypes
<1>12. o.active = IF UsesIn(y, s) /\ ~UsesIn(calls[c], s) THEN session[s].active + 1
                  ELSE IF ~UsesIn(y, s) /\ UsesIn(calls[c], s) THEN session[s].active - 1
                  ELSE session[s].active
    BY <1>4
<1>13. /\ WorksIn(y, s) => ~o.gate
       /\ o # Blank /\ ~o.gate => WorksIn(y, s) \/ \E d \in Callers \ {c} : WorksIn(calls[d], s)
       /\ CleansIn(y, s) => o.active = 0 /\ o.retired /\ ~InMap(s)'
       /\ o # Blank /\ ~o.retired => InMap(s)'
       /\ o.retired /\ o.active = 0 => CleansIn(y, s)
    BY <1>4, <1>6, <1>8
<1>14. Fits(y, session')
    OBVIOUS
<1>15. TranscriptIs(o) \/ o.retired \/ FixesIn(y, s) \/ \E d \in Callers \ {c} : FixesIn(calls[d], s)
    OBVIOUS
<1>16. \A d \in Callers \ {c} : UsesIn(calls[d], s) => o.key = session[s].key
    OBVIOUS
<1>17. \A t \in Sids \ {s} : /\ (InMap(t)' <=> InMap(t)) /\ SameIn(calls[c], y, t)
                             /\ UsesIn(y, t) <=> UsesIn(calls[c], t)
    BY <1>5, <1>7
<1>w. Writes(c, y, s, o)
    BY <1>3, <1>6, <1>10, <1>11, <1>12, <1>13, <1>14, <1>15, <1>16, <1>17 DEF Writes
<1> QED BY <1>w, OneSession

LEMMA CLISucceedsKeeps ==
    ASSUME ClaudeInv, NEW c \in Callers, NEW a \in Answers, CLISucceeds(c, a)
    PROVE  ClaudeInv'
<1>1. PICK x : x = calls[c]
    OBVIOUS
<1>2. PICK s : s = x.session
    OBVIOUS
<1>3. PICK m : m = x.messages
    OBVIOUS
<1>4. PICK y : y = [Going(c, "release") EXCEPT !.messages = m, !.answered = TRUE]
    OBVIOUS
<1>5. PICK o : o = [session[s] EXCEPT !.told = m, !.own = <<a>>, !.delivered = m, !.generated = <<a>>]
    OBVIOUS
<1>6. x \in CallRecords /\ CallIsWhole(x) /\ x.pc = "run" /\ x.session = s
    BY <1>1, <1>2, CallIs DEF CLISucceeds, At
<1>7. s \in Sids /\ m \in Requests
    BY <1>3, <1>6 DEF CallIsWhole
<1>8. session' = [session EXCEPT ![s] = o]
    <2>1. Transcript(c) = m
        BY <1>1, <1>3, <1>6, TranscriptIsTheRequest
    <2> QED BY <1>1, <1>2, <1>3, <1>5, <2>1 DEF CLISucceeds
<1>9. Turns(c, y) /\ UNCHANGED <<sessions, doomed>>
    BY <1>1, <1>3, <1>4 DEF CLISucceeds, Turns
<1>10. /\ y \in CallRecords /\ y.pc = "release" /\ y.session = s /\ y.fresh = 0 /\ y.messages = m
       /\ y.then = "done"
    BY <1>1, <1>4, <1>6, <1>7, IdleIs, SidsAre DEF Going, CallRecords, CallPcs, WorkPcs, Texts
<1>11. CallIsWhole(y)
    BY <1>7, <1>10 DEF CallIsWhole
<1>12. <<a>> \in Replies /\ m \in Texts
    BY <1>7 DEF Replies, Texts
<1>13. /\ o \in Objects /\ o.key = session[s].key /\ o.active = session[s].active
       /\ o.retired = session[s].retired /\ o.gate = session[s].gate
       /\ o.told = m /\ o.own = <<a>> /\ o.delivered = m /\ o.generated = <<a>>
    <2>1. session[s] \in Objects
        BY <1>7, SessionIs
    <2> QED BY <1>5, <1>12, <2>1 DEF Objects
<1>14. Fits(y, session')
    <2>1. session'[s] = o
        BY <1>7, <1>8 DEF ClaudeInv, ClaudeTypes
    <2> QED BY <1>10, <1>13, <2>1 DEF Fits
<1>15. TranscriptIs(o)
    BY <1>13 DEF TranscriptIs
<1>16. s = calls[c].session /\ calls[c].pc = "run" /\ y.pc \in {"release", "retire", "replace"}
    BY <1>1, <1>6, <1>10
<1> QED BY <1>8, <1>9, <1>10, <1>11, <1>13, <1>14, <1>15, <1>16, CLIKeeps

LEMMA CLIFailsKeeps ==
    ASSUME ClaudeInv, NEW c \in Callers, CLIFails(c)
    PROVE  ClaudeInv'
<1>1. PICK x : x = calls[c]
    OBVIOUS
<1>2. PICK s : s = x.session
    OBVIOUS
<1>3. x \in CallRecords /\ CallIsWhole(x) /\ x.pc = "run" /\ x.session = s /\ Fits(x, session)
    BY <1>1, <1>2, CallIs DEF CLIFails, At, CallIsSound
<1>4. s \in Sids /\ x.messages \in Requests /\ x.fresh = 0 /\ ~x.answered
    BY <1>3 DEF CallIsWhole
<1>5. session[s] \in Objects
    BY <1>4, SessionIs
<1>6. PICK t : t \in {session[s].told, Transcript(c)} /\ session' = [session EXCEPT ![s].told = t]
    BY <1>1, <1>2 DEF CLIFails
<1>7. t \in Texts
    <2>1. Transcript(c) = x.messages
        BY <1>1, <1>3, TranscriptIsTheRequest
    <2>2. session[s].told \in Texts
        BY <1>5 DEF Objects
    <2> QED BY <1>4, <1>6, <2>1, <2>2 DEF Texts
<1>8. PICK o : o = [session[s] EXCEPT !.told = t]
    OBVIOUS
<1>9. session' = [session EXCEPT ![s] = o]
    BY <1>6, <1>8
<1>10. /\ o \in Objects /\ o.key = session[s].key /\ o.active = session[s].active
       /\ o.retired = session[s].retired /\ o.gate = session[s].gate
    BY <1>5, <1>7, <1>8 DEF Objects
<1>11. PICK y : /\ Turns(c, y)
                /\ y = Going(c, "retire") \/ (y = [[x EXCEPT !.resume = FALSE] EXCEPT !.pc = "replace"])
    <2>1. CASE calls' = [calls EXCEPT ![c] = Going(c, "retire")]
        BY <2>1 DEF Turns
    <2>2. CASE calls' = [calls EXCEPT ![c].resume = FALSE, ![c].pc = "replace"]
        BY <1>1, <2>2 DEF Turns, ClaudeInv, ClaudeTypes
    <2> QED BY <2>1, <2>2 DEF CLIFails
<1>12. /\ y \in CallRecords /\ y.pc \in {"retire", "replace"} /\ y.session = s /\ y.fresh = 0 /\ ~y.answered /\ ~y.resume
       /\ y.pc = "replace" => y.messages \in Requests /\ y.key = x.key
    <2>1. CASE y = Going(c, "retire")
        BY <1>1, <1>3, <1>4, <2>1, IdleIs, SidsAre DEF Going, CallRecords, CallPcs, WorkPcs
    <2>2. CASE y = [[x EXCEPT !.resume = FALSE] EXCEPT !.pc = "replace"]
        BY <1>3, <1>4, <2>2 DEF CallRecords, CallPcs, WorkPcs
    <2> QED BY <1>11, <2>1, <2>2
<1>13. CallIsWhole(y)
    BY <1>4, <1>12 DEF CallIsWhole
<1>14. Fits(y, session')
    <2>1. session'[s] = o
        BY <1>4, <1>9 DEF ClaudeInv, ClaudeTypes
    <2> QED BY <1>3, <1>10, <1>12, <2>1 DEF Fits
<1>15. FixesIn(y, s)
    BY <1>12 DEF FixesIn
<1>16. /\ s = calls[c].session /\ calls[c].pc = "run" /\ y.pc \in {"release", "retire", "replace"}
       /\ UNCHANGED <<sessions, doomed>>
    BY <1>1, <1>3, <1>12 DEF CLIFails
<1> QED BY <1>9, <1>10, <1>11, <1>12, <1>13, <1>14, <1>15, <1>16, CLIKeeps

-----------------------------------------------------------------------------
(* A caller leaves *)

\* A caller that leaves alone leaves nobody behind.
LEMMA LastIs ==
    ASSUME ClaudeInv, NEW c \in Callers, NEW s \in Sids, UsesIn(calls[c], s)
    PROVE  session[s].active = 1 <=> \A d \in Callers \ {c} : ~UsesIn(calls[d], s)
<1>1. c \in UsersOf(s) /\ IsFiniteSet(UsersOf(s)) /\ session[s].active = Cardinality(UsersOf(s))
    BY SessionIs DEF UsersOf
<1>2. IsFiniteSet(UsersOf(s) \ {c}) /\ Cardinality(UsersOf(s) \ {c}) = session[s].active - 1
    BY <1>1, OneFewer
<1>3. session[s].active = 1 <=> UsersOf(s) \ {c} = {}
    <2>1. session[s].active \in Nat
        BY SessionIs
    <2> QED BY <1>2, <2>1, FS_EmptySet
<1>4. UsersOf(s) \ {c} = {} <=> \A d \in Callers \ {c} : ~UsesIn(calls[d], s)
    BY DEF UsersOf
<1> QED BY <1>3, <1>4

\* Where a caller goes on, and that it has left its session.
LEMMA ResumedIs ==
    ASSUME NEW x \in CallRecords, NEW s \in Sids, CallIsWhole(x), Fits(x, session), x.session = s,
           x.pc \in {"wait", "release", "clean"}, NEW y, y = Resumed(x),
           x.fresh # 0 => session'[x.fresh] = session[x.fresh]
    PROVE  /\ y \in CallRecords /\ CallIsWhole(y) /\ Fits(y, session') /\ y.fresh = 0
           /\ ~WorksIn(y, s) /\ ~UsesIn(y, s) /\ ~CleansIn(y, s) /\ ~FixesIn(y, s)
           /\ \A t \in Sids \ {s} : SameIn(x, y, t) /\ (UsesIn(y, t) <=> UsesIn(x, t))
<1>1. CASE x.then = "run" /\ x.pc \in {"release", "clean"}
    <2>1. /\ x.fresh # 0 /\ x.fresh # s /\ x.messages \in Requests /\ ~x.resume /\ ~x.answered
        BY <1>1 DEF CallIsWhole
    <2>2. x.fresh \in Sids
        BY <2>1, SidsAre DEF CallRecords
    <2>3. y = [x EXCEPT !.pc = "run", !.session = x.fresh, !.fresh = 0]
        BY <1>1 DEF Resumed
    <2>4. /\ y \in CallRecords /\ y.pc = "run" /\ y.session = x.fresh /\ y.fresh = 0 /\ y.key = x.key
          /\ y.messages = x.messages /\ ~y.resume /\ ~y.answered
        BY <2>1, <2>2, <2>3, SidsAre DEF CallRecords, CallPcs, WorkPcs
    <2>5. CallIsWhole(y)
        BY <2>1, <2>2, <2>4 DEF CallIsWhole
    <2>6. Fits(y, session')
        <3>1. session[x.fresh].key = x.key /\ session[x.fresh].told = <<>> /\ session'[x.fresh] = session[x.fresh]
            BY <2>1 DEF Fits
        <3> QED BY <2>1, <2>4, <3>1 DEF Fits
    <2>7. ~WorksIn(y, s) /\ ~UsesIn(y, s) /\ ~CleansIn(y, s) /\ ~FixesIn(y, s)
        BY <2>1, <2>4, SidsAre DEF WorksIn, UsesIn, CleansIn, FixesIn
    <2>8. \A t \in Sids \ {s} : SameIn(x, y, t) /\ (UsesIn(y, t) <=> UsesIn(x, t))
        BY <2>1, <2>4, SidsAre DEF SameIn, WorksIn, UsesIn, CleansIn, FixesIn, WorkPcs
    <2> QED BY <2>4, <2>5, <2>6, <2>7, <2>8
<1>2. CASE ~(x.then = "run" /\ x.pc \in {"release", "clean"})
    <2>1. x.then # "run" /\ x.fresh = 0
        BY <1>2 DEF CallIsWhole
    <2>2. \A t \in Sids \ {s} : ~WorksIn(x, t) /\ ~UsesIn(x, t) /\ ~CleansIn(x, t) /\ ~FixesIn(x, t)
        BY <2>1, SidsAre DEF WorksIn, UsesIn, CleansIn, FixesIn
    <2>3. CASE x.then = "look"
        <3>1. y = [x EXCEPT !.pc = "look", !.session = 0]
            BY <2>3 DEF Resumed
        <3>2. x.messages \in Requests /\ ~x.answered
            BY <2>3 DEF CallIsWhole
        <3>3. /\ y \in CallRecords /\ y.pc = "look" /\ y.session = 0 /\ y.fresh = 0
              /\ y.messages = x.messages /\ ~y.answered /\ y.then = "look"
            BY <2>1, <2>3, <3>1, <3>2, SidsAre DEF CallRecords, CallPcs, WorkPcs
        <3>4. CallIsWhole(y)
            BY <3>2, <3>3 DEF CallIsWhole
        <3>5. Fits(y, session')
            BY <3>2, <3>3 DEF Fits
        <3> QED BY <2>2, <3>3, <3>4, <3>5, NoSession DEF SameIn
    <2>4. CASE x.then # "look"
        <3>1. y = Idle
            BY <2>1, <2>4 DEF Resumed
        <3>2. Fits(Idle, session')
            BY IdleIs DEF Fits
        <3> QED BY <2>2, <3>1, <3>2, IdleIs, IdleIsWhole, NoSession DEF SameIn
    <2> QED BY <2>3, <2>4
<1> QED BY <1>1, <1>2

\* The last to leave a retired session goes to remove it.
LEMMA CleaningIs ==
    ASSUME NEW x \in CallRecords, NEW s \in Sids, CallIsWhole(x), Fits(x, session), x.session = s,
           x.pc \in {"wait", "release"}, NEW y \in CallRecords, y.pc = "clean", y.session = s,
           y.fresh = x.fresh, y.then = x.then, y.key = x.key, y.messages = x.messages,
           y.answered <=> x.answered, y.resume <=> x.resume,
           x.fresh # 0 => session'[x.fresh] = session[x.fresh],
           session'[s].told = session[s].told
    PROVE  /\ CallIsWhole(y) /\ Fits(y, session')
           /\ ~WorksIn(y, s) /\ ~UsesIn(y, s) /\ CleansIn(y, s) /\ ~FixesIn(y, s)
           /\ \A t \in Sids \ {s} : SameIn(x, y, t) /\ (UsesIn(y, t) <=> UsesIn(x, t))
<1>1. x.fresh # s
    BY SidsAre DEF CallIsWhole
<1>2. CallIsWhole(y)
    BY DEF CallIsWhole
<1>3. Fits(y, session')
    BY DEF Fits
<1>4. ~WorksIn(y, s) /\ ~UsesIn(y, s) /\ CleansIn(y, s) /\ ~FixesIn(y, s)
    BY <1>1 DEF WorksIn, UsesIn, CleansIn, FixesIn, WorkPcs
<1>5. \A t \in Sids \ {s} : SameIn(x, y, t) /\ (UsesIn(y, t) <=> UsesIn(x, t))
    BY DEF SameIn, WorksIn, UsesIn, CleansIn, FixesIn
<1> QED BY <1>2, <1>3, <1>4, <1>5

\* GiveUp and Release: the gate is left alone by who waits, and full after its holder.
LEMMA LeavingKeeps ==
    ASSUME ClaudeInv, NEW c \in Callers, NEW s, s = calls[c].session, calls[c].pc \in {"wait", "release"},
           Leaves(c), doomed' = doomed, NEW o, session' = [session EXCEPT ![s] = o],
           o.active \in Nat => o \in Objects,
           o.active = session[s].active - 1, o.key = session[s].key, o.retired <=> session[s].retired,
           o.told = session[s].told, o.own = session[s].own,
           o.delivered = session[s].delivered, o.generated = session[s].generated,
           calls[c].pc = "wait" => (o.gate <=> session[s].gate),
           calls[c].pc = "release" => o.gate
    PROVE  ClaudeInv'
<1>1. PICK x : x = calls[c]
    OBVIOUS
<1>2. x \in CallRecords /\ CallIsWhole(x) /\ Fits(x, session) /\ x.pc \in {"wait", "release"} /\ x.session = s
    BY <1>1, CallIs DEF CallIsSound
<1>3. s \in Sids /\ x.fresh # s /\ (x.fresh # 0 => x.fresh \in Sids)
    BY <1>2, SidsAre DEF CallIsWhole, CallRecords
<1>4. UsesIn(calls[c], s) /\ ~CleansIn(x, s) /\ ~FixesIn(x, s)
    BY <1>1, <1>2 DEF UsesIn, WorksIn, CleansIn, FixesIn, WorkPcs
<1>5. /\ session[s].active # 0 /\ Live(s) /\ s \notin doomed
      /\ \A d \in Callers : ~CleansIn(calls[d], s)
    BY <1>3, <1>4, UsedFacts
<1>6. session[s] \in Objects /\ SessionIsSound(s) /\ session[s].active \in Nat
    BY <1>3, SessionIs
<1>8. \A t \in Sids : session'[t] = IF t = s THEN o ELSE session[t]
    BY DEF ClaudeInv, ClaudeTypes
<1>10. o \in Objects
    <2>1. session[s].active - 1 \in Nat
        BY <1>5, <1>6
    <2> QED BY <2>1
<1>12. PICK last \in BOOLEAN : last <=> (session[s].retired /\ session[s].active = 1)
    OBVIOUS
<1>13. PICK y : y = IF last THEN [x EXCEPT !.pc = "clean"] ELSE Resumed(x)
    OBVIOUS
<1>14. Turns(c, y)
    <2>1. calls' = [calls EXCEPT ![c] = IF session[s].retired /\ session[s].active = 1
                                        THEN [x EXCEPT !.pc = "clean"] ELSE Resumed(x)]
        BY <1>1, <1>2 DEF Leaves
    <2> QED BY <1>12, <1>13, <2>1 DEF Turns
<1>15. sessions' = IF last THEN Unmapped(s) ELSE sessions
    BY <1>1, <1>2, <1>12 DEF Leaves
<1>16. /\ y \in CallRecords /\ CallIsWhole(y) /\ Fits(y, session')
       /\ ~WorksIn(y, s) /\ ~UsesIn(y, s) /\ (CleansIn(y, s) <=> last) /\ ~FixesIn(y, s)
       /\ \A t \in Sids \ {s} : SameIn(calls[c], y, t) /\ (UsesIn(y, t) <=> UsesIn(calls[c], t))
    <2>1. x.fresh # 0 => session'[x.fresh] = session[x.fresh]
        BY <1>3, <1>8
    <2>2. session'[s].told = session[s].told
        BY <1>3, <1>8, <1>10
    <2>3. CASE last
        <3>1. y = [x EXCEPT !.pc = "clean"]
            BY <1>13, <2>3
        <3>2. /\ y \in CallRecords /\ CallIsWhole(y) /\ Fits(y, session')
              /\ ~WorksIn(y, s) /\ ~UsesIn(y, s) /\ CleansIn(y, s) /\ ~FixesIn(y, s)
              /\ \A t \in Sids \ {s} : SameIn(x, y, t) /\ (UsesIn(y, t) <=> UsesIn(x, t))
            <4>1. /\ y \in CallRecords /\ y.pc = "clean" /\ y.session = s /\ y.fresh = x.fresh
                  /\ y.then = x.then /\ y.key = x.key /\ y.messages = x.messages
                BY <1>2, <3>1 DEF CallRecords, CallPcs, WorkPcs
            <4>2. (y.answered <=> x.answered) /\ (y.resume <=> x.resume)
                BY <1>2, <3>1 DEF CallRecords
            <4> QED BY <1>2, <1>3, <2>1, <2>2, <4>1, <4>2, CleaningIs
        <3> QED BY <1>1, <2>3, <3>2
    <2>4. CASE ~last
        <3>1. y = Resumed(x) /\ x.pc \in {"wait", "release", "clean"}
            BY <1>2, <1>13, <2>4
        <3> QED BY <1>1, <1>2, <1>3, <2>1, <2>4, <3>1, ResumedIs
    <2> QED BY <2>3, <2>4
<1>17. /\ sessions' \in [Keys -> 0..MaxSessions]
       /\ \A t \in Sids \ {s} : InMap(t)' <=> InMap(t)
       /\ \A k \in Keys, t \in Sids : sessions'[k] = t => sessions[k] = t
       /\ IF last THEN ~InMap(s)' ELSE (InMap(s)' <=> InMap(s))
    <2>1. CASE last
        <3>1. sessions' = Unmapped(s)
            BY <1>15, <2>1
        <3> QED BY <1>3, <2>1, <3>1, UnmappedIs
    <2>2. CASE ~last
        <3>1. sessions' = sessions /\ sessions \in [Keys -> 0..MaxSessions]
            BY <1>15, <2>2 DEF ClaudeInv, ClaudeTypes
        <3> QED BY <2>2, <3>1 DEF InMap
    <2> QED BY <2>1, <2>2
<1>18. ~o.gate => \E d \in Callers \ {c} : WorksIn(calls[d], s)
    <2> HAVE ~o.gate
    <2>1. x.pc = "wait" /\ ~session[s].gate
        BY <1>1, <1>2
    <2>2. PICK d \in Callers : WorksIn(calls[d], s)
        BY <1>5, <1>6, <2>1 DEF SessionIsSound, GateIsHeld
    <2>3. d # c
        BY <1>1, <1>2, <1>3, <2>1, <2>2 DEF WorksIn, WorkPcs
    <2> QED BY <2>2, <2>3
<1>19. o # Blank
    <2>1. CASE o.gate
        BY <2>1, BlankIs
    <2>2. CASE ~o.gate
        <3>1. PICK d \in Callers \ {c} : WorksIn(calls[d], s)
            BY <1>18, <2>2
        <3>2. UsesIn(calls[d], s)
            BY <3>1 DEF UsesIn
        <3>3. session[s].active # 1
            BY <1>3, <1>4, <3>1, <3>2, LastIs
        <3>4. o.active # 0
            BY <1>6, <1>10, <3>3
        <3> QED BY <3>4, BlankIs
    <2> QED BY <2>1, <2>2
<1>20. MapIsSound'
    <2>1. \A k \in Keys, t \in Sids : sessions'[k] = t => sessions[k] = t
        BY <1>17
    <2> QED BY <1>3, <1>19, <2>1, MapAfter
<1>21. \A d \in Callers \ {c} : WorksIn(calls[d], s) => ~o.gate
    <2> SUFFICES ASSUME NEW d \in Callers \ {c}, WorksIn(calls[d], s) PROVE ~o.gate
        OBVIOUS
    <2>1. ~session[s].gate
        BY <1>6 DEF SessionIsSound, GateIsHeld
    <2>2. x.pc # "release"
        <3> SUFFICES ASSUME x.pc = "release" PROVE FALSE
            OBVIOUS
        <3>1. WorksIn(calls[c], s)
            BY <1>1, <1>2 DEF WorksIn, WorkPcs
        <3> QED BY <1>6, <3>1 DEF SessionIsSound, GateIsHeld
    <2> QED BY <1>1, <1>2, <2>1, <2>2
<1>22. CleansIn(y, s) => o.active = 0 /\ o.retired /\ ~InMap(s)'
    BY <1>6, <1>10, <1>12, <1>16, <1>17
<1>23. o.retired /\ o.active = 0 => CleansIn(y, s)
    BY <1>6, <1>10, <1>12, <1>16
<1>24. ~o.retired => InMap(s)'
    <2>1. ~session[s].retired => InMap(s)
        BY <1>5, <1>6 DEF SessionIsSound, IsReachable
    <2> QED BY <1>12, <1>17, <2>1
<1>25. TranscriptIs(o) \/ o.retired \/ \E d \in Callers \ {c} : FixesIn(calls[d], s)
    <2>1. IsKept(s)
        BY <1>6 DEF SessionIsSound
    <2>2. TranscriptIs(session[s]) => TranscriptIs(o)
        BY <1>10 DEF TranscriptIs
    <2> QED BY <1>1, <1>4, <2>1, <2>2 DEF IsKept
<1>26. \A t \in Sids \ {s} : /\ (InMap(t)' <=> InMap(t)) /\ SameIn(calls[c], y, t)
                             /\ UsesIn(y, t) <=> UsesIn(calls[c], t)
    BY <1>16, <1>17
<1>27. o.active = IF UsesIn(y, s) /\ ~UsesIn(calls[c], s) THEN session[s].active + 1
                  ELSE IF ~UsesIn(y, s) /\ UsesIn(calls[c], s) THEN session[s].active - 1
                  ELSE session[s].active
    BY <1>4, <1>10, <1>16
<1>28. \A d \in Callers \ {c} : WorksIn(calls[d], s) =>
               /\ ~o.gate /\ ~WorksIn(y, s)
               /\ o.told = session[s].told /\ o.own = session[s].own
               /\ o.delivered = session[s].delivered /\ o.generated = session[s].generated
    BY <1>10, <1>16, <1>21
<1>29. /\ \A d \in Callers \ {c} : ~CleansIn(calls[d], s)
       /\ \A d \in Callers \ {c} : UsesIn(calls[d], s) => o.key = session[s].key
       /\ WorksIn(y, s) => ~o.gate
       /\ o # Blank /\ ~o.gate => WorksIn(y, s) \/ \E d \in Callers \ {c} : WorksIn(calls[d], s)
       /\ o # Blank /\ ~o.retired => InMap(s)'
       /\ TranscriptIs(o) \/ o.retired \/ FixesIn(y, s) \/ \E d \in Callers \ {c} : FixesIn(calls[d], s)
    BY <1>5, <1>10, <1>16, <1>18, <1>24, <1>25
<1>30. y \in CallRecords /\ CallIsWhole(y) /\ Fits(y, session') /\ sessions' \in [Keys -> 0..MaxSessions]
       /\ o \in Objects /\ s \in Sids /\ s \notin doomed
    BY <1>3, <1>5, <1>8, <1>10, <1>16, <1>17
<1>w. Writes(c, y, s, o)
    BY <1>14, <1>20, <1>22, <1>23, <1>26, <1>27, <1>28, <1>29, <1>30 DEF Writes
<1> QED BY <1>w, OneSession

LEMMA GiveUpKeeps ==
    ASSUME ClaudeInv, NEW c \in Callers, GiveUp(c)
    PROVE  ClaudeInv'
<1>1. PICK s : s = calls[c].session
    OBVIOUS
<1>2. calls[c].pc = "wait" /\ s \in Sids
    BY <1>1, CallIs DEF GiveUp, At, CallIsWhole
<1>3. session[s] \in Objects
    BY <1>2, SessionIs
<1>4. PICK o : o = [session[s] EXCEPT !.active = @ - 1]
    OBVIOUS
<1>5. /\ o.active \in Nat => o \in Objects
      /\ o.active = session[s].active - 1 /\ o.key = session[s].key
      /\ o.told = session[s].told /\ o.own = session[s].own
      /\ o.delivered = session[s].delivered /\ o.generated = session[s].generated
    BY <1>3, <1>4 DEF Objects
<1>6. /\ session' = [session EXCEPT ![s] = o]
      /\ (o.retired <=> session[s].retired) /\ (o.gate <=> session[s].gate)
    BY <1>1, <1>3, <1>4 DEF GiveUp, Objects
<1>7. Leaves(c) /\ doomed' = doomed
    BY DEF GiveUp
<1> QED BY <1>1, <1>2, <1>5, <1>6, <1>7, LeavingKeeps

LEMMA ReleaseKeeps ==
    ASSUME ClaudeInv, NEW c \in Callers, Release(c)
    PROVE  ClaudeInv'
<1>1. PICK s : s = calls[c].session
    OBVIOUS
<1>2. calls[c].pc = "release" /\ s \in Sids
    BY <1>1, CallIs DEF Release, At, CallIsWhole
<1>3. session[s] \in Objects
    BY <1>2, SessionIs
<1>4. PICK o : o = [[session[s] EXCEPT !.active = @ - 1] EXCEPT !.gate = TRUE]
    OBVIOUS
<1>5. /\ o.active \in Nat => o \in Objects
      /\ o.active = session[s].active - 1 /\ o.key = session[s].key
      /\ o.told = session[s].told /\ o.own = session[s].own
      /\ o.delivered = session[s].delivered /\ o.generated = session[s].generated
    BY <1>3, <1>4 DEF Objects
<1>6. (o.retired <=> session[s].retired) /\ o.gate
    BY <1>3, <1>4 DEF Objects
<1>7. session' = [session EXCEPT ![s] = o]
    BY <1>1, <1>2, <1>4 DEF Release, ClaudeInv, ClaudeTypes
<1>8. Leaves(c) /\ doomed' = doomed
    BY DEF Release
<1> QED BY <1>1, <1>2, <1>5, <1>6, <1>7, <1>8, LeavingKeeps

LEMMA CleanUpKeeps ==
    ASSUME ClaudeInv, NEW c \in Callers, CleanUp(c)
    PROVE  ClaudeInv'
<1>1. PICK x : x = calls[c]
    OBVIOUS
<1>2. PICK s : s = x.session
    OBVIOUS
<1>3. PICK y : y = Resumed(x)
    OBVIOUS
<1>4. x \in CallRecords /\ CallIsWhole(x) /\ Fits(x, session) /\ x.pc = "clean" /\ x.session = s
    BY <1>1, <1>2, CallIs DEF CallIsSound, CleanUp, At
<1>5. s \in Sids /\ x.fresh # s /\ (x.fresh # 0 => x.fresh \in Sids)
    BY <1>4, SidsAre DEF CallIsWhole, CallRecords
<1>6. Turns(c, y) /\ sessions' = sessions /\ doomed' = doomed
    BY <1>1, <1>3 DEF CleanUp, Turns
<1>7. session' = [session EXCEPT ![s] = Blank] /\ \A t \in Sids : session'[t] = IF t = s THEN Blank ELSE session[t]
    BY <1>1, <1>2 DEF CleanUp, ClaudeInv, ClaudeTypes
<1>8. CleansIn(calls[c], s) /\ ~UsesIn(calls[c], s) /\ SessionIsSound(s)
    BY <1>1, <1>4, <1>5, SessionIs DEF CleansIn, UsesIn, WorksIn, WorkPcs
<1>9. /\ session[s].active = 0 /\ ~InMap(s) /\ s \notin doomed
      /\ \A d \in Callers \ {c} : ~CleansIn(calls[d], s)
    BY <1>8 DEF SessionIsSound, RemovalIsFinal
<1>10. \A d \in Callers : ~UsesIn(calls[d], s) /\ ~WorksIn(calls[d], s)
    <2>1. \A d \in Callers : ~UsesIn(calls[d], s)
        BY <1>5, <1>9, UsedFacts
    <2> QED BY <2>1 DEF UsesIn
<1>11. x.fresh # 0 => session'[x.fresh] = session[x.fresh]
    BY <1>5, <1>7
<1>12. /\ y \in CallRecords /\ CallIsWhole(y) /\ Fits(y, session')
       /\ ~WorksIn(y, s) /\ ~UsesIn(y, s) /\ ~CleansIn(y, s) /\ ~FixesIn(y, s)
       /\ \A t \in Sids \ {s} : SameIn(calls[c], y, t) /\ (UsesIn(y, t) <=> UsesIn(calls[c], t))
    <2>1. x.pc \in {"wait", "release", "clean"}
        BY <1>4
    <2> QED BY <1>1, <1>3, <1>4, <1>5, <1>11, <2>1, ResumedIs
<1>13. sessions' \in [Keys -> 0..MaxSessions] /\ \A t : InMap(t)' <=> InMap(t)
    BY <1>6 DEF ClaudeInv, ClaudeTypes, InMap
<1>14. MapIsSound'
    <2> SUFFICES ASSUME NEW k \in Keys, NEW t \in Sids, sessions[k] = t PROVE session'[t].key = k /\ session'[t] # Blank
        BY <1>6 DEF MapIsSound, Live
    <2>1. t # s
        BY <1>9 DEF InMap
    <2>2. session[t].key = k /\ Live(t)
        BY ClaudeInvIs DEF MapIsSound
    <2> QED BY <1>7, <2>1, <2>2 DEF Live
<1>15. TranscriptIs(Blank)
    BY BlankIs DEF TranscriptIs
<1>16. Blank.active = IF UsesIn(y, s) /\ ~UsesIn(calls[c], s) THEN session[s].active + 1
                      ELSE IF ~UsesIn(y, s) /\ UsesIn(calls[c], s) THEN session[s].active - 1
                      ELSE session[s].active
    BY <1>8, <1>9, <1>12, BlankIs
<1>17. \A t \in Sids \ {s} : /\ (InMap(t)' <=> InMap(t)) /\ SameIn(calls[c], y, t)
                             /\ UsesIn(y, t) <=> UsesIn(calls[c], t)
    BY <1>12, <1>13
<1>w. Writes(c, y, s, Blank)
    BY <1>5, <1>6, <1>7, <1>9, <1>10, <1>12, <1>13, <1>14, <1>15, <1>16, <1>17, BlankIs DEF Writes
<1> QED BY <1>w, OneSession

-----------------------------------------------------------------------------
(* A caller looks its session up, or reserves another *)

LEMMA NewIs ==
    ASSUME NEW k \in Keys
    PROVE  /\ New(k) \in Objects /\ New(k).key = k /\ New(k).active = 0
           /\ New(k).told = <<>> /\ New(k).own = <<>> /\ New(k).delivered = <<>> /\ New(k).generated = <<>>
           /\ New(k).gate /\ ~New(k).retired
<1>1. /\ New(k) \in Objects /\ New(k).key = k /\ New(k).told = <<>> /\ New(k).own = <<>>
      /\ New(k).delivered = <<>> /\ New(k).generated = <<>> /\ New(k).active = 0
    BY BlankIs DEF New, Objects
<1>2. ~New(k).retired
    BY BlankIs DEF New, Objects
<1>3. New(k).gate
    BY BlankIs DEF New, Objects
<1> QED BY <1>1, <1>2, <1>3

\* A caller finds the session t under its key k, or makes it; it is then o.
Finds(c, k, t, o) ==
    /\ t \in Sids /\ o \in Objects
    /\ session' = [session EXCEPT ![t] = o] /\ sessions' = [sessions EXCEPT ![k] = t]
    /\ calls' = [calls EXCEPT ![c].pc = "wait", ![c].session = t, ![c].then = "done"]
    /\ o.key = k /\ o.active = session[t].active + 1 /\ ~o.retired
    /\ TranscriptIs(o) \/ \E d \in Callers : FixesIn(calls[d], t)
    /\ \A d \in Callers : UsesIn(calls[d], t) => o.key = session[t].key
    /\ \A d \in Callers : WorksIn(calls[d], t) =>
         /\ ~o.gate /\ o.told = session[t].told /\ o.own = session[t].own
         /\ o.delivered = session[t].delivered /\ o.generated = session[t].generated
    /\ ~o.gate => \E d \in Callers : WorksIn(calls[d], t)
    /\ t \notin doomed /\ \A d \in Callers : ~CleansIn(calls[d], t)
    /\ sessions[k] \in {0, t} /\ \A i \in Keys : sessions[i] = t => i = k

LEMMA FoundIs ==
    ASSUME ClaudeInv, NEW c \in Callers, Look(c), NEW k, k = calls[c].key
    PROVE  \E t, o : Finds(c, k, t, o)
<1>1. k \in Keys /\ sessions[k] \in 0..MaxSessions
    BY CallIs DEF ClaudeInv, ClaudeTypes
<1>2. CASE sessions[k] = 0
    <2>1. PICK t : t = CHOOSE n \in Unused : TRUE
        OBVIOUS
    <2>2. t \in Unused
        BY <1>2, <2>1 DEF Look
    <2>3. t \in Sids /\ session[t] = Blank /\ ~Live(t)
        BY <2>2 DEF Unused, Live
    <2>4. /\ session[t].active = 0 /\ ~InMap(t) /\ t \notin doomed
          /\ \A d \in Callers : ~UsesIn(calls[d], t) /\ ~CleansIn(calls[d], t)
        BY <2>3, UnusedFacts
    <2>5. PICK n : n = New(k)
        OBVIOUS
    <2>6. PICK o : o = [n EXCEPT !.active = @ + 1]
        OBVIOUS
    <2>7. o \in Objects /\ o.key = k /\ o.active = 1 /\ o.gate /\ ~o.retired /\ TranscriptIs(o)
        <3>1. /\ n \in Objects /\ n.key = k /\ n.active = 0 /\ n.told = <<>> /\ n.own = <<>>
              /\ n.delivered = <<>> /\ n.generated = <<>> /\ n.gate /\ ~n.retired
            BY <1>1, <2>5, NewIs
        <3>2. /\ o \in Objects /\ o.key = n.key /\ o.active = n.active + 1 /\ o.told = n.told /\ o.own = n.own
              /\ o.delivered = n.delivered /\ o.generated = n.generated
            BY <2>6, <3>1 DEF Objects
        <3>3. o.gate /\ ~o.retired
            BY <2>6, <3>1 DEF Objects
        <3> QED BY <3>1, <3>2, <3>3 DEF TranscriptIs
    <2>8. /\ session' = [session EXCEPT ![t] = o] /\ sessions' = [sessions EXCEPT ![k] = t]
          /\ calls' = [calls EXCEPT ![c].pc = "wait", ![c].session = t, ![c].then = "done"]
        BY <1>2, <2>1, <2>5, <2>6 DEF Look
    <2>9. \A d \in Callers : ~WorksIn(calls[d], t)
        BY <2>4 DEF UsesIn
    <2>10. sessions[k] \in {0, t} /\ \A i \in Keys : sessions[i] = t => i = k
        BY <1>2, <2>4 DEF InMap
    <2>11. Finds(c, k, t, o)
        BY <2>3, <2>4, <2>7, <2>8, <2>9, <2>10 DEF Finds
    <2> QED BY <2>11
<1>3. CASE sessions[k] # 0
    <2>1. PICK t : t = sessions[k]
        OBVIOUS
    <2>2. t \in Sids /\ InMap(t)
        BY <1>1, <1>3, <2>1, SidsAre DEF InMap
    <2>3. session[t] \in Objects /\ SessionIsSound(t) /\ session[t].active \in Nat
        BY <2>2, SessionIs
    <2>4. Live(t) /\ t \notin doomed /\ \A d \in Callers : ~CleansIn(calls[d], t)
        BY <2>2, MappedFacts
    <2>5. session[t].key = k /\ \A i \in Keys : sessions[i] = t => i = k
        BY <1>1, <2>1, <2>2, ClaudeInvIs DEF MapIsSound
    <2>6. PICK o : o = [session[t] EXCEPT !.active = @ + 1]
        OBVIOUS
    <2>7. /\ o \in Objects /\ o.active = session[t].active + 1 /\ o.key = session[t].key
          /\ o.told = session[t].told /\ o.own = session[t].own
          /\ o.delivered = session[t].delivered /\ o.generated = session[t].generated
        BY <2>3, <2>6 DEF Objects
    <2>8. (o.gate <=> session[t].gate) /\ (o.retired <=> session[t].retired)
        BY <2>3, <2>6 DEF Objects
    <2>9. ~session[t].retired
        BY <1>3, <2>1 DEF Look
    <2>10. /\ session' = [session EXCEPT ![t] = o] /\ sessions' = [sessions EXCEPT ![k] = t]
           /\ calls' = [calls EXCEPT ![c].pc = "wait", ![c].session = t, ![c].then = "done"]
        BY <1>3, <2>1, <2>6 DEF Look
    <2>11. TranscriptIs(o) \/ \E d \in Callers : FixesIn(calls[d], t)
        BY <2>3, <2>7, <2>9 DEF SessionIsSound, IsKept, TranscriptIs
    <2>12. \A d \in Callers : WorksIn(calls[d], t) => ~o.gate
        BY <2>3, <2>8 DEF SessionIsSound, GateIsHeld
    <2>13. ~o.gate => \E d \in Callers : WorksIn(calls[d], t)
        BY <2>3, <2>4, <2>8 DEF SessionIsSound, GateIsHeld
    <2>14. Finds(c, k, t, o)
        BY <2>1, <2>2, <2>4, <2>5, <2>7, <2>8, <2>9, <2>10, <2>11, <2>12, <2>13 DEF Finds
    <2> QED BY <2>14
<1> QED BY <1>2, <1>3

LEMMA LookKeeps ==
    ASSUME ClaudeInv, NEW c \in Callers, Look(c)
    PROVE  ClaudeInv'
<1>1. PICK x : x = calls[c]
    OBVIOUS
<1>2. PICK k : k = calls[c].key
    OBVIOUS
<1>3. PICK s, o : Finds(c, k, s, o)
    BY <1>2, FoundIs
<1>4. /\ s \in Sids /\ o \in Objects
      /\ session' = [session EXCEPT ![s] = o] /\ sessions' = [sessions EXCEPT ![k] = s]
      /\ calls' = [calls EXCEPT ![c].pc = "wait", ![c].session = s, ![c].then = "done"]
      /\ o.key = k /\ o.active = session[s].active + 1 /\ ~o.retired
      /\ TranscriptIs(o) \/ \E d \in Callers : FixesIn(calls[d], s)
      /\ \A d \in Callers : UsesIn(calls[d], s) => o.key = session[s].key
      /\ \A d \in Callers : WorksIn(calls[d], s) =>
           /\ ~o.gate /\ o.told = session[s].told /\ o.own = session[s].own
           /\ o.delivered = session[s].delivered /\ o.generated = session[s].generated
      /\ ~o.gate => \E d \in Callers : WorksIn(calls[d], s)
      /\ s \notin doomed /\ \A d \in Callers : ~CleansIn(calls[d], s)
      /\ sessions[k] \in {0, s} /\ \A i \in Keys : sessions[i] = s => i = k
    BY <1>3 DEF Finds
<1>5. x \in CallRecords /\ CallIsWhole(x) /\ x.pc = "look" /\ x.key = k /\ k \in Keys
    BY <1>1, <1>2, CallIs DEF Look, At
<1>6. x.fresh = 0 /\ ~x.answered /\ x.messages \in Requests
    BY <1>5 DEF CallIsWhole
<1>7. PICK y : y = [[[x EXCEPT !.pc = "wait"] EXCEPT !.session = s] EXCEPT !.then = "done"]
    OBVIOUS
<1>8. Turns(c, y)
    BY <1>1, <1>4, <1>7 DEF Turns, ClaudeInv, ClaudeTypes
<1>9. /\ y \in CallRecords /\ y.pc = "wait" /\ y.session = s /\ y.then = "done" /\ y.fresh = 0 /\ ~y.answered
      /\ y.key = k /\ y.messages \in Requests
    BY <1>4, <1>5, <1>6, <1>7, SidsAre DEF CallRecords, CallPcs, WorkPcs
<1>10. CallIsWhole(y)
    BY <1>4, <1>9 DEF CallIsWhole
<1>11. UsesIn(y, s) /\ ~WorksIn(y, s) /\ ~CleansIn(y, s) /\ ~FixesIn(y, s)
    BY <1>4, <1>9, SidsAre DEF UsesIn, WorksIn, CleansIn, FixesIn, WorkPcs
<1>12. \A t \in Sids : ~UsesIn(calls[c], t) /\ ~WorksIn(calls[c], t) /\ ~CleansIn(calls[c], t) /\ ~FixesIn(calls[c], t)
    BY <1>1, <1>5, <1>6, NoSession
<1>13. \A t \in Sids \ {s} : ~UsesIn(y, t) /\ ~WorksIn(y, t) /\ ~CleansIn(y, t) /\ ~FixesIn(y, t)
    BY <1>9, SidsAre DEF UsesIn, WorksIn, CleansIn, FixesIn
<1>14. sessions \in [Keys -> 0..MaxSessions] /\ session \in [Sids -> Objects]
    BY DEF ClaudeInv, ClaudeTypes
<1>15. /\ sessions' \in [Keys -> 0..MaxSessions]
       /\ \A i \in Keys : sessions'[i] = IF i = k THEN s ELSE sessions[i]
    BY <1>4, <1>5, <1>14, SidsAre
<1>16. InMap(s)' /\ \A t \in Sids \ {s} : InMap(t)' <=> InMap(t)
    BY <1>4, <1>5, <1>15, SidsAre DEF InMap
<1>17. \A t \in Sids : session'[t] = IF t = s THEN o ELSE session[t]
    BY <1>4, <1>14
<1>18. session[s].active \in Nat
    BY <1>4, SessionIs
<1>19. o.active # 0 /\ o # Blank
    BY <1>4, <1>18, BlankIs
<1>20. MapIsSound'
    <2> SUFFICES ASSUME NEW i \in Keys, NEW t \in Sids, sessions'[i] = t PROVE session'[t].key = i /\ session'[t] # Blank
        BY DEF MapIsSound, Live
    <2>1. CASE t = s
        BY <1>4, <1>15, <1>17, <1>19, <2>1
    <2>2. CASE t # s
        <3>1. sessions[i] = t
            BY <1>15, <2>2
        <3>2. session[t].key = i /\ Live(t)
            BY <3>1, ClaudeInvIs DEF MapIsSound
        <3> QED BY <1>17, <2>2, <3>2 DEF Live
    <2> QED BY <2>1, <2>2
<1>21. Fits(y, session')
    BY <1>4, <1>9, <1>17 DEF Fits
<1>22. \A t \in Sids \ {s} : /\ (InMap(t)' <=> InMap(t)) /\ SameIn(calls[c], y, t)
                             /\ UsesIn(y, t) <=> UsesIn(calls[c], t)
    BY <1>12, <1>13, <1>16 DEF SameIn
<1>23. o.active = IF UsesIn(y, s) /\ ~UsesIn(calls[c], s) THEN session[s].active + 1
                  ELSE IF ~UsesIn(y, s) /\ UsesIn(calls[c], s) THEN session[s].active - 1
                  ELSE session[s].active
    BY <1>4, <1>11, <1>12
<1>24. \A d \in Callers \ {c} : WorksIn(calls[d], s) =>
           /\ ~o.gate /\ ~WorksIn(y, s)
           /\ o.told = session[s].told /\ o.own = session[s].own
           /\ o.delivered = session[s].delivered /\ o.generated = session[s].generated
    BY <1>4, <1>11
<1>25. ~o.gate => \E d \in Callers \ {c} : WorksIn(calls[d], s)
    BY <1>4, <1>12
<1>26. TranscriptIs(o) \/ \E d \in Callers \ {c} : FixesIn(calls[d], s)
    BY <1>4, <1>12
<1>27. /\ s \in Sids /\ o \in Objects /\ ~o.retired /\ doomed' = doomed /\ s \notin doomed /\ \A d \in Callers \ {c} : ~CleansIn(calls[d], s)
       /\ session' = [session EXCEPT ![s] = o]
       /\ \A d \in Callers \ {c} : UsesIn(calls[d], s) => o.key = session[s].key
    BY <1>4 DEF Look
<1>28. Writes(c, y, s, o)
    BY <1>8, <1>9, <1>10, <1>11, <1>15, <1>16, <1>19, <1>20, <1>21, <1>22, <1>23, <1>24, <1>25, <1>26, <1>27
    DEF Writes
<1> QED BY <1>28, OneSession

LEMMA ReserveReplacementKeeps ==
    ASSUME ClaudeInv, NEW c \in Callers, ReserveReplacement(c)
    PROVE  ClaudeInv'
<1>1. PICK x : x = calls[c]
    OBVIOUS
<1>2. PICK s : s = x.session
    OBVIOUS
<1>3. PICK k : k = x.key
    OBVIOUS
<1>4. PICK f : f = CHOOSE n \in Unused : TRUE
    OBVIOUS
<1>5. x \in CallRecords /\ CallIsWhole(x) /\ Fits(x, session) /\ x.pc = "replace" /\ x.session = s /\ x.key = k /\ k \in Keys
    BY <1>1, <1>2, <1>3, CallIs DEF ReserveReplacement, At, CallIsSound
<1>6. s \in Sids /\ x.fresh = 0 /\ ~x.answered /\ ~x.resume /\ x.messages \in Requests
    BY <1>5 DEF CallIsWhole
<1>7. session[s].key = k /\ session[s] \in Objects
    BY <1>5, <1>6, SessionIs DEF Fits
<1>8. sessions[k] = s /\ f \in Unused
    BY <1>1, <1>2, <1>4, <1>7 DEF ReserveReplacement, Mapped
<1>9. f \in Sids /\ session[f] = Blank /\ ~Live(f)
    BY <1>8 DEF Unused, Live
<1>10. /\ session[f].active = 0 /\ ~InMap(f) /\ f \notin doomed
       /\ \A d \in Callers : ~UsesIn(calls[d], f) /\ ~CleansIn(calls[d], f) /\ ~WorksIn(calls[d], f)
    <2>1. \A d \in Callers : ~UsesIn(calls[d], f) /\ ~CleansIn(calls[d], f)
        BY <1>9, UnusedFacts
    <2>2. \A d \in Callers : ~WorksIn(calls[d], f)
        BY <2>1 DEF UsesIn
    <2> QED BY <1>9, <2>1, <2>2, UnusedFacts
<1>11. WorksIn(calls[c], s) /\ UsesIn(calls[c], s)
    BY <1>1, <1>5 DEF WorksIn, UsesIn, WorkPcs
<1>12. /\ s \notin doomed /\ \A d \in Callers : ~CleansIn(calls[d], s)
       /\ \A d \in Callers \ {c} : ~WorksIn(calls[d], s)
       /\ session[s].active # 0 /\ Live(s) /\ ~session[s].gate
    BY <1>6, <1>11, HolderIs
<1>13. f # s
    BY <1>9, <1>12
<1>14. PICK o : o = [session[s] EXCEPT !.retired = TRUE]
    OBVIOUS
<1>15. /\ o \in Objects /\ o.key = k /\ o.active = session[s].active /\ o.told = session[s].told
       /\ o.own = session[s].own /\ o.delivered = session[s].delivered /\ o.generated = session[s].generated
    BY <1>7, <1>14 DEF Objects
<1>16. o.retired /\ ~o.gate
    BY <1>7, <1>12, <1>14 DEF Objects
<1>17. PICK n : n = New(k)
    OBVIOUS
<1>18. PICK p : p = [[n EXCEPT !.gate = FALSE] EXCEPT !.active = 1]
    OBVIOUS
<1>19. /\ p \in Objects /\ p.key = k /\ p.active = 1 /\ ~p.gate /\ ~p.retired
       /\ p.told = <<>> /\ TranscriptIs(p) 
    <2>1. /\ n \in Objects /\ n.key = k /\ n.told = <<>> /\ n.own = <<>>
          /\ n.delivered = <<>> /\ n.generated = <<>> /\ ~n.retired
        BY <1>5, <1>17, NewIs
    <2>2. /\ p \in Objects /\ p.key = n.key /\ p.active = 1 /\ p.told = n.told /\ p.own = n.own
          /\ p.delivered = n.delivered /\ p.generated = n.generated
        BY <1>18, <2>1 DEF Objects
    <2>3. ~p.gate /\ ~p.retired
        BY <1>18, <2>1 DEF Objects
    <2> QED BY <2>1, <2>2, <2>3 DEF TranscriptIs
<1>20. p # Blank
    <2>1. p.active = 1 /\ Blank.active = 0
        BY <1>19, BlankIs
    <2>2. p = Blank => p.active = Blank.active
        BY Zenon
    <2> QED BY <2>1, <2>2
<1>21. session' = [[session EXCEPT ![s] = o] EXCEPT ![f] = p]
    <2>1. session' = [session EXCEPT ![s].retired = TRUE, ![f] = [New(k) EXCEPT !.gate = FALSE, !.active = 1]]
        BY <1>1, <1>2, <1>3, <1>4 DEF ReserveReplacement
    <2>2. [New(k) EXCEPT !.gate = FALSE, !.active = 1] = p
        BY <1>17, <1>18
    <2> QED BY <1>14, <2>1, <2>2
<1>22. sessions' = [sessions EXCEPT ![k] = f] /\ doomed' = doomed
    BY <1>1, <1>2, <1>3, <1>4 DEF ReserveReplacement
<1>23. PICK y : y = [[[x EXCEPT !.pc = "release"] EXCEPT !.then = "run"] EXCEPT !.fresh = f]
    OBVIOUS
<1>24. Turns(c, y)
    <2>1. calls' = [calls EXCEPT ![c].pc = "release", ![c].then = "run", ![c].fresh = f]
        BY <1>1, <1>2, <1>3, <1>4 DEF ReserveReplacement
    <2> QED BY <1>1, <1>23, <2>1 DEF Turns, ClaudeInv, ClaudeTypes
<1>25. /\ y \in CallRecords /\ y.pc = "release" /\ y.then = "run" /\ y.fresh = f /\ y.session = s
       /\ y.key = k /\ y.messages \in Requests /\ ~y.answered /\ ~y.resume
    BY <1>5, <1>6, <1>9, <1>23, SidsAre DEF CallRecords, CallPcs, WorkPcs
<1>26. CallIsWhole(y)
    BY <1>6, <1>9, <1>13, <1>25, SidsAre DEF CallIsWhole
<1>27. WorksIn(y, s) /\ UsesIn(y, s) /\ WorksIn(y, f) /\ UsesIn(y, f) /\ \A t \in Sids : ~CleansIn(y, t)
    BY <1>25 DEF WorksIn, UsesIn, CleansIn, WorkPcs
<1>28. \A t \in Sids \ {s, f} : SameIn(calls[c], y, t) /\ (UsesIn(y, t) <=> UsesIn(calls[c], t))
    BY <1>1, <1>5, <1>6, <1>25, SidsAre DEF SameIn, UsesIn, WorksIn, CleansIn, FixesIn
<1>29. ClaudeTypes /\ sessions \in [Keys -> 0..MaxSessions] /\ session \in [Sids -> Objects]
    BY DEF ClaudeInv, ClaudeTypes
<1>30. calls' \in [Callers -> CallRecords] /\ \A d \in Callers : calls'[d] = IF d = c THEN y ELSE calls[d]
    BY <1>24, <1>25, <1>29, CallsAfter
<1>31. /\ session' \in [Sids -> Objects]
       /\ \A t \in Sids : session'[t] = IF t = f THEN p ELSE IF t = s THEN o ELSE session[t]
    BY <1>6, <1>9, <1>15, <1>19, <1>21, <1>29
<1>32. /\ sessions' \in [Keys -> 0..MaxSessions]
       /\ \A i \in Keys : sessions'[i] = IF i = k THEN f ELSE sessions[i]
    BY <1>5, <1>9, <1>22, <1>29, SidsAre
<1>33. \A i \in Keys : sessions[i] = s => i = k
    BY <1>6, <1>7, ClaudeInvIs DEF MapIsSound
<1>34. InMap(f)' /\ ~InMap(s)' /\ \A t \in Sids \ {s, f} : InMap(t)' <=> InMap(t)
    BY <1>5, <1>8, <1>13, <1>32, <1>33 DEF InMap
<1>35. ClaudeTypes'
    BY <1>22, <1>26, <1>29, <1>30, <1>31, <1>32 DEF ClaudeTypes
<1>36. UsersAreCounted'
    <2>1. \A t \in Sids : session'[t].active =
               IF UsesIn(y, t) /\ ~UsesIn(calls[c], t) THEN session[t].active + 1
               ELSE IF ~UsesIn(y, t) /\ UsesIn(calls[c], t) THEN session[t].active - 1
               ELSE session[t].active
        <3> SUFFICES ASSUME NEW t \in Sids
                     PROVE  session'[t].active =
                               IF UsesIn(y, t) /\ ~UsesIn(calls[c], t) THEN session[t].active + 1
                               ELSE IF ~UsesIn(y, t) /\ UsesIn(calls[c], t) THEN session[t].active - 1
                               ELSE session[t].active
            OBVIOUS
        <3>1. CASE t = f
            BY <1>10, <1>19, <1>27, <1>31, <3>1
        <3>2. CASE t = s
            BY <1>11, <1>13, <1>15, <1>27, <1>31, <3>2
        <3>3. CASE t \notin {s, f}
            BY <1>28, <1>31, <3>3
        <3> QED BY <3>1, <3>2, <3>3
    <2> QED BY <1>24, <1>25, <2>1, CountedAfter
<1>37. MapIsSound'
    <2> SUFFICES ASSUME NEW i \in Keys, NEW t \in Sids, sessions'[i] = t PROVE session'[t].key = i /\ session'[t] # Blank
        BY DEF MapIsSound, Live
    <2>1. CASE i = k
        BY <1>9, <1>19, <1>20, <1>31, <1>32, <2>1
    <2>2. CASE i # k
        <3>1. sessions[i] = t
            BY <1>32, <2>2
        <3>2. session[t].key = i /\ Live(t) /\ t # s /\ t # f
            BY <1>10, <1>33, <2>2, <3>1, ClaudeInvIs DEF MapIsSound, InMap
        <3> QED BY <1>31, <3>2 DEF Live
    <2> QED BY <2>1, <2>2
<1>38. SessionIsSound(s)'
    <2>1. session'[s] = o
        BY <1>6, <1>13, <1>31
    <2>2. \A d \in Callers : WorksIn(calls'[d], s) <=> d = c
        BY <1>12, <1>27, <1>30
    <2>3. \A d \in Callers : ~CleansIn(calls'[d], s)
        BY <1>6, <1>12, <1>27, <1>30
    <2>4. GateIsHeld(s)'
        <3>1. /\ \A d \in Callers : WorksIn(calls'[d], s) => ~session'[s].gate
              /\ \A d, e \in Callers : WorksIn(calls'[d], s) /\ WorksIn(calls'[e], s) => d = e
              /\ Live(s)' /\ ~session'[s].gate => \E d \in Callers : WorksIn(calls'[d], s)
            BY <1>16, <2>1, <2>2
        <3> QED BY <3>1 DEF GateIsHeld, WorksIn
    <2>5. RemovalIsFinal(s)'
        <3>1. s \notin doomed'
            BY <1>12, <1>22
        <3> QED BY <2>3, <3>1 DEF RemovalIsFinal, CleansIn
    <2>6. IsReachable(s)'
        <3>1. session'[s].retired /\ session'[s].active # 0
            BY <1>12, <1>15, <1>16, <2>1
        <3> QED BY <3>1 DEF IsReachable
    <2>7. IsKept(s)'
        BY <1>16, <2>1 DEF IsKept
    <2> QED BY <2>4, <2>5, <2>6, <2>7 DEF SessionIsSound
<1>39. SessionIsSound(f)'
    <2>1. session'[f] = p
        BY <1>9, <1>31
    <2>2. \A d \in Callers : WorksIn(calls'[d], f) <=> d = c
        BY <1>10, <1>27, <1>30
    <2>3. \A d \in Callers : ~CleansIn(calls'[d], f)
        BY <1>9, <1>10, <1>27, <1>30
    <2>4. GateIsHeld(f)'
        <3>1. /\ \A d \in Callers : WorksIn(calls'[d], f) => ~session'[f].gate
              /\ \A d, e \in Callers : WorksIn(calls'[d], f) /\ WorksIn(calls'[e], f) => d = e
              /\ Live(f)' /\ ~session'[f].gate => \E d \in Callers : WorksIn(calls'[d], f)
            BY <1>19, <2>1, <2>2
        <3> QED BY <3>1 DEF GateIsHeld, WorksIn
    <2>5. RemovalIsFinal(f)'
        <3>1. f \notin doomed'
            BY <1>10, <1>22
        <3> QED BY <2>3, <3>1 DEF RemovalIsFinal, CleansIn
    <2>6. IsReachable(f)'
        <3>1. ~session'[f].retired
            BY <1>19, <2>1
        <3> QED BY <1>34, <3>1 DEF IsReachable
    <2>7. IsKept(f)'
        <3>1. TranscriptIs(session'[f])
            BY <1>19, <2>1
        <3> QED BY <3>1 DEF IsKept, TranscriptIs
    <2> QED BY <2>4, <2>5, <2>6, <2>7 DEF SessionIsSound
<1>40. \A d \in {c} : CallIsSound(d)'
    <2>1. Fits(y, session')
        <3>1. session'[f].key = k /\ session'[f].told = <<>>
            BY <1>9, <1>19, <1>31
        <3> QED BY <1>25, <3>1 DEF Fits
    <2>2. CallIsSound(c)' <=> Fits(y, session')
        BY <1>30 DEF CallIsSound
    <2> QED BY <2>1, <2>2
<1>41. \A t \in {s, f} : \A d \in Callers \ {c} : LeavesAlone(calls[d], t)
    <2> SUFFICES ASSUME NEW d \in Callers \ {c} PROVE LeavesAlone(calls[d], s) /\ LeavesAlone(calls[d], f)
        OBVIOUS
    <2>1. LeavesAlone(calls[d], f)
        BY <1>10 DEF LeavesAlone
    <2>2. session'[s].key = session[s].key
        BY <1>6, <1>7, <1>13, <1>15, <1>31
    <2>3. LeavesAlone(calls[d], s)
        BY <1>12, <2>2 DEF LeavesAlone
    <2> QED BY <2>1, <2>3
<1>42. \A t \in Sids \ {s, f} : /\ session'[t] = session[t] /\ (InMap(t)' <=> InMap(t))
                                /\ t \in doomed' <=> t \in doomed
                                /\ \A d \in {c} : SameIn(calls[d], calls'[d], t)
    BY <1>22, <1>28, <1>30, <1>31, <1>34
<1>43. {c} \in SUBSET Callers /\ {s, f} \in SUBSET Sids /\ \A d \in Callers \ {c} : calls'[d] = calls[d]
    BY <1>6, <1>9, <1>30
<1>44. \A t \in {s, f} : SessionIsSound(t)'
    BY <1>38, <1>39
<1> QED BY <1>35, <1>36, <1>37, <1>40, <1>41, <1>42, <1>43, <1>44, TouchingStep

-----------------------------------------------------------------------------
(* Steps that are no caller's *)

LEMMA CountedStays ==
    ASSUME ClaudeInv, calls' = calls, \A s \in Sids : session'[s].active = session[s].active
    PROVE  UsersAreCounted'
<1>1. \A s \in Sids : UsersOf(s)' = UsersOf(s)
    BY DEF UsersOf, UsesIn, WorksIn
<1> QED BY <1>1 DEF ClaudeInv, UsersAreCounted

\* The invariant of a session in a state with the same callers.
LEMMA SoundStays ==
    ASSUME calls' = calls, NEW s \in Sids,
           \A c \in Callers : WorksIn(calls[c], s) => ~session'[s].gate,
           \A c, d \in Callers : WorksIn(calls[c], s) /\ WorksIn(calls[d], s) => c = d,
           Live(s)' /\ ~session'[s].gate => \E c \in Callers : WorksIn(calls[c], s),
           s \in doomed' => session'[s].active = 0 /\ session'[s].retired /\ ~InMap(s)',
           \A c \in Callers : CleansIn(calls[c], s) =>
              session'[s].active = 0 /\ session'[s].retired /\ ~InMap(s)' /\ s \notin doomed',
           \A c, d \in Callers : CleansIn(calls[c], s) /\ CleansIn(calls[d], s) => c = d,
           Live(s)' /\ ~session'[s].retired => InMap(s)',
           session'[s].retired /\ session'[s].active = 0 => s \in doomed' \/ \E c \in Callers : CleansIn(calls[c], s),
           TranscriptIs(session'[s]) \/ session'[s].retired \/ \E c \in Callers : FixesIn(calls[c], s)
    PROVE  SessionIsSound(s)'
<1>1. GateIsHeld(s)'
    BY DEF GateIsHeld, WorksIn
<1>2. RemovalIsFinal(s)'
    BY DEF RemovalIsFinal, CleansIn
<1>3. IsReachable(s)'
    BY DEF IsReachable, CleansIn
<1>4. IsKept(s)'
    BY DEF IsKept, FixesIn, TranscriptIs
<1> QED BY <1>1, <1>2, <1>3, <1>4 DEF SessionIsSound

\* A step that leaves the callers alone and touches the sessions T.
LEMMA OthersStep ==
    ASSUME ClaudeInv, calls' = calls, NEW T \in SUBSET Sids,
           sessions' \in [Keys -> 0..MaxSessions], session' \in [Sids -> Objects], doomed' \in SUBSET Sids,
           MapIsSound',
           \A s \in Sids : session'[s].active = session[s].active,
           \A s \in Sids \ T : /\ session'[s] = session[s] /\ (InMap(s)' <=> InMap(s))
                               /\ s \in doomed' <=> s \in doomed,
           \A s \in T : SessionIsSound(s)',
           \A s \in T : \A d \in Callers : LeavesAlone(calls[d], s)
    PROVE  ClaudeInv'
<1>1. ClaudeTypes'
    BY DEF ClaudeInv, ClaudeTypes
<1>2. UsersAreCounted'
    BY CountedStays
<1>3. {} \in SUBSET Callers /\ \A d \in Callers \ {} : calls'[d] = calls[d]
    OBVIOUS
<1>4. \A s \in T : \A d \in Callers \ {} : LeavesAlone(calls[d], s)
    OBVIOUS
<1>5. \A s \in Sids \ T : /\ session'[s] = session[s] /\ (InMap(s)' <=> InMap(s))
                          /\ s \in doomed' <=> s \in doomed
                          /\ \A c \in {} : SameIn(calls[c], calls'[c], s)
    OBVIOUS
<1>6. \A c \in {} : CallIsSound(c)'
    OBVIOUS
<1> QED BY <1>1, <1>2, <1>3, <1>4, <1>5, <1>6, TouchingStep

\* Of the mapped sessions R, which are retired, the ones nobody uses leave the map.
LEMMA DropKeeps ==
    ASSUME ClaudeInv, calls' = calls, NEW R \in SUBSET Sids, NEW S,
           S = {s \in R : session[s].active = 0}, \A s \in R : Mapped(s), Drop(S),
           session' = [s \in Sids |-> [session[s] EXCEPT !.retired = @ \/ s \in R]]
    PROVE  ClaudeInv'
<1>1. S \subseteq R
    OBVIOUS
<1>2. \A k \in Keys : sessions'[k] = IF sessions[k] \in S THEN 0 ELSE sessions[k]
    BY DEF Drop
<1>3. sessions' \in [Keys -> 0..MaxSessions]
    <2>1. \A k \in Keys : sessions[k] \in 0..MaxSessions
        BY DEF ClaudeInv, ClaudeTypes
    <2> QED BY <2>1, SidsAre DEF Drop
<1>4. doomed' = doomed \union S /\ doomed \in SUBSET Sids
    BY DEF Drop, ClaudeInv, ClaudeTypes
<1>5. \A s \in Sids : InMap(s)' <=> InMap(s) /\ s \notin S
    BY <1>2, SidsAre DEF InMap
<1>6. \A s \in Sids : /\ session'[s] \in Objects
                      /\ session'[s].key = session[s].key /\ session'[s].active = session[s].active
                      /\ session'[s].told = session[s].told /\ session'[s].own = session[s].own
                      /\ session'[s].delivered = session[s].delivered /\ session'[s].generated = session[s].generated
                      /\ (session'[s].gate <=> session[s].gate)
                      /\ (session'[s].retired <=> (session[s].retired \/ s \in R))
                      /\ (s \notin R => session'[s] = session[s])
    <2> SUFFICES ASSUME NEW s \in Sids
                 PROVE /\ session'[s] \in Objects
                       /\ session'[s].key = session[s].key /\ session'[s].active = session[s].active
                       /\ session'[s].told = session[s].told /\ session'[s].own = session[s].own
                       /\ session'[s].delivered = session[s].delivered /\ session'[s].generated = session[s].generated
                       /\ (session'[s].gate <=> session[s].gate)
                       /\ (session'[s].retired <=> (session[s].retired \/ s \in R))
                       /\ (s \notin R => session'[s] = session[s])
        OBVIOUS
    <2>1. PICK r \in BOOLEAN : r = (session[s].retired \/ s \in R)
        OBVIOUS
    <2>2. PICK o : o = session[s]
        OBVIOUS
    <2>3. o \in Objects
        BY <2>2, SessionIs
    <2>4. PICK q : q = [o EXCEPT !.retired = r]
        OBVIOUS
    <2>5. session'[s] = q
        BY <2>1, <2>2, <2>4
    <2>6. /\ q \in Objects /\ q.key = o.key /\ q.active = o.active /\ q.told = o.told /\ q.own = o.own
          /\ q.delivered = o.delivered /\ q.generated = o.generated
        BY <2>3, <2>4 DEF Objects
    <2>7. (q.gate <=> o.gate) /\ (q.retired <=> r)
        BY <2>3, <2>4 DEF Objects
    <2>8. s \notin R => q = o
        <3> HAVE s \notin R
        <3>1. o.retired \in BOOLEAN
            BY <2>3 DEF Objects
        <3>2. r = o.retired
            BY <2>1, <2>2, <3>1
        <3> QED BY <2>3, <2>4, <3>2 DEF Objects
    <2> QED BY <2>1, <2>2, <2>5, <2>6, <2>7, <2>8
<1>7. \A s \in R : InMap(s) /\ Live(s) /\ s \notin doomed /\ \A d \in Callers : ~CleansIn(calls[d], s)
    BY MappedIs, MappedFacts
<1>8. \A s \in Sids : Live(s)' <=> Live(s)
    <2> SUFFICES ASSUME NEW s \in Sids PROVE session'[s] # Blank <=> session[s] # Blank
        BY DEF Live
    <2>1. CASE s \in R
        BY <1>6, <1>7, <2>1, BlankIs DEF Live
    <2>2. CASE s \notin R
        BY <1>6, <2>2
    <2> QED BY <2>1, <2>2
<1>9. \A s \in Sids : SessionIsSound(s)'
    <2> SUFFICES ASSUME NEW s \in Sids PROVE SessionIsSound(s)'
        OBVIOUS
    <2>1. SessionIsSound(s)
        BY SessionIs
    <2>2. GateIsHeld(s) /\ RemovalIsFinal(s) /\ IsReachable(s) /\ IsKept(s)
        BY <2>1 DEF SessionIsSound
    <2>3. /\ \A c \in Callers : WorksIn(calls[c], s) => ~session'[s].gate
          /\ \A c, d \in Callers : WorksIn(calls[c], s) /\ WorksIn(calls[d], s) => c = d
          /\ Live(s)' /\ ~session'[s].gate => \E c \in Callers : WorksIn(calls[c], s)
        BY <1>6, <1>8, <2>2 DEF GateIsHeld
    <2>4. s \in doomed' => session'[s].active = 0 /\ session'[s].retired /\ ~InMap(s)'
        BY <1>4, <1>5, <1>6, <2>2 DEF RemovalIsFinal
    <2>5. /\ \A c \in Callers : CleansIn(calls[c], s) =>
               session'[s].active = 0 /\ session'[s].retired /\ ~InMap(s)' /\ s \notin doomed'
          /\ \A c, d \in Callers : CleansIn(calls[c], s) /\ CleansIn(calls[d], s) => c = d
        BY <1>1, <1>4, <1>5, <1>6, <1>7, <2>2 DEF RemovalIsFinal
    <2>6. Live(s)' /\ ~session'[s].retired => InMap(s)'
        BY <1>1, <1>5, <1>6, <1>8, <2>2 DEF IsReachable
    <2>7. session'[s].retired /\ session'[s].active = 0 => s \in doomed' \/ \E c \in Callers : CleansIn(calls[c], s)
        BY <1>4, <1>6, <2>2 DEF IsReachable
    <2>8. TranscriptIs(session'[s]) \/ session'[s].retired \/ \E c \in Callers : FixesIn(calls[c], s)
        BY <1>6, <2>2 DEF IsKept, TranscriptIs
    <2> QED BY <2>3, <2>4, <2>5, <2>6, <2>7, <2>8, SoundStays
<1>10. MapIsSound'
    <2> SUFFICES ASSUME NEW k \in Keys, NEW s \in Sids, sessions'[k] = s PROVE session'[s].key = k /\ Live(s)'
        BY DEF MapIsSound
    <2>1. sessions[k] = s
        BY <1>2, SidsAre
    <2> QED BY <1>6, <1>8, <2>1, ClaudeInvIs DEF MapIsSound
<1>11. session' \in [Sids -> Objects]
    BY <1>6
<1>12. \A s \in Sids : \A d \in Callers : LeavesAlone(calls[d], s)
    BY <1>6 DEF LeavesAlone
<1>13. doomed' \in SUBSET Sids /\ Sids \in SUBSET Sids /\ \A s \in Sids : session'[s].active = session[s].active
    BY <1>4, <1>6
<1> QED BY <1>3, <1>9, <1>10, <1>11, <1>12, <1>13, OthersStep

LEMMA CollectKeeps == ASSUME ClaudeInv, Collect PROVE ClaudeInv'
<1>1. PICK S \in SUBSET {s \in Sids : Mapped(s) /\ session[s].active = 0} :
        Drop(S) /\ session' = [s \in Sids |-> [session[s] EXCEPT !.retired = @ \/ s \in S]]
    BY DEF Collect
<1>2. calls' = calls
    BY DEF Collect
<1>3. S \in SUBSET Sids /\ S = {s \in S : session[s].active = 0} /\ \A s \in S : Mapped(s)
    OBVIOUS
<1> QED BY <1>1, <1>2, <1>3, DropKeeps

LEMMA RemoveConversationKeeps == ASSUME ClaudeInv, NEW K, RemoveConversation(K) PROVE ClaudeInv'
<1>1. PICK R : R = {s \in Sids : Mapped(s) /\ session[s].key \in K}
    OBVIOUS
<1>2. PICK S : S = {s \in R : session[s].active = 0}
    OBVIOUS
<1>3. S = {s \in Sids : Mapped(s) /\ session[s].key \in K /\ session[s].active = 0}
    BY <1>1, <1>2
<1>4. Drop(S)
    BY <1>3 DEF RemoveConversation
<1>5. session' = [s \in Sids |-> [session[s] EXCEPT !.retired = @ \/ s \in R]]
    <2>1. \A s \in Sids : (Mapped(s) /\ session[s].key \in K) = (s \in R)
        BY <1>1
    <2>2. session' = [s \in Sids |-> [session[s] EXCEPT !.retired = @ \/ (Mapped(s) /\ session[s].key \in K)]]
        BY DEF RemoveConversation
    <2> QED BY <2>1, <2>2
<1>6. calls' = calls /\ R \in SUBSET Sids /\ \A s \in R : Mapped(s)
    BY <1>1 DEF RemoveConversation
<1> QED BY <1>2, <1>4, <1>5, <1>6, DropKeeps

\* Stop, when no request is left.
LEMMA RemoveAllKeeps ==
    ASSUME ClaudeInv, RemoveAll, \A c \in Callers : calls[c].pc = "idle"
    PROVE  ClaudeInv' /\ \A k \in Keys : sessions'[k] = 0
<1>1. PICK R : R = {s \in Sids : Mapped(s)}
    OBVIOUS
<1>2. \A s \in Sids : session[s].active = 0
    <2> SUFFICES ASSUME NEW s \in Sids PROVE session[s].active = 0
        OBVIOUS
    <2>1. \A c \in Callers : calls[c].fresh = 0
        BY CallIs DEF CallIsWhole
    <2>2. UsersOf(s) = {}
        BY <2>1, NoSession DEF UsersOf
    <2> QED BY <2>2, SessionIs, FS_EmptySet
<1>3. R = {s \in R : session[s].active = 0}
    BY <1>1, <1>2
<1>4. Drop(R)
    BY <1>1 DEF RemoveAll
<1>5. session' = [s \in Sids |-> [session[s] EXCEPT !.retired = @ \/ s \in R]]
    <2>1. \A s \in Sids : Mapped(s) = (s \in R)
        BY <1>1 DEF Mapped
    <2>2. session' = [s \in Sids |-> [session[s] EXCEPT !.retired = @ \/ Mapped(s)]]
        BY DEF RemoveAll
    <2> QED BY <2>1, <2>2
<1>6. calls' = calls /\ R \in SUBSET Sids /\ \A s \in R : Mapped(s)
    BY <1>1 DEF RemoveAll
<1>7. ClaudeInv'
    BY <1>3, <1>4, <1>5, <1>6, DropKeeps
<1>8. ASSUME NEW k \in Keys PROVE sessions'[k] = 0
    <2>1. sessions[k] \in 0..MaxSessions
        BY DEF ClaudeInv, ClaudeTypes
    <2>2. sessions[k] # 0 => sessions[k] \in R
        <3> HAVE sessions[k] # 0
        <3>1. sessions[k] \in Sids /\ InMap(sessions[k])
            BY <2>1, SidsAre DEF InMap
        <3> QED BY <1>1, <3>1, MappedIs
    <2> QED BY <1>4, <2>2 DEF Drop
<1> QED BY <1>7, <1>8

LEMMA RemoveDirectoryKeeps ==
    ASSUME ClaudeInv, NEW s \in Sids, RemoveDirectory(s)
    PROVE  ClaudeInv'
<1>1. s \in doomed /\ doomed' = doomed \ {s} /\ sessions' = sessions /\ calls' = calls
    BY DEF RemoveDirectory
<1>2. sessions \in [Keys -> 0..MaxSessions] /\ session \in [Sids -> Objects] /\ doomed \in SUBSET Sids
    BY DEF ClaudeInv, ClaudeTypes
<1>3. \A t \in Sids : session'[t] = IF t = s THEN Blank ELSE session[t]
    BY <1>2 DEF RemoveDirectory
<1>4. session' \in [Sids -> Objects]
    BY <1>2, BlankIs DEF RemoveDirectory
<1>5. session[s].active = 0 /\ ~InMap(s) /\ \A d \in Callers : ~CleansIn(calls[d], s)
    BY <1>1, SessionIs DEF SessionIsSound, RemovalIsFinal
<1>6. \A d \in Callers : ~UsesIn(calls[d], s) /\ ~WorksIn(calls[d], s)
    <2>1. \A d \in Callers : ~UsesIn(calls[d], s)
        BY <1>5, UsedFacts
    <2> QED BY <2>1 DEF UsesIn
<1>7. \A t : InMap(t)' <=> InMap(t)
    BY <1>1 DEF InMap
<1>8. MapIsSound'
    <2> SUFFICES ASSUME NEW k \in Keys, NEW t \in Sids, sessions[k] = t PROVE session'[t].key = k /\ session'[t] # Blank
        BY <1>1 DEF MapIsSound, Live
    <2>1. t # s /\ session[t].key = k /\ Live(t)
        BY <1>5, ClaudeInvIs DEF InMap, MapIsSound
    <2> QED BY <1>3, <2>1 DEF Live
<1>9. SessionIsSound(s)'
    <2>1. session'[s] = Blank
        BY <1>3
    <2>2. ~Live(s)' /\ s \notin doomed'
        BY <1>1, <2>1 DEF Live
    <2>3. TranscriptIs(session'[s])
        BY <2>1, BlankIs DEF TranscriptIs
    <2>4. ~session'[s].retired
        BY <2>1, BlankIs
    <2> QED BY <1>1, <1>5, <1>6, <2>2, <2>3, <2>4, SoundStays
<1>10. \A t \in Sids : session'[t].active = session[t].active
    BY <1>3, <1>5, BlankIs
<1>11. \A t \in {s} : \A d \in Callers : LeavesAlone(calls[d], t)
    BY <1>5, <1>6 DEF LeavesAlone
<1>12. \A t \in Sids \ {s} : /\ session'[t] = session[t] /\ (InMap(t)' <=> InMap(t))
                             /\ t \in doomed' <=> t \in doomed
    BY <1>1, <1>3, <1>7
<1>13. /\ {s} \in SUBSET Sids /\ sessions' \in [Keys -> 0..MaxSessions] /\ doomed' \in SUBSET Sids
       /\ \A t \in {s} : SessionIsSound(t)'
    BY <1>1, <1>2, <1>9
<1> QED BY <1>1, <1>4, <1>8, <1>10, <1>11, <1>12, <1>13, OthersStep

LEMMA DirectoryVanishesKeeps ==
    ASSUME ClaudeInv, NEW s \in Sids, DirectoryVanishes(s)
    PROVE  ClaudeInv'
<1>1. Mapped(s) /\ session[s].active = 0 /\ doomed' = doomed /\ sessions' = sessions /\ calls' = calls
    BY DEF DirectoryVanishes
<1>2. sessions \in [Keys -> 0..MaxSessions] /\ session \in [Sids -> Objects] /\ doomed \in SUBSET Sids
    BY DEF ClaudeInv, ClaudeTypes
<1>3. session[s] \in Objects /\ SessionIsSound(s)
    BY SessionIs
<1>4. PICK o : o = [session[s] EXCEPT !.directory = FALSE]
    OBVIOUS
<1>5. /\ o \in Objects /\ o.active = session[s].active /\ o.key = session[s].key
      /\ o.told = session[s].told /\ o.own = session[s].own
      /\ o.delivered = session[s].delivered /\ o.generated = session[s].generated
    BY <1>3, <1>4 DEF Objects
<1>6. (o.gate <=> session[s].gate) /\ (o.retired <=> session[s].retired)
    BY <1>3, <1>4 DEF Objects
<1>7. \A t \in Sids : session'[t] = IF t = s THEN o ELSE session[t]
    BY <1>2, <1>4 DEF DirectoryVanishes
<1>8. session' \in [Sids -> Objects]
    BY <1>2, <1>4, <1>5 DEF DirectoryVanishes
<1>9. InMap(s) /\ Live(s) /\ s \notin doomed /\ \A d \in Callers : ~CleansIn(calls[d], s)
    BY <1>1, MappedIs, MappedFacts
<1>10. \A d \in Callers : ~UsesIn(calls[d], s) /\ ~WorksIn(calls[d], s)
    <2>1. \A d \in Callers : ~UsesIn(calls[d], s)
        BY <1>1, UsedFacts
    <2> QED BY <2>1 DEF UsesIn
<1>11. o.gate /\ o # Blank
    <2>1. session[s].gate
        BY <1>3, <1>9, <1>10 DEF SessionIsSound, GateIsHeld
    <2> QED BY <1>6, <2>1, BlankIs
<1>12. \A t : InMap(t)' <=> InMap(t)
    BY <1>1 DEF InMap
<1>13. MapIsSound'
    <2>1. session' = [session EXCEPT ![s] = o]
        BY <1>4 DEF DirectoryVanishes
    <2>2. \A k \in Keys, t \in Sids : sessions'[k] = t => sessions[k] = t
        BY <1>1
    <2>3. o.key = session[s].key /\ o # Blank
        BY <1>5, <1>11
    <2> QED BY <2>1, <2>2, <2>3, MapAfter
<1>14. SessionIsSound(s)'
    <2>1. session'[s] = o
        BY <1>7
    <2>2. s \notin doomed' /\ InMap(s)'
        BY <1>1, <1>9, <1>12
    <2>3. session'[s].gate
        BY <1>11, <2>1
    <2>4. ~session'[s].retired
        BY <1>1, <1>3, <1>6, <1>9, <2>1 DEF SessionIsSound, IsReachable
    <2>5. TranscriptIs(session'[s]) \/ session'[s].retired \/ \E c \in Callers : FixesIn(calls[c], s)
        BY <1>3, <1>5, <1>6, <2>1 DEF SessionIsSound, IsKept, TranscriptIs
    <2> QED BY <1>1, <1>9, <1>10, <2>2, <2>3, <2>4, <2>5, SoundStays
<1>15. \A t \in Sids : session'[t].active = session[t].active
    BY <1>5, <1>7
<1>16. \A t \in {s} : \A d \in Callers : LeavesAlone(calls[d], t)
    BY <1>5, <1>7 DEF LeavesAlone
<1>17. \A t \in Sids \ {s} : /\ session'[t] = session[t] /\ (InMap(t)' <=> InMap(t))
                             /\ t \in doomed' <=> t \in doomed
    BY <1>1, <1>7, <1>12
<1>18. /\ {s} \in SUBSET Sids /\ sessions' \in [Keys -> 0..MaxSessions] /\ doomed' \in SUBSET Sids
       /\ \A t \in {s} : SessionIsSound(t)'
    BY <1>1, <1>2, <1>14
<1> QED BY <1>1, <1>8, <1>13, <1>15, <1>16, <1>17, <1>18, OthersStep

LEMMA ClaudeStutters ==
    ASSUME ClaudeInv, UNCHANGED <<sessions, session, calls, doomed>>
    PROVE  ClaudeInv'
<1>1. sessions' = sessions /\ session' = session /\ calls' = calls /\ doomed' = doomed
    OBVIOUS
<1>2. ClaudeTypes' /\ UsersAreCounted' /\ GatesAreHeld'
    BY <1>1 DEF ClaudeInv, ClaudeTypes, UsersAreCounted, UsersOf, GatesAreHeld, Live
<1>3. KeysAreKept' /\ RemovalsAreFinal' /\ LiveIsReachable' /\ TranscriptsAreKept'
    BY <1>1 DEF ClaudeInv, KeysAreKept, Live, RemovalsAreFinal, InMap, LiveIsReachable, TranscriptsAreKept
<1> QED BY <1>2, <1>3 DEF ClaudeInv

LEMMA ClaudeNext ==
    ASSUME ClaudeInv, ClaudeStep
    PROVE  ClaudeInv'
<1>1. ASSUME NEW c \in Callers, CallStep(c)
      PROVE  ClaudeInv'
    <2>1. ASSUME NEW a \in Answers, CLISucceeds(c, a)
          PROVE  ClaudeInv'
        BY <2>1, CLISucceedsKeeps
    <2> QED BY <1>1, <2>1, LookKeeps, LookFailsKeeps, TakeGateKeeps, StaleKeeps, DecideKeeps,
               ReserveReplacementKeeps, ReplacementFailsKeeps, CLIFailsKeeps, RetireKeeps, ReleaseKeeps,
               CleanUpKeeps DEF CallStep
<1>2. ASSUME NEW c \in Callers, GiveUp(c)
      PROVE  ClaudeInv'
    BY <1>2, GiveUpKeeps
<1>3. CASE Collect
    BY <1>3, CollectKeeps
<1>4. ASSUME NEW s \in Sids, RemoveDirectory(s) \/ DirectoryVanishes(s)
      PROVE  ClaudeInv'
    BY <1>4, RemoveDirectoryKeeps, DirectoryVanishesKeeps
<1> QED BY <1>1, <1>2, <1>3, <1>4 DEF ClaudeStep

-----------------------------------------------------------------------------
(* HarnessGateway *)

\* What Close has reached: no request is left, then no session is mapped, then
\* no directory is being removed, then the processes have ended.
CloseInv ==
    /\ phase \in {"open", "stopping", "waited", "sessions", "codex", "closed"}
    /\ phase \notin {"open", "stopping"} => /\ \A c \in Callers : calls[c].pc = "idle"
                                            /\ \A c \in Clients : clients[c].pc = "idle"
    /\ phase \in {"sessions", "codex", "closed"} => \A k \in Keys : sessions[k] = 0
    /\ phase \in {"codex", "closed"} => doomed = {}
    /\ phase = "closed" => base = "closed" /\ \A p \in waitFor : process[p].life = "gone"

HarnessInv == ClaudeInv /\ CodexInv /\ CloseInv

LEMMA HarnessStart == HarnessInit => HarnessInv
<1> SUFFICES ASSUME HarnessInit PROVE HarnessInv
    OBVIOUS
<1>1. CloseInv
    BY DEF HarnessInit, CloseInv
<1> QED BY <1>1, ClaudeStart, CodexStart DEF HarnessInit, HarnessInv

\* Who has no request does nothing.
LEMMA IdleCallers ==
    ASSUME NEW c \in Callers, calls[c].pc = "idle", CallStep(c) \/ GiveUp(c)
    PROVE  FALSE
BY DEF CallStep, GiveUp, Look, LookFails, TakeGate, Stale, Decide, ReserveReplacement, ReplacementFails,
       CLIFails, CLISucceeds, Retire, Release, CleanUp, At

LEMMA IdleClients ==
    ASSUME NEW c \in Clients, clients[c].pc = "idle",
           LockStep(c) \/ ClientStep(c) \/ \E e \in Notifications : AppServerSays(c, e)
    PROVE  FALSE
BY DEF LockStep, ClientStep, Join, Launch, AcquireFails, ReleaseProcess, HandshakeDone, HandshakeFails, Reap,
       StartThread, StartTurn, RPCFails, TakeEvent, TurnCompletes, CollectFails, AppServerSays, Doing

LEMMA ClaudeCloses ==
    ASSUME HarnessInv, ClaudeStep, UNCHANGED <<codexVars, gatewayVars>>
    PROVE  CloseInv'
<1>1. /\ clients' = clients /\ base' = base /\ waitFor' = waitFor /\ process' = process /\ phase' = phase
    BY DEF codexVars, gatewayVars
<1>2. CASE phase \in {"open", "stopping"}
    BY <1>1, <1>2 DEF CloseInv
<1>3. CASE phase \notin {"open", "stopping"}
    <2>1. \A c \in Callers : calls[c].pc = "idle"
        BY <1>3 DEF HarnessInv, CloseInv
    <2>2. Collect \/ \E s \in Sids : RemoveDirectory(s) \/ DirectoryVanishes(s)
        BY <2>1, IdleCallers DEF ClaudeStep
    <2>3. calls' = calls
        BY <2>2 DEF Collect, RemoveDirectory, DirectoryVanishes
    <2>4. phase \in {"sessions", "codex", "closed"} => ~Collect
        <3> SUFFICES ASSUME phase \in {"sessions", "codex", "closed"}, Collect PROVE FALSE
            OBVIOUS
        <3>1. PICK s \in Sids : Mapped(s)
            BY DEF Collect
        <3>2. session[s].key \in Keys
            BY SessionIs DEF HarnessInv
        <3> QED BY <3>1, <3>2, SidsAre DEF HarnessInv, CloseInv, Mapped
    <2>5. phase \in {"sessions", "codex", "closed"} => \A k \in Keys : sessions'[k] = 0
        BY <2>2, <2>4 DEF HarnessInv, CloseInv, RemoveDirectory, DirectoryVanishes
    <2>6. phase \in {"codex", "closed"} => doomed' = {}
        BY <2>2, <2>4 DEF HarnessInv, CloseInv, RemoveDirectory, DirectoryVanishes
    <2> QED BY <1>1, <2>1, <2>3, <2>5, <2>6 DEF HarnessInv, CloseInv
<1> QED BY <1>2, <1>3

LEMMA CodexCloses ==
    ASSUME HarnessInv, CodexStep, UNCHANGED <<claudeVars, gatewayVars>>
    PROVE  CloseInv'
<1>1. calls' = calls /\ sessions' = sessions /\ doomed' = doomed /\ phase' = phase
    BY DEF claudeVars, gatewayVars
<1>2. CASE phase \in {"open", "stopping"}
    BY <1>1, <1>2 DEF CloseInv
<1>3. CASE phase \notin {"open", "stopping"}
    <2>1. \A c \in Clients : clients[c].pc = "idle"
        BY <1>3 DEF HarnessInv, CloseInv
    <2>2. \E p \in Pids : \/ AppServerOverflows(p) \/ AppServerStopsReading(p)
                         \/ ProcessExits(p) \/ RemoveHome(p)
        BY <2>1, IdleClients DEF CodexStep
    <2>3. clients' = clients /\ base # "closed"
        BY <2>2 DEF othersOfProcess, AppServerOverflows, AppServerStopsReading, ProcessExits, RemoveHome
    <2>4. phase # "closed"
        BY <2>3 DEF HarnessInv, CloseInv
    <2> QED BY <1>1, <2>1, <2>3, <2>4 DEF HarnessInv, CloseInv
<1> QED BY <1>2, <1>3

LEMMA CodexStutters ==
    ASSUME CodexInv, UNCHANGED codexVars
    PROVE  CodexInv'
<1>1. processes' = processes /\ process' = process /\ mutex' = mutex /\ clients' = clients /\ base' = base
    BY DEF codexVars
<1> QED BY <1>1 DEF CodexInv, CodexTypes, UsersCounted, StartsAreExclusive, PoolIsSound, Users, Pooled, Starting

LEMMA ClaudeRests ==
    ASSUME ClaudeInv, UNCHANGED claudeVars
    PROVE  ClaudeInv'
BY ClaudeStutters DEF claudeVars

\* The steps of Close.
LEMMA CloseKeeps ==
    ASSUME HarnessInv, Close \/ BeginShutdown
    PROVE  HarnessInv'
<1>1. CASE BeginShutdown
    <2>1. UNCHANGED claudeVars /\ UNCHANGED codexVars /\ phase' = "stopping"
        BY <1>1 DEF BeginShutdown
    <2>2. CloseInv'
        BY <2>1 DEF CloseInv
    <2> QED BY <2>1, <2>2, ClaudeRests, CodexStutters DEF HarnessInv
<1>2. CASE WaitForRequests
    <2>1. UNCHANGED claudeVars /\ UNCHANGED codexVars /\ phase' = "waited" /\ ~Requested
        BY <1>2 DEF WaitForRequests
    <2>2. \A c \in Callers : calls[c].pc = "idle"
        BY <2>1 DEF Requested, At
    <2>3. \A c \in Clients : clients[c].pc = "idle"
        BY <2>1 DEF Requested, Doing
    <2>4. CloseInv'
        BY <2>1, <2>2, <2>3 DEF CloseInv, claudeVars, codexVars
    <2> QED BY <2>1, <2>4, ClaudeRests, CodexStutters DEF HarnessInv
<1>3. CASE StopSessions
    <2>1. phase = "waited" /\ UNCHANGED codexVars
        BY <1>3 DEF StopSessions
    <2>2. \A c \in Callers : calls[c].pc = "idle"
        BY <2>1 DEF HarnessInv, CloseInv
    <2>3. \A c \in Clients : clients[c].pc = "idle" /\ clients' = clients
        BY <2>1 DEF HarnessInv, CloseInv, codexVars
    <2>4. CASE StopCollector /\ UNCHANGED phase
        <3>1. UNCHANGED <<sessions, session, calls, doomed>>
            BY <2>4 DEF StopCollector
        <3>2. CloseInv'
            BY <2>1, <2>2, <2>3, <2>4, <3>1 DEF CloseInv
        <3> QED BY <2>1, <3>1, <3>2, ClaudeStutters, CodexStutters DEF HarnessInv
    <2>5. CASE RemoveAll /\ phase' = "sessions"
        <3>1. ClaudeInv' /\ \A k \in Keys : sessions'[k] = 0
            BY <2>2, <2>5, RemoveAllKeeps DEF HarnessInv
        <3>2. calls' = calls
            BY <2>5 DEF RemoveAll
        <3>3. CloseInv'
            BY <2>2, <2>3, <2>5, <3>1, <3>2 DEF CloseInv
        <3> QED BY <2>1, <3>1, <3>3, CodexStutters DEF HarnessInv
    <2> QED BY <1>3, <2>4, <2>5 DEF StopSessions
<1>4. CASE CloseCodex
    <2>1. UNCHANGED claudeVars
        BY <1>4 DEF CloseCodex
    <2>2. CancelBase \/ TakeProcesses \/ CodexClosed
        BY <1>4 DEF CloseCodex
    <2>3. CodexInv'
        BY <2>2, ClosingCodex DEF HarnessInv
    <2>4. clients' = clients
        BY <2>2 DEF CancelBase, TakeProcesses, CodexClosed
    <2>5. /\ phase \in {"sessions", "codex"} /\ doomed = {}
          /\ phase' = "codex" \/ (phase' = "closed" /\ base' = "closed" /\ waitFor' = waitFor /\ process' = process
                                   /\ \A p \in waitFor : process[p].life = "gone")
        BY <1>4 DEF CloseCodex, CodexClosed, HarnessInv, CloseInv, gatewayVars
    <2>6. CloseInv'
        BY <2>1, <2>4, <2>5 DEF HarnessInv, CloseInv, claudeVars
    <2> QED BY <2>1, <2>3, <2>6, ClaudeRests DEF HarnessInv
<1> QED BY <1>1, <1>2, <1>3, <1>4 DEF Close

LEMMA HarnessStep ==
    ASSUME HarnessInv, [HarnessNext]_harnessVars
    PROVE  HarnessInv'
<1>1. CASE Admit
    <2>1. phase = "open" /\ phase' = phase
        BY <1>1 DEF Admit, gatewayVars
    <2>2. CloseInv'
        BY <2>1 DEF CloseInv
    <2>3. ASSUME NEW c \in Callers, NEW k \in Keys, NEW r \in Requests, NEW n \in Continuations(r),
                 CallClaude(c, k, r, n), UNCHANGED codexVars
          PROVE  ClaudeInv' /\ CodexInv'
        BY <2>3, CallClaudeKeeps, CodexStutters DEF HarnessInv
    <2>4. ASSUME NEW c \in Clients, NEW k \in Credentials, CallCodex(c, k), UNCHANGED claudeVars
          PROVE  ClaudeInv' /\ CodexInv'
        BY <2>4, AlonePlaces, ClaudeRests DEF HarnessInv
    <2>5. ClaudeInv' /\ CodexInv'
        BY <1>1, <2>3, <2>4 DEF Admit
    <2> QED BY <2>2, <2>5 DEF HarnessInv
<1>2. CASE ReleaseClaudeSession
    <2>1. phase = "open" /\ phase' = phase /\ UNCHANGED codexVars
        BY <1>2 DEF ReleaseClaudeSession, gatewayVars
    <2>2. CloseInv'
        BY <2>1 DEF CloseInv
    <2>3. PICK K \in SUBSET Keys : RemoveConversation(K)
        BY <1>2 DEF ReleaseClaudeSession
    <2> QED BY <2>1, <2>2, <2>3, RemoveConversationKeeps, CodexStutters DEF HarnessInv
<1>3. CASE ClaudeStep /\ UNCHANGED <<codexVars, gatewayVars>>
    BY <1>3, ClaudeNext, CodexStutters, ClaudeCloses DEF HarnessInv
<1>4. CASE CodexStep /\ UNCHANGED <<claudeVars, gatewayVars>>
    BY <1>4, CodexNext, ClaudeRests, CodexCloses DEF HarnessInv
<1>5. CASE BeginShutdown \/ Close
    BY <1>5, CloseKeeps
<1>6. CASE UNCHANGED harnessVars
    <2>1. UNCHANGED claudeVars /\ UNCHANGED codexVars /\ UNCHANGED gatewayVars
        BY <1>6 DEF harnessVars
    <2>2. CloseInv'
        BY <2>1 DEF HarnessInv, CloseInv, claudeVars, codexVars, gatewayVars
    <2> QED BY <2>1, <2>2, ClaudeRests, CodexStutters DEF HarnessInv
<1> QED BY <1>1, <1>2, <1>3, <1>4, <1>5, <1>6 DEF HarnessNext

-----------------------------------------------------------------------------
(* What follows *)

LEMMA DirectoriesFollow == ClaudeInv => DirectoriesFollowTheirUsers
<1> SUFFICES ASSUME ClaudeInv, NEW s \in Sids
             PROVE  /\ Cardinality(Workers(s)) = IF session[s].active > 0 /\ ~session[s].gate THEN 1 ELSE 0
                    /\ session[s].active > 0 => ~Removing(s)
                    /\ session[s].directory => Mapped(s) \/ session[s].active > 0 \/ Removing(s)
    BY DEF DirectoriesFollowTheirUsers
<1>1. SessionIsSound(s) /\ session[s].active \in Nat
    BY SessionIs
<1>2. GateIsHeld(s) /\ RemovalIsFinal(s) /\ IsReachable(s)
    BY <1>1 DEF SessionIsSound
<1>3. Workers(s) = {c \in Callers : WorksIn(calls[c], s)}
    BY DEF Workers, WorksIn, WorkPcs
<1>4. Removing(s) <=> s \in doomed \/ \E c \in Callers : CleansIn(calls[c], s)
    BY DEF Removing, CleansIn, At
<1>5. Cardinality(Workers(s)) = IF session[s].active > 0 /\ ~session[s].gate THEN 1 ELSE 0
    <2>1. CASE \E c \in Callers : WorksIn(calls[c], s)
        <3>1. PICK c \in Callers : WorksIn(calls[c], s)
            BY <2>1
        <3>2. Workers(s) = {c}
            BY <1>2, <1>3, <3>1 DEF GateIsHeld
        <3>3. session[s].active # 0 /\ ~session[s].gate
            BY <3>1, HolderIs
        <3>4. session[s].active > 0
            BY <1>1, <3>3
        <3> QED BY <3>2, <3>3, <3>4, FS_Singleton
    <2>2. CASE ~\E c \in Callers : WorksIn(calls[c], s)
        <3>1. Workers(s) = {}
            BY <1>3, <2>2
        <3>2. ~(session[s].active > 0 /\ ~session[s].gate)
            <4> SUFFICES ASSUME session[s].active > 0, ~session[s].gate PROVE FALSE
                OBVIOUS
            <4>1. Live(s)
                BY BlankIs DEF Live
            <4> QED BY <1>2, <2>2, <4>1 DEF GateIsHeld
        <3> QED BY <3>1, <3>2, FS_EmptySet
    <2> QED BY <2>1, <2>2
<1>6. session[s].active > 0 => ~Removing(s)
    BY <1>2, <1>4 DEF RemovalIsFinal
<1>7. session[s].directory => Mapped(s) \/ session[s].active > 0 \/ Removing(s)
    <2> SUFFICES ASSUME session[s].directory, ~(session[s].active > 0) PROVE Mapped(s) \/ Removing(s)
        OBVIOUS
    <2>1. Live(s) /\ session[s].active = 0
        BY <1>1, BlankIs DEF Live
    <2> QED BY <1>2, <1>4, <2>1, MappedIs DEF IsReachable
<1> QED BY <1>5, <1>6, <1>7

LEMMA NothingIsLeft == HarnessInv => NothingIsLeftBehind
<1> SUFFICES ASSUME HarnessInv PROVE NothingIsLeftBehind
    OBVIOUS
<1>1. ProcessesAreAccountedFor
    BY AccountsFollow DEF HarnessInv
<1>2. phase \notin {"open", "stopping"} =>
        (~\E c \in Callers : ~At(c, "idle")) /\ (~\E c \in Clients : ~Doing(c, "idle"))
    BY DEF HarnessInv, CloseInv, At, Doing
<1>3. ASSUME phase = "closed", NEW s \in Sids PROVE ~session[s].directory
    <2>1. /\ \A c \in Callers : calls[c].pc = "idle"
          /\ \A k \in Keys : sessions[k] = 0
          /\ doomed = {}
        BY <1>3 DEF HarnessInv, CloseInv
    <2>2. ClaudeInv
        BY DEF HarnessInv
    <2>3. \A c \in Callers : calls[c].fresh = 0
        BY <2>1, <2>2, CallIs DEF CallIsWhole
    <2>4. \A c \in Callers : ~UsesIn(calls[c], s) /\ ~CleansIn(calls[c], s)
        BY <1>3, <2>1, <2>3, NoSession
    <2>5. UsersOf(s) = {}
        BY <2>4 DEF UsersOf
    <2>6. session[s].active = 0
        BY <1>3, <2>2, <2>5, SessionIs, FS_EmptySet
    <2>7. ~InMap(s)
        BY <1>3, <2>1, SidsAre DEF InMap
    <2>8. IsReachable(s)
        BY <1>3, <2>2, SessionIs DEF SessionIsSound
    <2>9. ~Live(s)
        BY <2>1, <2>4, <2>6, <2>7, <2>8 DEF IsReachable
    <2> QED BY <2>9, BlankIs DEF Live
<1>4. phase = "closed" => \A p \in waitFor : process[p].life = "gone"
    BY DEF HarnessInv, CloseInv
<1>5. CloseLeavesNothing
    BY <1>2, <1>3, <1>4 DEF CloseLeavesNothing
<1> QED BY <1>1, <1>5 DEF NothingIsLeftBehind

LEMMA HarnessAlways == HarnessSpec => []HarnessInv
BY HarnessStart, HarnessStep, PTL DEF HarnessSpec

\* sessions.go, Acquire to RemoveAll: however many callers replace, retire,
\* collect, give up and release at a time, one of them works in a directory, no
\* directory is removed under a user, and none is forgotten.
THEOREM DirectoriesAlwaysFollow == HarnessSpec => []DirectoriesFollowTheirUsers
<1>1. HarnessInv => DirectoriesFollowTheirUsers
    BY DirectoriesFollow DEF HarnessInv
<1> QED BY <1>1, HarnessAlways, PTL

\* sessions.go, GenerateClaudeSession: an answer that is accepted was given to
\* exactly the messages of its request, whichever way the session was resumed,
\* started cold or replaced, and whatever the CLI recorded before it failed.
THEOREM AnswersStayInContext == HarnessSpec => []AnswersAreInContext
<1>1. HarnessInv => AnswersAreInContext
    BY DEF HarnessInv, ClaudeInv, TranscriptsAreKept, AnswersAreInContext
<1> QED BY <1>1, HarnessAlways, PTL

\* gateway.go, Close, with codex_app_server.go: processes are counted, stopped
\* and pooled right during the service, and when Close returns no request, no
\* session directory and no pooled process is left.
THEOREM NothingIsEverLeftBehind == HarnessSpec => []NothingIsLeftBehind
BY NothingIsLeft, HarnessAlways, PTL
=============================================================================
