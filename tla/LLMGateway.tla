----------------------------- MODULE LLMGateway -----------------------------
(***************************************************************************)
(* The rows and the replies of the LLM gateway: providers, their tokens    *)
(* and the model catalog of llm_provider_server/internal/gateway, and the  *)
(* Generate requests that read them.                                       *)
(*                                                                         *)
(* SQLite runs one transaction or statement at a time (SetMaxOpenConns(1)),*)
(* so each is one action; what a handler does in several of them is        *)
(* several actions.  Handlers run concurrently and the process may stop    *)
(* between any two of their steps.  Handlers that only read and answer     *)
(* (listProviders, models, health ...) change nothing and are left out.    *)
(***************************************************************************)
EXTENDS Integers, Sequences

CONSTANTS Providers,  \* ids of providers
          MaxTokens,  \* bound on the tokens there may be at a time
          Urls,       \* base URLs
          Secrets,    \* plaintext of tokens
          Models,     \* model names of the catalog
          Admins,     \* admin requests that may be handled at a time
          Requests,   \* Generate requests that may be handled at a time
          MaxLines,   \* bound on the pings and deltas of a reply
          None

\* A provider is an API with a token, or a CLI harness with auth_mode
\* local_login, which never reads one.
Types == {"api", "login"}
IsHarnessType(t) == t = "login"
ProviderRows == [url : Urls, type : Types, enabled : BOOLEAN, configured : BOOLEAN]

\* A token is known by its place in the order of created_at and id.
Tokens == 1..MaxTokens
TokenRows == [provider : Providers, secret : Secrets, enabled : BOOLEAN]

ASSUME LLMAssumption ==
    /\ MaxTokens \in Nat /\ MaxLines \in Nat
    /\ None \notin ProviderRows \union TokenRows \union Admins

VARIABLES
    provider,   \* table providers: id -> row, or None
    tokens,     \* table provider_tokens: token -> row, or None
    catalog,    \* s.modelCatalog
    saved,      \* table model_catalog: its only row, or None
    catalogMu,  \* the admin request that holds s.catalogMu, or None
    admins,     \* handlers of admin requests
    requests,   \* handlers of Generate requests
    meant,      \* ghost: the catalog with every edit that was saved
    had         \* ghost: the provider row has had a token

rows == <<provider, tokens>>
catalogVars == <<catalog, saved, catalogMu, meant>>
llmVars == <<rows, catalogVars, admins, requests, had>>

\* A mapping names a provider; effort says whether HarnessEffort accepts its
\* options and those of its levels.
Mappings == [provider : Providers, effort : BOOLEAN]
Catalogs == [Models -> Mappings \union {None}]

Resting == [pc |-> "idle", provider |-> None, id |-> None, entries |-> None, model |-> None, mapping |-> None]
Quiet == [pc |-> "idle", provider |-> None, url |-> None, credential |-> None, unavailable |-> FALSE,
          stream |-> FALSE, pinger |-> "off", lines |-> <<>>]

LLMInit ==
    /\ provider = [p \in Providers |-> None]
    /\ tokens = [t \in Tokens |-> None]
    /\ catalog \in Catalogs          \* parseModelCatalog of the environment
    /\ saved = None
    /\ catalogMu = None
    /\ admins = [a \in Admins |-> Resting]
    /\ requests = [r \in Requests |-> Quiet]
    /\ meant = catalog
    /\ had = [p \in Providers |-> FALSE]

-----------------------------------------------------------------------------
(* Providers *)

CreateProvider(p, u, t) ==
    /\ provider[p] = None
    /\ provider' = [provider EXCEPT ![p] = [url |-> u, type |-> t, enabled |-> TRUE, configured |-> FALSE]]
    /\ UNCHANGED <<tokens, catalogVars, admins, requests>>

\* patchProvider: one transaction.
PatchProvider(p, u, t, e) ==
    /\ provider[p] # None
    /\ provider' = [provider EXCEPT ![p].url = u, ![p].type = t, ![p].enabled = e]
    /\ provider' # provider
    /\ UNCHANGED <<tokens, catalogVars, admins, requests>>

TokensOf(p) == {t \in Tokens : tokens[t] # None /\ tokens[t].provider = p}

\* deleteProvider: the tokens and the row in one transaction.
DeleteProvider(p) ==
    /\ provider[p] # None
    /\ tokens' = [t \in Tokens |-> IF t \in TokensOf(p) THEN None ELSE tokens[t]]
    /\ provider' = [provider EXCEPT ![p] = None]
    /\ UNCHANGED <<catalogVars, admins, requests>>

-----------------------------------------------------------------------------
(* Tokens *)

\* providerTokens: the provider is looked up before the transaction; id and
\* created_at are chosen then too.  The id is random, and created_at is
\* compared as text: the token may come anywhere in the order.
BeginToken(a, p) ==
    /\ admins[a].pc = "idle" /\ provider[p] # None
    /\ \E t \in Tokens :
         /\ tokens[t] = None /\ \A b \in Admins : admins[b].id # t
         /\ admins' = [admins EXCEPT ![a] = [Resting EXCEPT !.pc = "insert", !.provider = p, !.id = t]]
    /\ UNCHANGED <<rows, catalogVars, requests>>

\* Mutant: the row count of the UPDATE is not looked at.
InsertTokenUnchecked(a, s) ==
    LET p == admins[a].provider
        row == [provider |-> p, secret |-> s, enabled |-> TRUE]
    IN  /\ admins[a].pc = "insert"
        /\ tokens' = [tokens EXCEPT ![admins[a].id] = row]
        /\ provider' = IF provider[p] = None THEN provider ELSE [provider EXCEPT ![p].configured = TRUE]
        /\ admins' = [admins EXCEPT ![a] = Resting]
        /\ UNCHANGED <<catalogVars, requests>>

\* The transaction: insert, and mark the provider; when it is gone the insert
\* is rolled back.
InsertToken(a, s) ==
    LET p == admins[a].provider
        row == [provider |-> p, secret |-> s, enabled |-> TRUE]
    IN  /\ admins[a].pc = "insert"
        /\ \/ /\ provider[p] # None
              /\ tokens' = [tokens EXCEPT ![admins[a].id] = row]
              /\ provider' = [provider EXCEPT ![p].configured = TRUE]
           \/ provider[p] = None /\ UNCHANGED rows
        /\ admins' = [admins EXCEPT ![a] = Resting]
        /\ UNCHANGED <<catalogVars, requests>>

PatchToken(t, s, e) ==
    /\ tokens[t] # None
    /\ tokens' = [tokens EXCEPT ![t].secret = s, ![t].enabled = e]
    /\ tokens' # tokens
    /\ UNCHANGED <<provider, catalogVars, admins, requests>>

DeleteToken(t) ==
    /\ tokens[t] # None
    /\ tokens' = [tokens EXCEPT ![t] = None]
    /\ UNCHANGED <<provider, catalogVars, admins, requests>>

-----------------------------------------------------------------------------
(* manageModels *)

\* POST, PUT (v is a mapping) or DELETE (v is None) of model m: refused when a
\* POST finds the name, or PUT and DELETE do not.
LockCatalog(a, m, v) ==
    /\ admins[a].pc = "idle" /\ catalogMu = None
    /\ catalog[m] = None => v # None
    /\ catalogMu' = a
    /\ admins' = [admins EXCEPT ![a] = [Resting EXCEPT !.pc = "check", !.entries = catalog, !.model = m, !.mapping = v]]
    /\ UNCHANGED <<rows, catalog, saved, meant, requests>>

\* The request is refused or fails.
Unlock(a) ==
    /\ catalogMu' = None
    /\ admins' = [admins EXCEPT ![a] = Resting]
    /\ UNCHANGED <<rows, catalog, saved, meant, requests>>

\* The mapping's provider exists and, if it is a harness, takes the options.
CheckMapping(a) ==
    LET v == admins[a].mapping
        good == v # None => /\ provider[v.provider] # None
                            /\ IsHarnessType(provider[v.provider].type) => v.effort
    IN  /\ admins[a].pc = "check"
        /\ \/ /\ good
              /\ admins' = [admins EXCEPT ![a].pc = "save"]
              /\ UNCHANGED <<rows, catalogVars, requests>>
           \/ ~good /\ Unlock(a)

\* The whole catalog is written; an error leaves everything as it was.
SaveCatalog(a) ==
    /\ admins[a].pc = "save"
    /\ \/ /\ saved' = [admins[a].entries EXCEPT ![admins[a].model] = admins[a].mapping]
          /\ meant' = [meant EXCEPT ![admins[a].model] = admins[a].mapping]
          /\ admins' = [admins EXCEPT ![a].pc = "apply"]
          /\ UNCHANGED <<rows, catalog, catalogMu, requests>>
       \/ Unlock(a)

ApplyCatalog(a) ==
    /\ admins[a].pc = "apply"
    /\ catalog' = saved
    /\ catalogMu' = None
    /\ admins' = [admins EXCEPT ![a] = Resting]
    /\ UNCHANGED <<rows, saved, meant, requests>>

-----------------------------------------------------------------------------
(* Generate *)

\* The credential of provider p: its first enabled token, in order.
Enabled(p) == {t \in TokensOf(p) : tokens[t].enabled}
First(S) == CHOOSE t \in S : \A u \in S : t <= u

Credential(p) ==
    IF IsHarnessType(provider[p].type) \/ Enabled(p) = {} THEN None ELSE tokens[First(Enabled(p))].secret

Unavailable(p) ==
    ~IsHarnessType(provider[p].type) /\ Enabled(p) = {} /\ provider[p].configured

\* Mutant: the token is read in a transaction of its own.
ResolveTwice(r, p) ==
    /\ provider[p] # None
    /\ \/ /\ requests[r].pc = "idle"
          /\ provider[p].enabled
          /\ requests' = [requests EXCEPT ![r] = [Quiet EXCEPT !.pc = "half", !.provider = p, !.url = provider[p].url]]
       \/ /\ requests[r].pc = "half" /\ requests[r].provider = p
          /\ requests' = [requests EXCEPT ![r].pc = "options", ![r].credential = Credential(p),
                                          ![r].unavailable = Unavailable(p)]
    /\ UNCHANGED <<rows, catalogVars, admins>>

\* resolveProviderRequestSnapshot: row and token in one transaction; then a
\* disabled provider is refused.
Resolve(r, p) ==
    /\ requests[r].pc = "idle"
    /\ provider[p] # None /\ provider[p].enabled
    /\ requests' = [requests EXCEPT ![r] = [Quiet EXCEPT !.pc = "options", !.provider = p, !.url = provider[p].url,
                        !.credential = Credential(p), !.unavailable = Unavailable(p)]]
    /\ UNCHANGED <<rows, catalogVars, admins>>

\* resolveModelOptions waits for a writer of the catalog and may refuse the
\* options; a missing credential is answered next.  Then the reply begins.
BeginReply(r, stream) ==
    /\ requests[r].pc = "options" /\ catalogMu = None
    /\ ~requests[r].unavailable
    /\ requests' = [requests EXCEPT ![r].pc = "sent", ![r].stream = stream,
                                    ![r].pinger = IF stream THEN "on" ELSE "off"]
    /\ UNCHANGED <<rows, catalogVars, admins>>

Refuse(r) ==
    /\ requests[r].pc = "options" /\ catalogMu = None
    /\ requests' = [requests EXCEPT ![r] = Quiet]
    /\ UNCHANGED <<rows, catalogVars, admins>>

\* reply.line, under reply.mu.
Line(r, kind) == requests' = [requests EXCEPT ![r].lines = Append(@, kind)]

Delta(r) ==
    /\ requests[r].pc = "sent" /\ requests[r].stream /\ Len(requests[r].lines) < MaxLines
    /\ Line(r, "delta")
    /\ UNCHANGED <<rows, catalogVars, admins>>

\* The goroutine of newGenerateReply: a tick may win against the stop.
Ping(r) ==
    /\ requests[r].pinger \in {"on", "stopping"} /\ Len(requests[r].lines) < MaxLines
    /\ Line(r, "ping")
    /\ UNCHANGED <<rows, catalogVars, admins>>

StopPinging(r) ==
    /\ requests[r].pinger = "stopping"
    /\ requests' = [requests EXCEPT ![r].pinger = "off"]
    /\ UNCHANGED <<rows, catalogVars, admins>>

\* The provider has answered or failed: finish ends the pings first.
EndPings(r) ==
    /\ requests[r].pc = "sent"
    /\ requests' = [requests EXCEPT ![r].pc = "ending",
                                    ![r].pinger = IF requests[r].stream THEN "stopping" ELSE "off"]
    /\ UNCHANGED <<rows, catalogVars, admins>>

\* Mutant: the pinging goroutine is not waited for.
FinishAtOnce(r, kind) ==
    /\ requests[r].pc = "ending"
    /\ requests' = [requests EXCEPT ![r].pc = "returned", ![r].lines = Append(@, kind)]
    /\ UNCHANGED <<rows, catalogVars, admins>>

\* pinged.Wait(), then the last line (or the only document) and the return.
Finish(r, kind) ==
    /\ requests[r].pc = "ending" /\ requests[r].pinger = "off"
    /\ requests' = [requests EXCEPT ![r].pc = "returned", ![r].lines = Append(@, kind)]
    /\ UNCHANGED <<rows, catalogVars, admins>>

\* The connection is done with.
Forget(r) ==
    /\ requests[r].pc = "returned"
    /\ requests' = [requests EXCEPT ![r] = Quiet]
    /\ UNCHANGED <<rows, catalogVars, admins>>

-----------------------------------------------------------------------------
\* Mutant: the environment wins over the saved catalog.
RestartFromEnvironment(env) ==
    /\ catalog' = env
    /\ meant' = IF saved = None THEN env ELSE meant
    /\ catalogMu' = None
    /\ admins' = [a \in Admins |-> Resting]
    /\ requests' = [r \in Requests |-> Quiet]
    /\ UNCHANGED <<provider, tokens, saved>>

\* The process stops and opens again, with the environment env:
\* ensureProviderTokenStateColumn, validateStoredTokens, loadSavedCatalog.
Restart(env) ==
    /\ provider' = [p \in Providers |->
         IF provider[p] # None /\ TokensOf(p) # {}
         THEN [provider[p] EXCEPT !.configured = TRUE] ELSE provider[p]]
    /\ catalog' = IF saved = None THEN env ELSE saved
    /\ meant' = IF saved = None THEN env ELSE meant
    /\ catalogMu' = None
    /\ admins' = [a \in Admins |-> Resting]
    /\ requests' = [r \in Requests |-> Quiet]
    /\ UNCHANGED <<tokens, saved>>

-----------------------------------------------------------------------------
LLMStep ==
    \/ \E p \in Providers :
         \/ DeleteProvider(p)
         \/ \E u \in Urls, t \in Types : CreateProvider(p, u, t) \/ \E e \in BOOLEAN : PatchProvider(p, u, t, e)
         \/ \E a \in Admins : BeginToken(a, p)
         \/ \E r \in Requests : Resolve(r, p)
    \/ \E t \in Tokens :
         DeleteToken(t) \/ \E s \in Secrets, e \in BOOLEAN : PatchToken(t, s, e)
    \/ \E a \in Admins :
         \/ \E s \in Secrets : InsertToken(a, s)
         \/ \E m \in Models, v \in Mappings \union {None} : LockCatalog(a, m, v)
         \/ CheckMapping(a) \/ SaveCatalog(a) \/ ApplyCatalog(a)
    \/ \E r \in Requests :
         \/ \E b \in BOOLEAN : BeginReply(r, b)
         \/ Refuse(r) \/ Delta(r) \/ Ping(r) \/ StopPinging(r) \/ EndPings(r)
         \/ \E k \in {"done", "error"} : Finish(r, k)
         \/ Forget(r)
    \/ \E env \in Catalogs : Restart(env)

LLMNext ==
    /\ LLMStep
    /\ had' = [p \in Providers |-> provider'[p] # None /\ (had[p] \/ TokensOf(p)' # {})]

LLMSpec == LLMInit /\ [][LLMNext]_llmVars

-----------------------------------------------------------------------------
(* Properties. *)

\* Credentials that belong to an endpoint: the enabled tokens of its provider;
\* none for a login, or while the provider row has never had a token.
Belonging(p) ==
    {tokens[t].secret : t \in Enabled(p)} \union (IF IsHarnessType(provider[p].type) \/ ~had[p] THEN {None} ELSE {})

\* What is configured at one instant.
Pairs == UNION {{<<p, provider[p].url, c>> : c \in Belonging(p)} : p \in {q \in Providers : provider[q] # None}}

\* dispatchGenerate: a request is given a token only for an endpoint the token
\* is configured for at that instant, and goes without one only to a login or to
\* a provider that has never had a token, whatever admins patch, delete and
\* create again while it is handled; what it was given it keeps.
CredentialsAreConfigured ==
    [][\A r \in Requests :
         LET q == requests'[r]
             aim == <<q.provider, q.url, q.credential>>
         IN  q.pc = "sent" \/ (q.pc = "options" /\ ~q.unavailable) =>
                IF requests[r].pc \in {"options", "sent"}
                THEN aim = <<requests[r].provider, requests[r].url, requests[r].credential>>
                ELSE aim \in Pairs]_llmVars

\* providerTokens, deleteProvider: every token belongs to a provider that
\* exists (a provider created later under the same id would inherit it), and
\* tokens_configured tells exactly whether the row has ever had one.
TokensAreOwned ==
    /\ \A t \in Tokens : tokens[t] # None => provider[tokens[t].provider] # None
    /\ \A p \in Providers : provider[p] # None => (provider[p].configured <=> had[p])

\* "The first admin mutation persists the entire bootstrap catalog ...
\* restarting with old environment settings cannot undo UI edits": what is
\* saved is what the saved edits amount to, none lost to another, and the
\* catalog in memory is that catalog whenever nobody holds the lock.
CatalogEditsAreKept ==
    /\ saved # None => saved = meant
    /\ catalogMu = None => catalog = meant

\* "... then exactly one done or error line", "nothing may write to the response
\* after its handler returns".
RepliesAreWhole ==
    \A r \in Requests :
        LET lines == requests[r].lines
            final == {i \in DOMAIN lines : lines[i] \in {"done", "error"}}
        IN  IF requests[r].pc = "returned"
            THEN final = {Len(lines)} /\ requests[r].pinger = "off"
            ELSE final = {}
=============================================================================
