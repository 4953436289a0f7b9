-------------------------- MODULE LLMGatewayProofs --------------------------
(***************************************************************************)
(* Theorems about LLMGateway, for any providers, tokens, models, admin and *)
(* Generate requests, and replies of any length.                           *)
(***************************************************************************)
EXTENDS LLMGateway, WellFoundedInduction, TLAPS

USE LLMAssumption

RowTypes ==
    /\ provider \in [Providers -> ProviderRows \union {None}]
    /\ tokens \in [Tokens -> TokenRows \union {None}]
    /\ had \in [Providers -> BOOLEAN]

AdminRows ==
    [pc : {"idle", "insert", "check", "save", "apply"}, provider : Providers \union {None}, id : Tokens \union {None},
     entries : Catalogs \union {None}, model : Models \union {None}, mapping : Mappings \union {None}]

\* An admin request has what its next step needs.
Prepared(q) ==
    /\ q \in AdminRows
    /\ q.pc = "insert" => q.provider \in Providers /\ q.id \in Tokens
    /\ q.pc \in {"check", "save", "apply"} => q.model \in Models

AdminTypes == admins \in [Admins -> AdminRows] /\ \A a \in Admins : Prepared(admins[a])

\* A provider that has a token has had one; one that is not there has not.
HadTokens ==
    /\ \A t \in Tokens : tokens[t] # None => had[tokens[t].provider] = TRUE
    /\ \A p \in Providers : provider[p] = None => had[p] = FALSE

RowsInv == RowTypes /\ AdminTypes /\ TokensAreOwned /\ HadTokens

\* The holder of the lock edits the catalog that the edits amount to.
Edits(a) == admins[a].pc \in {"check", "save", "apply"}
CatalogInv ==
    /\ catalog \in Catalogs /\ meant \in Catalogs /\ saved \in Catalogs \union {None}
    /\ saved # None => saved = meant
    /\ catalogMu = None => catalog = meant
    /\ \A a \in Admins :
         /\ Edits(a) => catalogMu = a
         /\ admins[a].pc \in {"check", "save"} => admins[a].entries = meant /\ catalog = meant
         /\ admins[a].pc = "apply" => saved = meant

Kinds == {"ping", "delta", "done", "error"}
Final == {"done", "error"}
Replies ==
    [pc : {"idle", "options", "sent", "ending", "returned"}, provider : Providers \union {None}, url : Urls \union {None},
     credential : Secrets \union {None}, unavailable : BOOLEAN, stream : BOOLEAN, pinger : {"off", "on", "stopping"},
     lines : Seq(Kinds)]

\* A reply has its last line exactly when its handler has returned, and then
\* nobody pings.
Whole(q) ==
    /\ q \in Replies
    /\ q.pc = "returned" => /\ q.pinger = "off" /\ Len(q.lines) > 0 /\ q.lines[Len(q.lines)] \in Final
                            /\ \A i \in 1..(Len(q.lines) - 1) : q.lines[i] \notin Final
    /\ q.pc # "returned" => \A i \in 1..Len(q.lines) : q.lines[i] \notin Final
    /\ q.pc \in {"idle", "options"} => q.pinger = "off"

RepliesInv == requests \in [Requests -> Replies] /\ \A r \in Requests : Whole(requests[r])

LLMInv == RowsInv /\ CatalogInv /\ RepliesInv

-----------------------------------------------------------------------------
(* Rows *)

HadStep == had' = [p \in Providers |-> provider'[p] # None /\ (had[p] \/ TokensOf(p)' # {})]

\* The tables after a step, when a row is marked exactly when it has or had a
\* token.
LEMMA RowsAfter ==
    ASSUME RowTypes, HadStep,
           provider' \in [Providers -> ProviderRows \union {None}], tokens' \in [Tokens -> TokenRows \union {None}],
           \A t \in Tokens : tokens'[t] # None => provider'[tokens'[t].provider] # None,
           \A p \in Providers : provider'[p] # None =>
              (provider'[p].configured = TRUE <=> had[p] = TRUE \/ TokensOf(p)' # {})
    PROVE  RowTypes' /\ TokensAreOwned' /\ HadTokens'
<1>1. \A p \in Providers : had[p] \in BOOLEAN
    BY DEF RowTypes
<1>2. had' \in [Providers -> BOOLEAN]
    BY DEF HadStep
<1>3. \A p \in Providers : had'[p] = TRUE <=> provider'[p] # None /\ (had[p] = TRUE \/ TokensOf(p)' # {})
    BY <1>1 DEF HadStep
<1>4. \A p \in Providers : had'[p] \in BOOLEAN
    BY <1>2
<1>5. \A p \in Providers : provider'[p] # None => provider'[p].configured \in BOOLEAN
    <2>1. \A p \in Providers : provider'[p] # None => provider'[p] \in ProviderRows
        OBVIOUS
    <2> QED BY <2>1 DEF ProviderRows
<1>6. \A t \in Tokens : tokens'[t] # None => tokens'[t].provider \in Providers
    <2>1. \A t \in Tokens : tokens'[t] # None => tokens'[t] \in TokenRows
        OBVIOUS
    <2> QED BY <2>1 DEF TokenRows
<1>7. \A q \in Providers, t \in Tokens : tokens'[t] # None /\ tokens'[t].provider = q => TokensOf(q)' # {}
    BY DEF TokensOf
<1>8. HadTokens'
    <2>1. ASSUME NEW t \in Tokens, NEW q \in Providers, tokens'[t] # None, tokens'[t].provider = q
          PROVE  had'[q] = TRUE
        BY <1>3, <1>7, <2>1
    <2>2. \A t \in Tokens : tokens'[t] # None => had'[tokens'[t].provider] = TRUE
        BY <1>6, <2>1
    <2>3. \A p \in Providers : provider'[p] = None => had'[p] = FALSE
        BY <1>3, <1>4
    <2> QED BY <2>2, <2>3 DEF HadTokens
<1>9. TokensAreOwned'
    BY <1>3, <1>4, <1>5 DEF TokensAreOwned
<1> QED BY <1>2, <1>8, <1>9 DEF RowTypes

\* A provider that was there, with the same mark and no new token.
LEMMA KeptMark ==
    ASSUME RowsInv, NEW p \in Providers, provider[p] # None, provider'[p].configured = provider[p].configured,
           TokensOf(p)' \subseteq TokensOf(p)
    PROVE  provider'[p].configured = TRUE <=> had[p] = TRUE \/ TokensOf(p)' # {}
<1>1. provider[p] \in ProviderRows /\ had[p] \in BOOLEAN
    BY DEF RowsInv, RowTypes
<1>2. provider[p].configured \in BOOLEAN
    BY <1>1 DEF ProviderRows
<1>3. provider[p].configured = TRUE <=> had[p] = TRUE
    BY <1>1, <1>2 DEF RowsInv, TokensAreOwned
<1>4. TokensOf(p) # {} => had[p] = TRUE
    BY DEF RowsInv, HadTokens, TokensOf
<1> QED BY <1>3, <1>4

\* No token of a provider that is not there.
LEMMA NoneWithout ==
    ASSUME RowsInv, NEW p \in Providers, provider[p] = None
    PROVE  TokensOf(p) = {} /\ had[p] = FALSE
BY DEF RowsInv, TokensAreOwned, HadTokens, TokensOf

LEMMA CreateRows ==
    ASSUME RowsInv, HadStep, NEW p \in Providers, NEW u \in Urls, NEW y \in Types, CreateProvider(p, u, y)
    PROVE  RowTypes' /\ TokensAreOwned' /\ HadTokens'
<1> DEFINE row == [url |-> u, type |-> y, enabled |-> TRUE, configured |-> FALSE]
<1>1. provider[p] = None /\ provider' = [provider EXCEPT ![p] = row] /\ tokens' = tokens
    BY DEF CreateProvider
<1>2. row \in ProviderRows /\ row.configured = FALSE
    BY DEF ProviderRows
<1> HIDE DEF row
<1>3. RowTypes /\ provider' \in [Providers -> ProviderRows \union {None}] /\ tokens' \in [Tokens -> TokenRows \union {None}]
    BY <1>1, <1>2 DEF RowsInv, RowTypes
<1>4. provider'[p] = row /\ row # None /\ \A q \in Providers : q # p => provider'[q] = provider[q]
    BY <1>1, <1>2 DEF RowsInv, RowTypes
<1>5. \A q \in Providers : TokensOf(q)' = TokensOf(q)
    BY <1>1 DEF TokensOf
<1>6. \A t \in Tokens : tokens'[t] # None => provider'[tokens'[t].provider] # None
    <2>1. \A t \in Tokens : tokens[t] # None => tokens[t].provider \in Providers
        BY DEF RowsInv, RowTypes, TokenRows
    <2> QED BY <1>1, <1>4, <2>1 DEF RowsInv, TokensAreOwned
<1>7. ASSUME NEW q \in Providers, provider'[q] # None
      PROVE  provider'[q].configured = TRUE <=> had[q] = TRUE \/ TokensOf(q)' # {}
    <2>1. CASE q = p
        BY <1>1, <1>2, <1>4, <1>5, <2>1, NoneWithout
    <2>2. CASE q # p
        BY <1>4, <1>5, <1>7, <2>2, KeptMark
    <2> QED BY <2>1, <2>2
<1> QED BY <1>3, <1>6, <1>7, RowsAfter

LEMMA PatchRows ==
    ASSUME RowsInv, HadStep, NEW p \in Providers, NEW u \in Urls, NEW y \in Types, NEW e \in BOOLEAN,
           PatchProvider(p, u, y, e)
    PROVE  RowTypes' /\ TokensAreOwned' /\ HadTokens'
<1> DEFINE row == [[[provider[p] EXCEPT !.url = u] EXCEPT !.type = y] EXCEPT !.enabled = e]
<1>1. provider[p] # None /\ provider[p] \in ProviderRows /\ provider \in [Providers -> ProviderRows \union {None}]
    BY DEF PatchProvider, RowsInv, RowTypes
<1>2. provider' = [provider EXCEPT ![p] = row] /\ tokens' = tokens
    BY <1>1 DEF PatchProvider
<1>3. row \in ProviderRows /\ row.configured = provider[p].configured
    BY <1>1 DEF ProviderRows
<1> HIDE DEF row
<1>4. RowTypes /\ provider' \in [Providers -> ProviderRows \union {None}] /\ tokens' \in [Tokens -> TokenRows \union {None}]
    BY <1>2, <1>3 DEF RowsInv, RowTypes
<1>5. provider'[p] = row /\ row # None /\ \A q \in Providers : q # p => provider'[q] = provider[q]
    BY <1>1, <1>2, <1>3
<1>6. \A q \in Providers : TokensOf(q)' = TokensOf(q)
    BY <1>2 DEF TokensOf
<1>7. \A t \in Tokens : tokens'[t] # None => provider'[tokens'[t].provider] # None
    <2>1. \A t \in Tokens : tokens[t] # None => tokens[t].provider \in Providers
        BY DEF RowsInv, RowTypes, TokenRows
    <2> QED BY <1>2, <1>5, <2>1 DEF RowsInv, TokensAreOwned
<1>8. ASSUME NEW q \in Providers, provider'[q] # None
      PROVE  provider'[q].configured = TRUE <=> had[q] = TRUE \/ TokensOf(q)' # {}
    <2>1. provider[q] # None /\ provider'[q].configured = provider[q].configured
        BY <1>1, <1>3, <1>5, <1>8
    <2> QED BY <1>6, <2>1, KeptMark
<1> QED BY <1>4, <1>7, <1>8, RowsAfter

LEMMA DeleteRows ==
    ASSUME RowsInv, HadStep, NEW p \in Providers, DeleteProvider(p)
    PROVE  RowTypes' /\ TokensAreOwned' /\ HadTokens'
<1>1. /\ tokens' = [t \in Tokens |-> IF t \in TokensOf(p) THEN None ELSE tokens[t]]
      /\ provider' = [provider EXCEPT ![p] = None]
    BY DEF DeleteProvider
<1>2. /\ RowTypes /\ provider \in [Providers -> ProviderRows \union {None}]
      /\ tokens \in [Tokens -> TokenRows \union {None}]
      /\ \A t \in Tokens : tokens[t] # None => tokens[t].provider \in Providers
    BY DEF RowsInv, RowTypes, TokenRows
<1>3. provider' \in [Providers -> ProviderRows \union {None}] /\ tokens' \in [Tokens -> TokenRows \union {None}]
    BY <1>1, <1>2
<1>4. provider'[p] = None /\ \A q \in Providers : q # p => provider'[q] = provider[q]
    BY <1>1, <1>2
<1>5. \A t \in Tokens : tokens'[t] # None => tokens'[t] = tokens[t] /\ tokens[t].provider # p
    BY <1>1 DEF TokensOf
<1>6. \A q \in Providers : TokensOf(q)' \subseteq TokensOf(q)
    BY <1>5 DEF TokensOf
<1>7. \A t \in Tokens : tokens'[t] # None => provider'[tokens'[t].provider] # None
    BY <1>2, <1>4, <1>5 DEF RowsInv, TokensAreOwned
<1>8. ASSUME NEW q \in Providers, provider'[q] # None
      PROVE  provider'[q].configured = TRUE <=> had[q] = TRUE \/ TokensOf(q)' # {}
    BY <1>4, <1>6, <1>8, KeptMark
<1> QED BY <1>2, <1>3, <1>7, <1>8, RowsAfter

\* Nothing changes in the tables.
LEMMA SameRows ==
    ASSUME RowsInv, HadStep, provider' = provider, tokens' = tokens
    PROVE  RowTypes' /\ TokensAreOwned' /\ HadTokens'
<1>1. RowTypes /\ provider' \in [Providers -> ProviderRows \union {None}] /\ tokens' \in [Tokens -> TokenRows \union {None}]
    BY DEF RowsInv, RowTypes
<1>2. \A t \in Tokens : tokens'[t] # None => provider'[tokens'[t].provider] # None
    BY DEF RowsInv, TokensAreOwned
<1>3. \A q \in Providers : TokensOf(q)' = TokensOf(q)
    BY DEF TokensOf
<1>4. ASSUME NEW q \in Providers, provider'[q] # None
      PROVE  provider'[q].configured = TRUE <=> had[q] = TRUE \/ TokensOf(q)' # {}
    BY <1>3, <1>4, KeptMark
<1> QED BY <1>1, <1>2, <1>4, RowsAfter

\* A token and the mark of its provider are written together.
LEMMA WrittenRows ==
    ASSUME RowsInv, HadStep, NEW p \in Providers, NEW i \in Tokens, NEW s \in Secrets, provider[p] # None,
           tokens' = [tokens EXCEPT ![i] = [provider |-> p, secret |-> s, enabled |-> TRUE]],
           provider' = [provider EXCEPT ![p].configured = TRUE]
    PROVE  RowTypes' /\ TokensAreOwned' /\ HadTokens'
<1> DEFINE row == [provider |-> p, secret |-> s, enabled |-> TRUE]
           marked == [provider[p] EXCEPT !.configured = TRUE]
<1>1. /\ RowTypes /\ provider \in [Providers -> ProviderRows \union {None}]
      /\ tokens \in [Tokens -> TokenRows \union {None}]
      /\ \A t \in Tokens : tokens[t] # None => tokens[t].provider \in Providers
    BY DEF RowsInv, RowTypes, TokenRows
<1>2. row \in TokenRows /\ row.provider = p
    BY DEF TokenRows
<1>3. marked \in ProviderRows /\ marked.configured = TRUE
    BY <1>1 DEF ProviderRows
<1>4. provider' = [provider EXCEPT ![p] = marked] /\ tokens' = [tokens EXCEPT ![i] = row]
    OBVIOUS
<1> HIDE DEF row, marked
<1>5. provider' \in [Providers -> ProviderRows \union {None}] /\ tokens' \in [Tokens -> TokenRows \union {None}]
    <2>1. provider' \in [Providers -> ProviderRows \union {None}]
        BY <1>1, <1>3, <1>4
    <2>2. tokens' \in [Tokens -> TokenRows \union {None}]
        BY <1>1, <1>2, <1>4
    <2> QED BY <2>1, <2>2
<1>6. provider'[p] = marked /\ marked # None /\ \A q \in Providers : q # p => provider'[q] = provider[q]
    BY <1>1, <1>3, <1>4
<1>7. tokens'[i] = row /\ row # None /\ \A t \in Tokens : t # i => tokens'[t] = tokens[t]
    BY <1>1, <1>2, <1>4
<1>8. \A t \in Tokens : tokens'[t] # None => provider'[tokens'[t].provider] # None
    BY <1>1, <1>2, <1>6, <1>7 DEF RowsInv, TokensAreOwned
<1>9. i \in TokensOf(p)' /\ \A q \in Providers : q # p => TokensOf(q)' \subseteq TokensOf(q)
    BY <1>2, <1>7 DEF TokensOf
<1>10. ASSUME NEW q \in Providers, provider'[q] # None
       PROVE  provider'[q].configured = TRUE <=> had[q] = TRUE \/ TokensOf(q)' # {}
    <2>1. CASE q = p
        BY <1>3, <1>6, <1>9, <2>1
    <2>2. CASE q # p
        BY <1>6, <1>9, <1>10, <2>2, KeptMark
    <2> QED BY <2>1, <2>2
<1> QED BY <1>1, <1>5, <1>8, <1>10, RowsAfter

LEMMA InsertRows ==
    ASSUME RowsInv, HadStep, NEW a \in Admins, NEW s \in Secrets, InsertToken(a, s)
    PROVE  RowTypes' /\ TokensAreOwned' /\ HadTokens'
<1>1. PICK p \in Providers, i \in Tokens : p = admins[a].provider /\ i = admins[a].id
    BY DEF InsertToken, RowsInv, AdminTypes, Prepared
<1>2. \/ /\ provider[p] # None
         /\ tokens' = [tokens EXCEPT ![i] = [provider |-> p, secret |-> s, enabled |-> TRUE]]
         /\ provider' = [provider EXCEPT ![p].configured = TRUE]
      \/ UNCHANGED rows
    BY <1>1 DEF InsertToken
<1>3. CASE UNCHANGED rows
    BY <1>3, SameRows DEF rows
<1> QED BY <1>2, <1>3, WrittenRows

LEMMA PatchTokenRows ==
    ASSUME RowsInv, HadStep, NEW i \in Tokens, NEW s \in Secrets, NEW e \in BOOLEAN, PatchToken(i, s, e)
    PROVE  RowTypes' /\ TokensAreOwned' /\ HadTokens'
<1> DEFINE row == [[tokens[i] EXCEPT !.secret = s] EXCEPT !.enabled = e]
<1>1. tokens[i] # None /\ tokens[i] \in TokenRows /\ tokens \in [Tokens -> TokenRows \union {None}] /\ RowTypes
    BY DEF PatchToken, RowsInv, RowTypes
<1>2. tokens' = [tokens EXCEPT ![i] = row] /\ provider' = provider
    BY <1>1 DEF PatchToken
<1>3. row \in TokenRows /\ row.provider = tokens[i].provider
    BY <1>1 DEF TokenRows
<1> HIDE DEF row
<1>4. provider' \in [Providers -> ProviderRows \union {None}] /\ tokens' \in [Tokens -> TokenRows \union {None}]
    BY <1>1, <1>2, <1>3 DEF RowTypes
<1>5. tokens'[i] = row /\ row # None /\ \A t \in Tokens : t # i => tokens'[t] = tokens[t]
    BY <1>1, <1>2, <1>3
<1>6. \A q \in Providers : TokensOf(q)' \subseteq TokensOf(q)
    BY <1>1, <1>3, <1>5 DEF TokensOf
<1>7. \A t \in Tokens : tokens'[t] # None => provider'[tokens'[t].provider] # None
    BY <1>1, <1>2, <1>3, <1>5 DEF RowsInv, TokensAreOwned
<1>8. ASSUME NEW q \in Providers, provider'[q] # None
      PROVE  provider'[q].configured = TRUE <=> had[q] = TRUE \/ TokensOf(q)' # {}
    BY <1>2, <1>6, <1>8, KeptMark
<1> QED BY <1>1, <1>4, <1>7, <1>8, RowsAfter

LEMMA DeleteTokenRows ==
    ASSUME RowsInv, HadStep, NEW i \in Tokens, DeleteToken(i)
    PROVE  RowTypes' /\ TokensAreOwned' /\ HadTokens'
<1>1. tokens' = [tokens EXCEPT ![i] = None] /\ provider' = provider
    BY DEF DeleteToken
<1>2. tokens \in [Tokens -> TokenRows \union {None}] /\ RowTypes
    BY DEF RowsInv, RowTypes
<1>3. provider' \in [Providers -> ProviderRows \union {None}] /\ tokens' \in [Tokens -> TokenRows \union {None}]
    BY <1>1, <1>2 DEF RowTypes
<1>4. \A t \in Tokens : tokens'[t] # None => tokens'[t] = tokens[t]
    BY <1>1, <1>2
<1>5. \A q \in Providers : TokensOf(q)' \subseteq TokensOf(q)
    BY <1>4 DEF TokensOf
<1>6. \A t \in Tokens : tokens'[t] # None => provider'[tokens'[t].provider] # None
    BY <1>1, <1>4 DEF RowsInv, TokensAreOwned
<1>7. ASSUME NEW q \in Providers, provider'[q] # None
      PROVE  provider'[q].configured = TRUE <=> had[q] = TRUE \/ TokensOf(q)' # {}
    BY <1>1, <1>5, <1>7, KeptMark
<1> QED BY <1>2, <1>3, <1>6, <1>7, RowsAfter

\* Marking the providers that have a token marks none that was not marked.
LEMMA RestartRows ==
    ASSUME RowsInv, HadStep, NEW env \in Catalogs, Restart(env)
    PROVE  RowTypes' /\ TokensAreOwned' /\ HadTokens'
<1>1. /\ RowTypes /\ provider \in [Providers -> ProviderRows \union {None}]
      /\ tokens \in [Tokens -> TokenRows \union {None}]
    BY DEF RowsInv, RowTypes
<1>2. /\ tokens' = tokens
      /\ provider' = [p \in Providers |-> IF provider[p] # None /\ TokensOf(p) # {}
                                          THEN [provider[p] EXCEPT !.configured = TRUE] ELSE provider[p]]
    BY DEF Restart
<1>3. ASSUME NEW p \in Providers
      PROVE  provider'[p] = provider[p]
    <2>1. CASE provider[p] # None /\ TokensOf(p) # {}
        <3>1. provider[p] \in ProviderRows /\ provider[p].configured \in BOOLEAN
            BY <1>1, <2>1 DEF ProviderRows
        <3>2. had[p] = TRUE
            BY <2>1 DEF RowsInv, HadTokens, TokensOf
        <3>3. provider[p].configured = TRUE
            BY <2>1, <3>1, <3>2 DEF RowsInv, TokensAreOwned
        <3>4. provider'[p] = [provider[p] EXCEPT !.configured = TRUE]
            BY <1>2, <2>1
        <3> QED BY <3>1, <3>3, <3>4 DEF ProviderRows
    <2>2. CASE ~(provider[p] # None /\ TokensOf(p) # {})
        BY <1>2, <2>2
    <2> QED BY <2>1, <2>2
<1>4. provider' = provider
    BY <1>1, <1>2, <1>3
<1> QED BY <1>2, <1>4, SameRows

-----------------------------------------------------------------------------
(* Admin requests *)

LEMMA RestingIsPrepared == Prepared(Resting)
BY DEF Prepared, AdminRows, Resting

\* One admin request takes a step.
LEMMA OneAdmin ==
    ASSUME AdminTypes, NEW a \in Admins, NEW q, Prepared(q), admins' = [admins EXCEPT ![a] = q]
    PROVE  AdminTypes' /\ admins'[a] = q /\ \A b \in Admins \ {a} : admins'[b] = admins[b]
<1>1. q \in AdminRows
    BY DEF Prepared
<1>2. admins' \in [Admins -> AdminRows] /\ admins'[a] = q /\ \A b \in Admins \ {a} : admins'[b] = admins[b]
    BY <1>1 DEF AdminTypes
<1>3. \A b \in Admins : Prepared(admins'[b])
    BY <1>2 DEF AdminTypes
<1> QED BY <1>2, <1>3 DEF AdminTypes

\* An edit goes on to its next step.
LEMMA EditGoesOn ==
    ASSUME AdminTypes, NEW a \in Admins, Edits(a), NEW c \in {"save", "apply"},
           admins' = [admins EXCEPT ![a].pc = c]
    PROVE  /\ AdminTypes'
           /\ admins'[a].pc = c /\ admins'[a].entries = admins[a].entries
           /\ \A b \in Admins \ {a} : admins'[b] = admins[b]
<1> DEFINE q == [admins[a] EXCEPT !.pc = c]
<1>1. admins[a] \in AdminRows /\ admins[a].model \in Models /\ admins[a].pc # "insert"
    BY DEF AdminTypes, Prepared, Edits
<1>2. q \in AdminRows /\ q.pc = c /\ q.model = admins[a].model /\ q.entries = admins[a].entries
    BY <1>1 DEF AdminRows
<1>3. admins' = [admins EXCEPT ![a] = q]
    OBVIOUS
<1> HIDE DEF q
<1>4. Prepared(q)
    BY <1>1, <1>2 DEF Prepared
<1>5. AdminTypes' /\ admins'[a] = q /\ \A b \in Admins \ {a} : admins'[b] = admins[b]
    BY <1>3, <1>4, OneAdmin
<1> QED BY <1>2, <1>5

-----------------------------------------------------------------------------
(* The catalog *)

\* Nothing of the catalog changes, and the admin request that steps does not
\* edit, before or after.
LEMMA CatalogStays ==
    ASSUME CatalogInv, UNCHANGED catalogVars,
           \A a \in Admins : admins'[a] = admins[a] \/ admins'[a].pc \in {"idle", "insert"}
    PROVE  CatalogInv'
<1>1. catalog' = catalog /\ meant' = meant /\ saved' = saved /\ catalogMu' = catalogMu
    BY DEF catalogVars
<1>2. ASSUME NEW a \in Admins
      PROVE  /\ Edits(a)' => catalogMu' = a
             /\ admins'[a].pc \in {"check", "save"} => admins'[a].entries = meant' /\ catalog' = meant'
             /\ admins'[a].pc = "apply" => saved' = meant'
    BY <1>1 DEF CatalogInv, Edits
<1> QED BY <1>1, <1>2 DEF CatalogInv

LEMMA LockKeepsCatalog ==
    ASSUME CatalogInv, AdminTypes, None \notin Admins,
           NEW a \in Admins, NEW m \in Models, NEW v \in Mappings \union {None}, LockCatalog(a, m, v)
    PROVE  CatalogInv' /\ AdminTypes'
<1> DEFINE q == [Resting EXCEPT !.pc = "check", !.entries = catalog, !.model = m, !.mapping = v]
<1>1. admins' = [admins EXCEPT ![a] = q]
    BY DEF LockCatalog
<1>2. q.pc = "check" /\ q.entries = catalog /\ q.model = m
    BY DEF Resting
<1>3. Prepared(q)
    <2>1. catalog \in Catalogs
        BY DEF CatalogInv
    <2>2. Resting \in AdminRows
        BY RestingIsPrepared DEF Prepared
    <2>3. q \in AdminRows
        BY <2>1, <2>2 DEF AdminRows
    <2> QED BY <1>2, <2>3 DEF Prepared
<1>4. catalogMu = None /\ catalogMu' = a /\ catalog' = catalog /\ saved' = saved /\ meant' = meant
    BY DEF LockCatalog
<1> HIDE DEF q
<1>5. AdminTypes' /\ admins'[a] = q /\ \A b \in Admins \ {a} : admins'[b] = admins[b]
    BY <1>1, <1>3, OneAdmin
<1>6. \A b \in Admins : ~Edits(b)
    BY <1>4 DEF CatalogInv
<1>7. ASSUME NEW b \in Admins
      PROVE  /\ Edits(b)' => catalogMu' = b
             /\ admins'[b].pc \in {"check", "save"} => admins'[b].entries = meant' /\ catalog' = meant'
             /\ admins'[b].pc = "apply" => saved' = meant'
    <2>1. CASE b = a
        BY <1>2, <1>4, <1>5, <2>1 DEF Edits, CatalogInv
    <2>2. CASE b # a
        BY <1>5, <1>6, <2>2 DEF Edits
    <2> QED BY <2>1, <2>2
<1> QED BY <1>4, <1>5, <1>7 DEF CatalogInv

\* The holder of the lock gives it up with the catalog in memory up to date.
LEMMA UnlockKeepsCatalog ==
    ASSUME CatalogInv, AdminTypes, NEW a \in Admins, Edits(a), catalogMu' = None, saved' = saved, meant' = meant,
           catalog' = meant, admins' = [admins EXCEPT ![a] = Resting]
    PROVE  CatalogInv' /\ AdminTypes'
<1>1. AdminTypes' /\ admins'[a] = Resting /\ \A b \in Admins \ {a} : admins'[b] = admins[b]
    BY RestingIsPrepared, OneAdmin
<1>2. \A b \in Admins \ {a} : ~Edits(b)
    BY DEF CatalogInv
<1>3. \A b \in Admins : admins'[b].pc \notin {"check", "save", "apply"}
    <2>1. Resting.pc = "idle"
        BY DEF Resting
    <2> QED BY <1>1, <1>2, <2>1 DEF Edits
<1>4. \A b \in Admins : ~Edits(b)'
    BY <1>3 DEF Edits
<1> QED BY <1>1, <1>3, <1>4 DEF CatalogInv

LEMMA CheckKeepsCatalog ==
    ASSUME CatalogInv, AdminTypes, NEW a \in Admins, CheckMapping(a)
    PROVE  CatalogInv' /\ AdminTypes'
<1>1. Edits(a) /\ admins[a].pc = "check" /\ catalog = meant
    BY DEF CheckMapping, Edits, CatalogInv
<1>2. CASE admins' = [admins EXCEPT ![a].pc = "save"] /\ UNCHANGED catalogVars
    <2>1. /\ AdminTypes'
          /\ admins'[a].pc = "save" /\ admins'[a].entries = admins[a].entries
          /\ \A b \in Admins \ {a} : admins'[b] = admins[b]
        BY <1>1, <1>2, EditGoesOn
    <2>2. catalog' = catalog /\ meant' = meant /\ saved' = saved /\ catalogMu' = catalogMu
        BY <1>2 DEF catalogVars
    <2>3. ASSUME NEW b \in Admins
          PROVE  /\ Edits(b)' => catalogMu' = b
                 /\ admins'[b].pc \in {"check", "save"} => admins'[b].entries = meant' /\ catalog' = meant'
                 /\ admins'[b].pc = "apply" => saved' = meant'
        <3>1. CASE b = a
            BY <1>1, <2>1, <2>2, <3>1 DEF Edits, CatalogInv
        <3>2. CASE b # a
            BY <2>1, <2>2, <3>2 DEF Edits, CatalogInv
        <3> QED BY <3>1, <3>2
    <2> QED BY <2>1, <2>2, <2>3 DEF CatalogInv
<1>3. CASE Unlock(a)
    BY <1>1, <1>3, UnlockKeepsCatalog DEF Unlock
<1> QED BY <1>2, <1>3 DEF CheckMapping

LEMMA SaveKeepsCatalog ==
    ASSUME CatalogInv, AdminTypes, NEW a \in Admins, SaveCatalog(a)
    PROVE  CatalogInv' /\ AdminTypes'
<1>1. Edits(a) /\ admins[a].pc = "save" /\ catalog = meant /\ admins[a].entries = meant
    BY DEF SaveCatalog, Edits, CatalogInv
<1>2. CASE /\ saved' = [admins[a].entries EXCEPT ![admins[a].model] = admins[a].mapping]
           /\ meant' = [meant EXCEPT ![admins[a].model] = admins[a].mapping]
           /\ admins' = [admins EXCEPT ![a].pc = "apply"]
           /\ catalog' = catalog /\ catalogMu' = catalogMu
    <2>1. /\ AdminTypes'
          /\ admins'[a].pc = "apply" /\ admins'[a].entries = admins[a].entries
          /\ \A b \in Admins \ {a} : admins'[b] = admins[b]
        BY <1>1, <1>2, EditGoesOn
    <2>2. saved' = meant' /\ catalog' = catalog /\ catalogMu' = a
        BY <1>1, <1>2 DEF CatalogInv
    <2>3. meant' \in Catalogs
        <3>1. admins[a].mapping \in Mappings \union {None}
            BY DEF AdminTypes, AdminRows
        <3> QED BY <1>2, <3>1 DEF CatalogInv, Catalogs
    <2>4. a # None
        OBVIOUS
    <2>5. \A b \in Admins \ {a} : ~Edits(b)
        BY <1>1 DEF CatalogInv
    <2>6. ASSUME NEW b \in Admins
          PROVE  /\ Edits(b)' => catalogMu' = b
                 /\ admins'[b].pc \in {"check", "save"} => admins'[b].entries = meant' /\ catalog' = meant'
                 /\ admins'[b].pc = "apply" => saved' = meant'
        <3>1. CASE b = a
            BY <2>1, <2>2, <3>1
        <3>2. CASE b # a
            BY <2>1, <2>5, <3>2 DEF Edits
        <3> QED BY <3>1, <3>2
    <2> QED BY <2>1, <2>2, <2>3, <2>4, <2>6 DEF CatalogInv
<1>3. CASE Unlock(a)
    BY <1>1, <1>3, UnlockKeepsCatalog DEF Unlock
<1> QED BY <1>2, <1>3 DEF SaveCatalog

LEMMA ApplyKeepsCatalog ==
    ASSUME CatalogInv, AdminTypes, NEW a \in Admins, ApplyCatalog(a)
    PROVE  CatalogInv' /\ AdminTypes'
<1>1. Edits(a) /\ saved = meant
    BY DEF ApplyCatalog, Edits, CatalogInv
<1> QED BY <1>1, UnlockKeepsCatalog DEF ApplyCatalog

LEMMA RestartKeepsCatalog ==
    ASSUME CatalogInv, NEW env \in Catalogs, Restart(env)
    PROVE  CatalogInv' /\ AdminTypes'
<1>1. \A a \in Admins : admins'[a] = Resting
    BY DEF Restart
<1>2. AdminTypes'
    <2>1. admins' \in [Admins -> AdminRows]
        BY RestingIsPrepared DEF Restart, Prepared
    <2> QED BY <1>1, <2>1, RestingIsPrepared DEF AdminTypes
<1>3. \A a \in Admins : admins'[a].pc = "idle"
    BY <1>1 DEF Resting
<1>4. \A a \in Admins : ~Edits(a)'
    BY <1>3 DEF Edits
<1>5. /\ catalog' = meant' /\ saved' = saved /\ catalogMu' = None /\ meant' \in Catalogs
      /\ saved # None => meant' = meant
    BY DEF Restart, CatalogInv
<1>6. saved # None => saved = meant
    BY DEF CatalogInv
<1>7. saved' \in Catalogs \union {None}
    BY <1>5 DEF CatalogInv
<1> QED BY <1>2, <1>3, <1>4, <1>5, <1>6, <1>7 DEF CatalogInv

\* A token is inserted, or its request begins.
LEMMA TokenRequests ==
    ASSUME CatalogInv, AdminTypes, NEW a \in Admins,
           \/ \E s \in Secrets : InsertToken(a, s)
           \/ \E p \in Providers : BeginToken(a, p)
    PROVE  CatalogInv' /\ AdminTypes'
<1>1. PICK q : Prepared(q) /\ q.pc \in {"idle", "insert"} /\ admins' = [admins EXCEPT ![a] = q]
    <2>1. CASE \E s \in Secrets : InsertToken(a, s)
        BY <2>1, RestingIsPrepared DEF InsertToken, Resting
    <2>2. CASE \E p \in Providers : BeginToken(a, p)
        <3>1. PICK p \in Providers, t \in Tokens :
                 admins' = [admins EXCEPT ![a] = [Resting EXCEPT !.pc = "insert", !.provider = p, !.id = t]]
            BY <2>2 DEF BeginToken
        <3> DEFINE q == [Resting EXCEPT !.pc = "insert", !.provider = p, !.id = t]
        <3>2. q.pc = "insert" /\ q.provider = p /\ q.id = t
            BY DEF Resting
        <3>3. q \in AdminRows
            BY RestingIsPrepared DEF Prepared, AdminRows
        <3>4. Prepared(q)
            BY <3>2, <3>3 DEF Prepared
        <3> QED BY <3>1, <3>2, <3>4
    <2> QED BY <2>1, <2>2
<1>2. AdminTypes' /\ admins'[a] = q /\ \A b \in Admins \ {a} : admins'[b] = admins[b]
    BY <1>1, OneAdmin
<1>3. UNCHANGED catalogVars
    BY DEF InsertToken, BeginToken
<1> QED BY <1>1, <1>2, <1>3, CatalogStays

-----------------------------------------------------------------------------
(* Credentials *)

\* There is a first token among some.
LEMMA FirstExists ==
    ASSUME NEW S \in SUBSET Tokens, S # {}
    PROVE  First(S) \in S
<1>1. S \subseteq Nat
    BY DEF Tokens
<1>2. PICK t \in S : \A u \in S : ~(<<u, t>> \in OpToRel(<, Nat))
    BY <1>1, NatLessThanWellFounded, WFMin, Zenon
<1>3. \A u \in S : ~(u < t)
    BY <1>1, <1>2 DEF OpToRel
<1>4. \A u \in S : t <= u
    BY <1>1, <1>3
<1> QED BY <1>4 DEF First

\* The token a request is given is an enabled one of its provider.
LEMMA CredentialIsOwn ==
    ASSUME RowsInv, NEW p \in Providers, provider[p] # None
    PROVE  /\ Credential(p) \in Secrets \union {None}
           /\ ~Unavailable(p) => Credential(p) \in Belonging(p)
<1>1. provider[p] \in ProviderRows /\ had[p] \in BOOLEAN
    BY DEF RowsInv, RowTypes
<1>2. provider[p].configured \in BOOLEAN
    BY <1>1 DEF ProviderRows
<1>3. provider[p].configured = TRUE <=> had[p] = TRUE
    BY <1>1, <1>2 DEF RowsInv, TokensAreOwned
<1>4. \A t \in Enabled(p) : tokens[t].secret \in Secrets
    BY DEF Enabled, TokensOf, RowsInv, RowTypes, TokenRows
<1>5. CASE IsHarnessType(provider[p].type)
    BY <1>5 DEF Credential, Belonging
<1>6. CASE ~IsHarnessType(provider[p].type) /\ Enabled(p) = {}
    BY <1>2, <1>3, <1>6 DEF Credential, Belonging, Unavailable
<1>7. CASE ~IsHarnessType(provider[p].type) /\ Enabled(p) # {}
    <2>1. First(Enabled(p)) \in Enabled(p)
        <3>1. Enabled(p) \in SUBSET Tokens
            BY DEF Enabled, TokensOf
        <3> QED BY <1>7, <3>1, FirstExists
    <2> QED BY <1>4, <1>7, <2>1 DEF Credential, Belonging
<1> QED BY <1>5, <1>6, <1>7

-----------------------------------------------------------------------------
(* Replies *)

LEMMA QuietIsWhole == Whole(Quiet)
<1>1. Quiet \in Replies
    BY DEF Quiet, Replies
<1>2. Quiet.pc = "idle" /\ Quiet.pinger = "off" /\ Quiet.lines = <<>>
    BY DEF Quiet
<1> QED BY <1>1, <1>2 DEF Whole

\* One reply takes a step.
LEMMA OneReply ==
    ASSUME RepliesInv, NEW r \in Requests, NEW q, Whole(q), requests' = [requests EXCEPT ![r] = q]
    PROVE  RepliesInv' /\ requests'[r] = q /\ \A b \in Requests \ {r} : requests'[b] = requests[b]
<1>1. q \in Replies
    BY DEF Whole
<1>2. requests' \in [Requests -> Replies] /\ requests'[r] = q /\ \A b \in Requests \ {r} : requests'[b] = requests[b]
    BY <1>1 DEF RepliesInv
<1>3. \A b \in Requests : Whole(requests'[b])
    BY <1>2 DEF RepliesInv
<1> QED BY <1>2, <1>3 DEF RepliesInv

LEMMA ResolvedIsWhole ==
    ASSUME RowsInv, RepliesInv, NEW r \in Requests, NEW p \in Providers, Resolve(r, p)
    PROVE  /\ RepliesInv'
           /\ requests'[r].pc = "options" /\ requests'[r].provider = p /\ requests'[r].url = provider[p].url
           /\ requests'[r].credential = Credential(p) /\ requests'[r].unavailable = Unavailable(p)
           /\ \A b \in Requests \ {r} : requests'[b] = requests[b]
<1> DEFINE q == [Quiet EXCEPT !.pc = "options", !.provider = p, !.url = provider[p].url,
                              !.credential = Credential(p), !.unavailable = Unavailable(p)]
<1>1. requests' = [requests EXCEPT ![r] = q]
    BY DEF Resolve
<1>2. /\ q.pc = "options" /\ q.provider = p /\ q.url = provider[p].url
      /\ q.credential = Credential(p) /\ q.unavailable = Unavailable(p)
      /\ q.pinger = "off" /\ q.lines = <<>>
    BY DEF Quiet
<1>3. provider[p].url \in Urls /\ Credential(p) \in Secrets \union {None} /\ Unavailable(p) \in BOOLEAN
    <2>1. provider[p] # None
        BY DEF Resolve
    <2>2. provider[p].url \in Urls /\ provider[p].configured \in BOOLEAN
        BY <2>1 DEF RowsInv, RowTypes, ProviderRows
    <2>3. Unavailable(p) \in BOOLEAN
        BY <2>2 DEF Unavailable
    <2> QED BY <2>1, <2>2, <2>3, CredentialIsOwn
<1>4. Quiet \in Replies
    BY QuietIsWhole DEF Whole
<1>5. q \in Replies
    BY <1>3, <1>4 DEF Replies
<1> HIDE DEF q
<1>6. Whole(q)
    BY <1>2, <1>5 DEF Whole
<1>7. RepliesInv' /\ requests'[r] = q /\ \A b \in Requests \ {r} : requests'[b] = requests[b]
    BY <1>1, <1>6, OneReply
<1> QED BY <1>2, <1>7

\* A line is added to a reply.
LEMMA LineAdded ==
    ASSUME NEW q \in Replies, NEW k \in Kinds
    PROVE  LET ls == Append(q.lines, k)
           IN  /\ ls \in Seq(Kinds) /\ Len(ls) = Len(q.lines) + 1 /\ ls[Len(ls)] = k
               /\ \A i \in 1..Len(q.lines) : ls[i] = q.lines[i]
<1>1. q.lines \in Seq(Kinds)
    BY DEF Replies
<1> QED BY <1>1

\* A ping or a delta, before the handler returns.
LEMMA LineIsWhole ==
    ASSUME RepliesInv, NEW r \in Requests, NEW k \in {"ping", "delta"}, requests[r].pc # "returned", Line(r, k)
    PROVE  /\ RepliesInv'
           /\ requests'[r].pc = requests[r].pc /\ requests'[r].provider = requests[r].provider
           /\ requests'[r].url = requests[r].url /\ requests'[r].credential = requests[r].credential
           /\ \A b \in Requests \ {r} : requests'[b] = requests[b]
<1> DEFINE q == requests[r]
           ls == Append(q.lines, k)
           n == [q EXCEPT !.lines = ls]
<1>1. q \in Replies /\ Whole(q) /\ k \in Kinds /\ k \notin Final
    BY DEF RepliesInv, Kinds, Final
<1>2. q.pc \in {"idle", "options", "sent", "ending", "returned"} /\ q.lines \in Seq(Kinds)
    BY <1>1 DEF Replies
<1>3. requests' = [requests EXCEPT ![r] = n]
    BY DEF Line
<1>0. /\ ls \in Seq(Kinds) /\ Len(ls) = Len(q.lines) + 1 /\ ls[Len(ls)] = k
      /\ \A i \in 1..Len(q.lines) : ls[i] = q.lines[i]
    BY <1>1, LineAdded
<1> HIDE DEF ls
<1>4. /\ n \in Replies /\ n.pc = q.pc /\ n.pinger = q.pinger /\ n.lines = ls
      /\ n.provider = q.provider /\ n.url = q.url /\ n.credential = q.credential
    BY <1>0, <1>1 DEF Replies
<1> HIDE DEF n
<1>5. q.pc # "returned" /\ Len(q.lines) \in Nat
    BY <1>2
<1> HIDE DEF q
<1>6. \A i \in 1..Len(ls) : ls[i] \notin Final
    <2>1. \A i \in 1..Len(q.lines) : q.lines[i] \notin Final
        BY <1>1, <1>5 DEF Whole
    <2>2. \A i \in 1..Len(ls) : i \in 1..Len(q.lines) \/ i = Len(ls)
        BY <1>0, <1>5
    <2> QED BY <1>0, <1>1, <2>1, <2>2
<1>7. Whole(n)
    BY <1>1, <1>4, <1>5, <1>6 DEF Whole
<1>8. RepliesInv' /\ requests'[r] = n /\ \A b \in Requests \ {r} : requests'[b] = requests[b]
    BY <1>3, <1>7, OneReply
<1> QED BY <1>4, <1>8 DEF q

\* The last line, and the return.
LEMMA FinishedIsWhole ==
    ASSUME RepliesInv, NEW r \in Requests, NEW k \in Final, Finish(r, k)
    PROVE  RepliesInv' /\ requests'[r].pc = "returned" /\ \A b \in Requests \ {r} : requests'[b] = requests[b]
<1> DEFINE q == requests[r]
           ls == Append(q.lines, k)
           n == [[q EXCEPT !.pc = "returned"] EXCEPT !.lines = ls]
<1>1. q \in Replies /\ Whole(q) /\ k \in Kinds
    BY DEF RepliesInv, Kinds, Final
<1>2. q.pc = "ending" /\ q.pinger = "off" /\ Len(q.lines) \in Nat
    BY <1>1 DEF Finish, Replies
<1>3. requests' = [requests EXCEPT ![r] = n]
    BY <1>1 DEF Finish, Replies
<1>4. /\ ls \in Seq(Kinds) /\ Len(ls) = Len(q.lines) + 1 /\ ls[Len(ls)] = k
      /\ \A i \in 1..Len(q.lines) : ls[i] = q.lines[i]
    BY <1>1, LineAdded
<1> HIDE DEF ls
<1>5. n \in Replies /\ n.pc = "returned" /\ n.pinger = "off" /\ n.lines = ls
    BY <1>1, <1>2, <1>4 DEF Replies
<1> HIDE DEF n
<1>6. Len(ls) > 0 /\ \A i \in 1..(Len(ls) - 1) : ls[i] \notin Final
    <2>1. \A i \in 1..Len(q.lines) : q.lines[i] \notin Final
        BY <1>1, <1>2 DEF Whole
    <2>2. Len(ls) > 0 /\ Len(ls) - 1 = Len(q.lines)
        BY <1>2, <1>4
    <2> QED BY <1>4, <2>1, <2>2
<1>7. Whole(n)
    BY <1>4, <1>5, <1>6 DEF Whole
<1> QED BY <1>3, <1>5, <1>7, OneReply

\* What a reply is about, while it goes on.
SameAim(n, q) == n.provider = q.provider /\ n.url = q.url /\ n.credential = q.credential

\* The fields of a reply that its lines do not depend on.
LEMMA ChangedIsWhole ==
    ASSUME NEW q, Whole(q), q.pc # "returned", NEW n \in Replies, n.pc \in {"sent", "ending"}, n.lines = q.lines
    PROVE  Whole(n)
BY DEF Whole

\* A reply is begun, its pings are stopped, or it ends.
LEMMA ChangesAreWhole ==
    ASSUME RepliesInv, NEW r \in Requests,
           (\E b \in BOOLEAN : BeginReply(r, b)) \/ StopPinging(r) \/ EndPings(r)
    PROVE  /\ RepliesInv'
           /\ requests[r].pc = "options" \/ requests'[r].pc = requests[r].pc \/ requests'[r].pc = "ending"
           /\ SameAim(requests'[r], requests[r])
           /\ \A b \in Requests \ {r} : requests'[b] = requests[b]
<1> DEFINE q == requests[r]
<1>1. q \in Replies /\ Whole(q)
    BY DEF RepliesInv
<1>2. q.stream \in BOOLEAN /\ q.pc \in {"idle", "options", "sent", "ending", "returned"}
    BY <1>1 DEF Replies
<1>3. CASE \E b \in BOOLEAN : BeginReply(r, b)
    <2>1. PICK b \in BOOLEAN : BeginReply(r, b)
        BY <1>3
    <2> DEFINE g == IF b THEN "on" ELSE "off"
               n == [[[q EXCEPT !.pc = "sent"] EXCEPT !.stream = b] EXCEPT !.pinger = g]
    <2>2. requests' = [requests EXCEPT ![r] = n] /\ q.pc = "options"
        BY <1>1, <2>1 DEF BeginReply
    <2>3. g \in {"off", "on", "stopping"}
        OBVIOUS
    <2> HIDE DEF g
    <2>4. n \in Replies /\ n.pc = "sent" /\ n.lines = q.lines
        BY <1>1, <2>3 DEF Replies
    <2>5. SameAim(n, q)
        BY <1>1 DEF Replies, SameAim
    <2> HIDE DEF n
    <2>6. Whole(n)
        BY <1>1, <2>2, <2>4, ChangedIsWhole
    <2> QED BY <2>2, <2>5, <2>6, OneReply
<1>4. CASE StopPinging(r)
    <2> DEFINE n == [q EXCEPT !.pinger = "off"]
    <2>1. requests' = [requests EXCEPT ![r] = n] /\ q.pinger = "stopping"
        BY <1>4 DEF StopPinging
    <2>2. n \in Replies /\ n.pc = q.pc /\ n.lines = q.lines /\ n.pinger = "off"
        BY <1>1 DEF Replies
    <2>3. SameAim(n, q)
        BY <1>1 DEF Replies, SameAim
    <2> HIDE DEF n, q
    <2>4. Whole(n)
        BY <1>1, <2>2 DEF Whole
    <2>5. RepliesInv' /\ requests'[r] = n /\ \A b \in Requests \ {r} : requests'[b] = requests[b]
        BY <2>1, <2>4, OneReply
    <2> QED BY <2>2, <2>3, <2>5 DEF q
<1>5. CASE EndPings(r)
    <2> DEFINE g == IF q.stream THEN "stopping" ELSE "off"
               n == [[q EXCEPT !.pc = "ending"] EXCEPT !.pinger = g]
    <2>1. requests' = [requests EXCEPT ![r] = n] /\ q.pc = "sent"
        BY <1>1, <1>5 DEF EndPings
    <2>2. g \in {"off", "on", "stopping"}
        OBVIOUS
    <2> HIDE DEF g
    <2>3. n \in Replies /\ n.pc = "ending" /\ n.lines = q.lines
        BY <1>1, <2>2 DEF Replies
    <2>4. SameAim(n, q)
        BY <1>1 DEF Replies, SameAim
    <2> HIDE DEF n
    <2>5. Whole(n)
        BY <1>1, <2>1, <2>3, ChangedIsWhole
    <2> QED BY <2>1, <2>3, <2>4, <2>5, OneReply
<1> QED BY <1>3, <1>4, <1>5

\* A request is refused or over.
LEMMA QuietedIsWhole ==
    ASSUME RepliesInv, NEW r \in Requests, Refuse(r) \/ Forget(r)
    PROVE  RepliesInv' /\ requests'[r].pc = "idle" /\ \A b \in Requests \ {r} : requests'[b] = requests[b]
<1>1. requests' = [requests EXCEPT ![r] = Quiet]
    BY DEF Refuse, Forget
<1>2. Quiet.pc = "idle"
    BY DEF Quiet
<1> QED BY <1>1, <1>2, QuietIsWhole, OneReply

-----------------------------------------------------------------------------
(* The steps *)

\* The parts of a step that change rows, admin requests, or replies.
RowStep ==
    \/ \E p \in Providers :
         \/ DeleteProvider(p)
         \/ \E u \in Urls, t \in Types : CreateProvider(p, u, t) \/ \E e \in BOOLEAN : PatchProvider(p, u, t, e)
    \/ \E t \in Tokens :
         DeleteToken(t) \/ \E s \in Secrets, e \in BOOLEAN : PatchToken(t, s, e)

AdminStep ==
    \E a \in Admins :
        \/ \E p \in Providers : BeginToken(a, p)
        \/ \E s \in Secrets : InsertToken(a, s)
        \/ \E m \in Models, v \in Mappings \union {None} : LockCatalog(a, m, v)
        \/ CheckMapping(a) \/ SaveCatalog(a) \/ ApplyCatalog(a)

ReplyStep ==
    \E r \in Requests :
        \/ \E p \in Providers : Resolve(r, p)
        \/ (\E b \in BOOLEAN : BeginReply(r, b)) \/ StopPinging(r) \/ EndPings(r)
        \/ Refuse(r) \/ Forget(r) \/ Delta(r) \/ Ping(r)
        \/ \E k \in Final : Finish(r, k)

LEMMA StepsAreOfAPart == LLMStep <=> RowStep \/ AdminStep \/ ReplyStep \/ \E env \in Catalogs : Restart(env)
BY DEF LLMStep, RowStep, AdminStep, ReplyStep, Final

LEMMA SameAdmins ==
    ASSUME AdminTypes, CatalogInv, admins' = admins, UNCHANGED catalogVars
    PROVE  AdminTypes' /\ CatalogInv'
<1>1. AdminTypes'
    BY DEF AdminTypes
<1> QED BY <1>1, CatalogStays

LEMMA SameReplies ==
    ASSUME RepliesInv, requests' = requests
    PROVE  RepliesInv'
BY DEF RepliesInv

\* What a request is given is configured, and what it was given it keeps.
Aimed(r) ==
    requests'[r].pc = "sent" \/ (requests'[r].pc = "options" /\ ~requests'[r].unavailable) =>
        IF requests[r].pc \in {"options", "sent"}
        THEN SameAim(requests'[r], requests[r])
        ELSE <<requests'[r].provider, requests'[r].url, requests'[r].credential>> \in Pairs

LEMMA SameRepliesAimed ==
    ASSUME NEW r \in Requests, requests'[r] = requests[r]
    PROVE  Aimed(r)
BY DEF Aimed, SameAim

LEMMA ReplyStepAimed ==
    ASSUME RowsInv, RepliesInv, ReplyStep
    PROVE  RepliesInv' /\ \A r \in Requests : Aimed(r)
<1>1. PICK r \in Requests :
         \/ \E p \in Providers : Resolve(r, p)
         \/ (\E b \in BOOLEAN : BeginReply(r, b)) \/ StopPinging(r) \/ EndPings(r)
         \/ Refuse(r) \/ Forget(r) \/ Delta(r) \/ Ping(r)
         \/ \E k \in Final : Finish(r, k)
    BY DEF ReplyStep
<1>2. SUFFICES RepliesInv' /\ Aimed(r) /\ \A b \in Requests \ {r} : requests'[b] = requests[b]
    BY SameRepliesAimed
<1>3. CASE \E p \in Providers : Resolve(r, p)
    <2>1. PICK p \in Providers : Resolve(r, p)
        BY <1>3
    <2>2. provider[p] # None /\ requests[r].pc = "idle"
        BY <2>1 DEF Resolve
    <2>3. /\ RepliesInv'
          /\ requests'[r].pc = "options" /\ requests'[r].provider = p /\ requests'[r].url = provider[p].url
          /\ requests'[r].credential = Credential(p) /\ requests'[r].unavailable = Unavailable(p)
          /\ \A b \in Requests \ {r} : requests'[b] = requests[b]
        BY <2>1, ResolvedIsWhole
    <2>4. ~Unavailable(p) => <<p, provider[p].url, Credential(p)>> \in Pairs
        <3>1. ~Unavailable(p) => Credential(p) \in Belonging(p)
            BY <2>2, CredentialIsOwn
        <3> QED BY <2>2, <3>1 DEF Pairs
    <2> QED BY <2>2, <2>3, <2>4 DEF Aimed
<1>4. CASE (\E b \in BOOLEAN : BeginReply(r, b)) \/ StopPinging(r) \/ EndPings(r)
    <2>1. /\ RepliesInv'
          /\ requests[r].pc = "options" \/ requests'[r].pc = requests[r].pc \/ requests'[r].pc = "ending"
          /\ SameAim(requests'[r], requests[r])
          /\ \A b \in Requests \ {r} : requests'[b] = requests[b]
        BY <1>4, ChangesAreWhole
    <2> QED BY <2>1 DEF Aimed
<1>5. CASE Refuse(r) \/ Forget(r)
    <2>1. RepliesInv' /\ requests'[r].pc = "idle" /\ \A b \in Requests \ {r} : requests'[b] = requests[b]
        BY <1>5, QuietedIsWhole
    <2> QED BY <2>1 DEF Aimed
<1>6. CASE Delta(r) \/ Ping(r)
    <2>1. PICK k \in {"ping", "delta"} : Line(r, k)
        BY <1>6 DEF Delta, Ping
    <2>2. requests[r].pc # "returned"
        BY <1>6 DEF Delta, Ping, RepliesInv, Whole
    <2>3. /\ RepliesInv'
          /\ requests'[r].pc = requests[r].pc /\ requests'[r].provider = requests[r].provider
          /\ requests'[r].url = requests[r].url /\ requests'[r].credential = requests[r].credential
          /\ \A b \in Requests \ {r} : requests'[b] = requests[b]
        BY <2>1, <2>2, LineIsWhole
    <2> QED BY <2>3 DEF Aimed, SameAim
<1>7. CASE \E k \in Final : Finish(r, k)
    <2>1. RepliesInv' /\ requests'[r].pc = "returned" /\ \A b \in Requests \ {r} : requests'[b] = requests[b]
        BY <1>7, FinishedIsWhole
    <2> QED BY <2>1 DEF Aimed
<1> QED BY <1>1, <1>3, <1>4, <1>5, <1>6, <1>7

LEMMA RestartReplies ==
    ASSUME NEW env \in Catalogs, Restart(env)
    PROVE  RepliesInv' /\ \A r \in Requests : Aimed(r)
<1>1. \A r \in Requests : requests'[r] = Quiet /\ requests'[r].pc = "idle"
    BY DEF Restart, Quiet
<1>2. requests' \in [Requests -> Replies]
    BY QuietIsWhole DEF Restart, Whole
<1>3. \A r \in Requests : Whole(requests'[r])
    BY <1>1, QuietIsWhole
<1> QED BY <1>1, <1>2, <1>3 DEF RepliesInv, Aimed

\* Every step keeps the invariant, and aims requests only at what is
\* configured.
LEMMA LLMStepKeeps ==
    ASSUME LLMInv, LLMStep, HadStep
    PROVE  LLMInv' /\ \A r \in Requests : Aimed(r)
<1> USE DEF LLMInv
<1>1. RowsInv /\ AdminTypes
    BY DEF RowsInv
<1>2. CASE RowStep
    <2>1. RowTypes' /\ TokensAreOwned' /\ HadTokens'
        BY <1>1, <1>2, DeleteRows, CreateRows, PatchRows, DeleteTokenRows, PatchTokenRows DEF RowStep
    <2>2. admins' = admins /\ UNCHANGED catalogVars /\ requests' = requests
        BY <1>2 DEF RowStep, DeleteProvider, CreateProvider, PatchProvider, DeleteToken, PatchToken
    <2>3. AdminTypes' /\ CatalogInv'
        BY <1>1, <2>2, SameAdmins
    <2> QED BY <2>1, <2>2, <2>3, SameReplies, SameRepliesAimed DEF RowsInv
<1>3. CASE AdminStep
    <2>1. PICK a \in Admins :
            \/ \E p \in Providers : BeginToken(a, p)
            \/ \E s \in Secrets : InsertToken(a, s)
            \/ \E m \in Models, v \in Mappings \union {None} : LockCatalog(a, m, v)
            \/ CheckMapping(a) \/ SaveCatalog(a) \/ ApplyCatalog(a)
        BY <1>3 DEF AdminStep
    <2>2. RowTypes' /\ TokensAreOwned' /\ HadTokens'
        <3>1. CASE \E s \in Secrets : InsertToken(a, s)
            BY <1>1, <3>1, InsertRows
        <3>2. CASE ~ \E s \in Secrets : InsertToken(a, s)
            <4>1. UNCHANGED rows
                BY <2>1, <3>2 DEF BeginToken, LockCatalog, CheckMapping, SaveCatalog, ApplyCatalog, Unlock
            <4> QED BY <1>1, <4>1, SameRows DEF rows
        <3> QED BY <3>1, <3>2
    <2>3. AdminTypes' /\ CatalogInv'
        BY <1>1, <2>1, TokenRequests, LockKeepsCatalog, CheckKeepsCatalog, SaveKeepsCatalog, ApplyKeepsCatalog
    <2>4. requests' = requests
        BY <2>1 DEF BeginToken, InsertToken, LockCatalog, CheckMapping, SaveCatalog, ApplyCatalog, Unlock
    <2> QED BY <2>2, <2>3, <2>4, SameReplies, SameRepliesAimed DEF RowsInv
<1>4. CASE ReplyStep
    <2>1. UNCHANGED rows /\ admins' = admins /\ UNCHANGED catalogVars
        BY <1>4 DEF ReplyStep, Resolve, BeginReply, StopPinging, EndPings, Refuse, Forget, Delta, Ping, Finish
    <2>2. RowTypes' /\ TokensAreOwned' /\ HadTokens'
        BY <1>1, <2>1, SameRows DEF rows
    <2>3. AdminTypes' /\ CatalogInv'
        BY <1>1, <2>1, SameAdmins
    <2> QED BY <1>1, <1>4, <2>2, <2>3, ReplyStepAimed DEF RowsInv
<1>5. CASE \E env \in Catalogs : Restart(env)
    BY <1>1, <1>5, RestartRows, RestartKeepsCatalog, RestartReplies DEF RowsInv
<1> QED BY <1>2, <1>3, <1>4, <1>5, StepsAreOfAPart

LEMMA LLMInitInv == LLMInit => LLMInv
<1> SUFFICES ASSUME LLMInit PROVE LLMInv
    OBVIOUS
<1>1. RowTypes /\ TokensAreOwned /\ HadTokens
    BY DEF LLMInit, RowTypes, TokensAreOwned, HadTokens
<1>2. AdminTypes
    BY RestingIsPrepared DEF LLMInit, AdminTypes, Prepared
<1>3. CatalogInv
    <2>1. \A a \in Admins : admins[a].pc = "idle"
        BY DEF LLMInit, Resting
    <2> QED BY <2>1 DEF LLMInit, CatalogInv, Edits
<1>4. RepliesInv
    BY QuietIsWhole DEF LLMInit, RepliesInv, Whole
<1> QED BY <1>1, <1>2, <1>3, <1>4 DEF LLMInv, RowsInv

LEMMA LLMInvInductive == LLMInv /\ [LLMNext]_llmVars => LLMInv'
<1> SUFFICES ASSUME LLMInv, [LLMNext]_llmVars PROVE LLMInv'
    OBVIOUS
<1>1. CASE LLMNext
    BY <1>1, LLMStepKeeps DEF LLMNext, HadStep
<1>2. CASE UNCHANGED llmVars
    BY <1>2 DEF llmVars, rows, catalogVars, LLMInv, RowsInv, RowTypes, AdminTypes, TokensAreOwned, HadTokens,
                CatalogInv, Edits, RepliesInv
<1> QED BY <1>1, <1>2

\* Every behaviour of the gateway keeps the invariant: its rows (SQLite), the
\* catalog and its lock, and the replies that are being written.
THEOREM GatewayInvariant == LLMSpec => []LLMInv
BY LLMInitInv, LLMInvInductive, PTL DEF LLMSpec

\* No token outlives its provider, and tokens_configured tells whether the
\* provider has ever had one, whatever admin requests interleave and wherever
\* the process stops (gateway.go: providerTokens, deleteProvider, Restart).
THEOREM TokensStayOwned == LLMSpec => []TokensAreOwned
<1>1. LLMInv => TokensAreOwned
    BY DEF LLMInv, RowsInv
<1> QED BY <1>1, GatewayInvariant, PTL

\* No saved edit of the catalog is lost to another edit or to a restart
\* (manageModels, loadSavedCatalog).
THEOREM CatalogEditsStay == LLMSpec => []CatalogEditsAreKept
<1>1. LLMInv => CatalogEditsAreKept
    BY DEF LLMInv, CatalogInv, CatalogEditsAreKept
<1> QED BY <1>1, GatewayInvariant, PTL

\* A reply has exactly one last line, and no line after its handler returned
\* (generateReply: line, ping, finish).
THEOREM RepliesEndOnce == LLMSpec => []RepliesAreWhole
<1>1. LLMInv => RepliesAreWhole
    <2> SUFFICES ASSUME RepliesInv PROVE RepliesAreWhole
        BY DEF LLMInv
    <2>1. ASSUME NEW r \in Requests
          PROVE  LET lines == requests[r].lines
                     final == {i \in DOMAIN lines : lines[i] \in {"done", "error"}}
                 IN  IF requests[r].pc = "returned"
                     THEN final = {Len(lines)} /\ requests[r].pinger = "off"
                     ELSE final = {}
        <3> DEFINE lines == requests[r].lines
        <3>1. Whole(requests[r]) /\ lines \in Seq(Kinds)
            BY DEF RepliesInv, Replies
        <3>2. Len(lines) \in Nat /\ DOMAIN lines = 1..Len(lines)
            BY <3>1
        <3>3. CASE requests[r].pc = "returned"
            <4>1. Len(lines) \in DOMAIN lines /\ lines[Len(lines)] \in Final
                BY <3>1, <3>2, <3>3 DEF Whole
            <4>2. \A i \in DOMAIN lines : i = Len(lines) \/ i \in 1..(Len(lines) - 1)
                BY <3>2
            <4>3. \A i \in DOMAIN lines : lines[i] \in Final => i = Len(lines)
                BY <3>1, <3>3, <4>2 DEF Whole
            <4>4. requests[r].pinger = "off"
                BY <3>1, <3>3 DEF Whole
            <4> HIDE DEF lines
            <4>5. {i \in DOMAIN lines : lines[i] \in Final} = {Len(lines)}
                BY <4>1, <4>3
            <4> QED BY <3>3, <4>4, <4>5 DEF Final, lines
        <3>4. CASE requests[r].pc # "returned"
            <4>1. \A i \in DOMAIN lines : lines[i] \notin Final
                BY <3>1, <3>2, <3>4 DEF Whole
            <4> QED BY <3>4, <4>1 DEF Final
        <3> QED BY <3>3, <3>4
    <2> QED BY <2>1 DEF RepliesAreWhole
<1> QED BY <1>1, GatewayInvariant, PTL

\* A request is given only a credential that is configured for its endpoint
\* at that instant, and keeps it (dispatchGenerate,
\* resolveProviderRequestSnapshot).
THEOREM CredentialsStayConfigured == LLMSpec => CredentialsAreConfigured
<1>1. ASSUME LLMInv, [LLMNext]_llmVars, NEW r \in Requests
      PROVE  Aimed(r)
    <2>1. CASE LLMNext
        BY <1>1, <2>1, LLMStepKeeps DEF LLMNext, HadStep
    <2>2. CASE UNCHANGED llmVars
        BY <2>2, SameRepliesAimed DEF llmVars
    <2> QED BY <1>1, <2>1, <2>2
<1>2. LLMInv /\ [LLMNext]_llmVars =>
        [\A r \in Requests :
           LET q == requests'[r]
               aim == <<q.provider, q.url, q.credential>>
           IN  q.pc = "sent" \/ (q.pc = "options" /\ ~q.unavailable) =>
                  IF requests[r].pc \in {"options", "sent"}
                  THEN aim = <<requests[r].provider, requests[r].url, requests[r].credential>>
                  ELSE aim \in Pairs]_llmVars
    BY <1>1 DEF Aimed, SameAim
<1> QED BY <1>2, GatewayInvariant, PTL DEF LLMSpec, CredentialsAreConfigured
=============================================================================
