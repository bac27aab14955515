-------------------------------- MODULE Sfae --------------------------------
(* sfae.* (core/src/sfae.rs): credentials of one domain in a store that all    *)
(* sandboxes of the host share, and the OAuth tokens among them, which the     *)
(* provider expires, rotates and revokes.  The store is locked for a request,  *)
(* and not while a token is refreshed or the user is in the browser.           *)
EXTENDS Naturals, FiniteSets

CONSTANTS
  Threads,   \* of the host, each evaluating in a sandbox of its own
  MaxCalls,  \* calls in one behaviour
  MaxGrants, \* consents of the user in one behaviour
  MaxAge     \* rotations of a refresh token

VARIABLES
  store,     \* what the keychain holds for the domain
  metadata,  \* OAuth metadata of the domain is on disk
  live,      \* the provider's grants that are not revoked
  current,   \* of each grant, the refresh token that the provider accepts
  valid,     \* access tokens that are not expired
  call,      \* what each thread is doing
  disturbed, \* calls during which another thread or the world changed something
  spoiled,   \* why the stored refresh token may be of no use
  calls
sfae == <<store, metadata, live, current, valid, call, disturbed, spoiled, calls>>
provider == <<live, current, valid>>

Types == {"ACCESS_TOKEN", "REFRESH_TOKEN", "CLIENT_SECRET"}
None == [grant |-> 0, age |-> 0]
Token(g, n) == [grant |-> g, age |-> n]
Idle == [at |-> "idle"]

Accepted(token) == token \in valid
Refreshable(token) == token.grant \in live /\ current[token.grant] = token.age
\* The next step of a call, and its end
Goes(t, state) == call' = [call EXCEPT ![t] = state]
Status(n) == [at |-> "idle", status |-> n]
\* Whatever a step changes, the calls of other threads that are under way saw it change.
Disturbs(t) == disturbed' = disturbed \cup {u \in Threads \ {t} : call[u].at # "idle"}
Fails(t) == disturbed' = disturbed \cup {t} \cup {u \in Threads \ {t} : call[u].at # "idle"}

Begins(t) == /\ call[t].at = "idle" /\ calls < MaxCalls /\ calls' = calls + 1
             /\ disturbed' = disturbed \ {t}

--------------------------------------------------------------------------------
(* sfae.request *)

\* proxy::execute, under the lock: the placeholders are filled from the store.
execute(token) == IF token \in valid THEN 200 ELSE 401

\* Without an -ACCESS_TOKEN- placeholder, or without a token for it, or if it is not sent,
\* any answer is returned; one with a placeholder that is refused goes on to refresh.
sfae_request(t) ==
  /\ Begins(t)
  /\ \/ \E n \in {0, 200, 401} : Goes(t, Status(n))
     \/ /\ store["ACCESS_TOKEN"] # None
        /\ IF execute(store["ACCESS_TOKEN"]) = 401 THEN Goes(t, [at |-> "refused"]) ELSE Goes(t, Status(200))
  /\ UNCHANGED <<store, metadata, provider, spoiled>>

\* try_refresh_and_retry, to the release of the lock
LookUp(t) ==
  /\ call[t].at = "refused"
  /\ IF metadata /\ store["REFRESH_TOKEN"] # None
     THEN Goes(t, [at |-> "refreshing", token |-> store["REFRESH_TOKEN"]])
     ELSE Goes(t, Status(401))
  /\ UNCHANGED <<store, metadata, provider, disturbed, spoiled, calls>>

\* oauth::refresh_access_token.  The provider may rotate the refresh token; an answer
\* that is lost leaves the one in the store used up.
Refresh(t) ==
  /\ call[t].at = "refreshing"
  /\ LET token == call[t].token
         g == token.grant IN
     IF ~Refreshable(token)
     THEN Goes(t, Status(401)) /\ UNCHANGED <<provider, disturbed, spoiled>>
     ELSE \E rotates, answered \in BOOLEAN :
            LET new == Token(g, token.age + 1) IN
            /\ rotates => token.age < MaxAge
            /\ valid' = valid \cup {new}
            /\ current' = IF rotates THEN [current EXCEPT ![g] = new.age] ELSE current
            /\ UNCHANGED live
            /\ IF answered
               THEN /\ Goes(t, [at |-> "refreshed", access |-> new, refresh |-> IF rotates THEN new ELSE None])
                    /\ Disturbs(t) /\ UNCHANGED spoiled
               ELSE Goes(t, Status(401)) /\ Fails(t)
                    /\ spoiled' = IF rotates THEN spoiled \cup {"answer lost"} ELSE spoiled
  /\ UNCHANGED <<store, metadata, calls>>

\* The tokens are stored and the request is sent again under one lock; the first that
\* cannot be stored ends it with the answer it had.
\* Mutant: a rotated refresh token is not stored.
Saved_AccessOnly(tokens, stored) ==
  [store EXCEPT !["ACCESS_TOKEN"] = IF "ACCESS_TOKEN" \in stored THEN tokens["ACCESS_TOKEN"] ELSE @]
Saved(tokens, stored) ==
  [type \in Types |-> IF type \in stored /\ tokens[type] # None THEN tokens[type] ELSE store[type]]
\* Mutant: the placeholders are not filled anew.
Retry_Filled == execute(store["ACCESS_TOKEN"])
Retry == execute(store'["ACCESS_TOKEN"])
StoreAndRetry(t) ==
  /\ call[t].at = "refreshed"
  /\ LET c == call[t]
         tokens == [type \in Types |-> IF type = "ACCESS_TOKEN" THEN c.access
                                       ELSE IF type = "REFRESH_TOKEN" THEN c.refresh ELSE None] IN
     \E stored \in {{}, {"ACCESS_TOKEN"}, {"ACCESS_TOKEN", "REFRESH_TOKEN"}}, sent \in BOOLEAN :
       LET failed == "ACCESS_TOKEN" \notin stored \/ (c.refresh # None /\ "REFRESH_TOKEN" \notin stored) IN
       /\ store' = Saved(tokens, stored)
       /\ Goes(t, Status(IF failed \/ ~sent THEN 401 ELSE Retry))
       /\ IF failed \/ ~sent THEN Fails(t) ELSE Disturbs(t)
       /\ spoiled' = spoiled \cup (IF failed /\ c.refresh # None THEN {"not stored"} ELSE {})
                             \cup (IF t \in disturbed THEN {"overtaken"} ELSE {})
  /\ UNCHANGED <<metadata, provider, calls>>

--------------------------------------------------------------------------------
(* sfae.prompt and sfae.credentials *)

\* The user is asked without the lock; what is typed is stored.
sfae_prompt(t) ==
  /\ Begins(t)
  /\ Goes(t, [at |-> "asking"])
  /\ UNCHANGED <<store, metadata, provider, spoiled>>
Answered(t) ==
  /\ call[t].at = "asking"
  /\ Goes(t, Idle)
  /\ \/ \E type \in Types \ {"CLIENT_SECRET"}, typed \in valid \cup {Token(1, MaxAge + 1)} :
          /\ store' = [store EXCEPT ![type] = typed]
          /\ spoiled' = spoiled \cup {"typed"}
          /\ Disturbs(t)
     \/ UNCHANGED <<store, spoiled, disturbed>>
  /\ UNCHANGED <<metadata, provider, calls>>
sfae_credentials(t) ==
  /\ Begins(t)
  /\ Goes(t, [at |-> "idle", types |-> {type \in Types : store[type] # None}])
  /\ UNCHANGED <<store, metadata, provider, spoiled>>

--------------------------------------------------------------------------------
(* sfae.oauth *)

\* Unless parameters are missing: if the preset of the domain says where, the access
\* token that is stored is revoked first, and with it its grant.
oauth(t) ==
  /\ Begins(t)
  /\ \/ Goes(t, Idle)
     \/ Goes(t, [at |-> "consent"])
     \/ store["ACCESS_TOKEN"] # None /\ Goes(t, [at |-> "revoking", token |-> store["ACCESS_TOKEN"]])
  /\ UNCHANGED <<store, metadata, provider, spoiled>>
Revoke(t) ==
  /\ call[t].at = "revoking"
  /\ Goes(t, [at |-> "consent"])
  /\ \/ /\ live' = live \ {call[t].token.grant}
        /\ valid' = {token \in valid : token.grant \in live'}
        /\ spoiled' = spoiled \cup {"revoked"}
        /\ Disturbs(t)
     \/ UNCHANGED <<live, valid, spoiled, disturbed>>
  /\ UNCHANGED <<store, metadata, current, calls>>

\* The user consents in the browser and the code is exchanged, or it is too late, the
\* state is another, or the exchange fails.
Consent(t) ==
  /\ call[t].at = "consent"
  /\ \/ Goes(t, Idle) /\ UNCHANGED <<provider, disturbed>>
     \/ \E g \in 1..MaxGrants, refreshes \in BOOLEAN :
          /\ g \notin DOMAIN current /\ \A h \in 1..(g - 1) : h \in DOMAIN current
          /\ live' = live \cup {g}
          /\ current' = [h \in DOMAIN current \cup {g} |-> IF h = g THEN 1 ELSE current[h]]
          /\ valid' = valid \cup {Token(g, 1)}
          /\ Goes(t, [at |-> "exchanged", access |-> Token(g, 1), refresh |-> IF refreshes THEN Token(g, 1) ELSE None])
          /\ Disturbs(t)
  /\ UNCHANGED <<store, metadata, spoiled, calls>>

\* The tokens, and the client secret if there is one, are stored one after the other.
StoreTokens(t) ==
  /\ call[t].at = "exchanged"
  /\ LET c == call[t]
         overtaken == IF t \in disturbed THEN {"overtaken"} ELSE {} IN
     \E secret \in BOOLEAN, stored \in {{}, {"ACCESS_TOKEN"}, {"ACCESS_TOKEN", "REFRESH_TOKEN"}, Types} :
       LET tokens == [type \in Types |-> IF type = "ACCESS_TOKEN" THEN c.access
                                         ELSE IF type = "REFRESH_TOKEN" THEN c.refresh
                                         ELSE IF secret THEN c.access ELSE None]
           failed == \E type \in Types : tokens[type] # None /\ type \notin stored IN
       /\ store' = Saved(tokens, stored)
       /\ Goes(t, IF failed THEN Idle ELSE [at |-> "metadata"])
       /\ Disturbs(t)
       \* A new refresh token makes good what was wrong with the old one.
       /\ spoiled' = IF c.refresh # None /\ "REFRESH_TOKEN" \in stored THEN overtaken ELSE spoiled \cup overtaken
  /\ UNCHANGED <<metadata, provider, calls>>
SaveMetadata(t) ==
  /\ call[t].at = "metadata"
  /\ Goes(t, Idle)
  /\ metadata' \in {metadata, TRUE}
  /\ Disturbs(t)
  /\ UNCHANGED <<store, provider, spoiled, calls>>

--------------------------------------------------------------------------------
\* Access tokens expire, and the user takes back a grant.
Expire ==
  /\ valid # {} /\ valid' = {}
  /\ disturbed' = disturbed \cup {t \in Threads : call[t].at # "idle"}
  /\ UNCHANGED <<store, metadata, live, current, call, spoiled, calls>>
TakenBack(g) ==
  /\ g \in live /\ live' = live \ {g}
  /\ valid' = {token \in valid : token.grant # g}
  /\ disturbed' = disturbed \cup {t \in Threads : call[t].at # "idle"}
  /\ spoiled' = spoiled \cup {"taken back"}
  /\ UNCHANGED <<store, metadata, current, call, calls>>

SfaeInit ==
  /\ store = [type \in Types |-> None] /\ metadata = FALSE
  /\ live = {} /\ current = [g \in {} |-> 0] /\ valid = {}
  /\ call = [t \in Threads |-> Idle] /\ disturbed = {} /\ spoiled = {} /\ calls = 0

SfaeNext ==
  \/ \E t \in Threads :
       \/ sfae_request(t) \/ LookUp(t) \/ Refresh(t) \/ StoreAndRetry(t)
       \/ sfae_prompt(t) \/ Answered(t) \/ sfae_credentials(t)
       \/ oauth(t) \/ Revoke(t) \/ Consent(t) \/ StoreTokens(t) \/ SaveMetadata(t)
  \/ Expire
  \/ \E g \in 1..MaxGrants : TakenBack(g)
SfaeSpec == SfaeInit /\ [][SfaeNext]_sfae

--------------------------------------------------------------------------------
\* "Automatically refreshes OAuth tokens on 401 responses" (sfae.rs, sfae.request): a
\* request that no other call or failure disturbs ends with 401 only if the
\* domain has no metadata, or no refresh token that the provider still accepts.
RefreshHeals ==
  [][\A t \in Threads :
       /\ call[t].at \in {"refused", "refreshing", "refreshed"} /\ call'[t] = Status(401)
       /\ t \notin disturbed'
       => ~metadata \/ store["REFRESH_TOKEN"] = None \/ ~Refreshable(store["REFRESH_TOKEN"])]_sfae

\* The refresh token in the store stays one the provider accepts, through rotations
\* and new consents (sfae.rs, try_refresh_and_retry and sfae.oauth): it is
\* lost only if an answer was lost, the store failed, calls overtook one
\* another, the grant was revoked without a new refresh token, or the user typed one.
GrantKept ==
  store["REFRESH_TOKEN"] # None /\ spoiled = {} /\ (\A t \in Threads : call[t].at # "refreshed")
    => Refreshable(store["REFRESH_TOKEN"])
=============================================================================
