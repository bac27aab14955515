--------------------------- MODULE GatewayProofs ---------------------------
(***************************************************************************)
(* The properties of the HTTP gateway, for any number of clients, any      *)
(* domains, list entries, credential patterns and headers; and what sfae.* *)
(* promises of its tokens, for any number of threads, calls, grants and    *)
(* rotations.  A call of sfae.* that nothing disturbed still holds what it *)
(* read or was given: that is what ties the tokens in its hands to the     *)
(* store and to the provider while the store is unlocked.                  *)
(***************************************************************************)
EXTENDS HttpPolicy, Sfae, TLAPS

\* A lookup in the credential store yields stored headers or none.
LEMMA CredentialsForType ==
  ASSUME NEW d, NEW saved \in [Patterns -> Headers \cup {NoHeaders}]
  PROVE  CredentialsFor(d, saved) \subseteq Headers \cup {NoHeaders}
  BY DEF CredentialsFor, WildcardsFor

\* The history kept by Observe has the right type, whatever the step does.
LEMMA ObserveType ==
  ASSUME TypeOK, Observe,
         credentials' \in [Patterns -> Headers \cup {NoHeaders}]
  PROVE  seen' \in [Clients -> Histories]
<1>1. Blank \in Histories /\ Unseen \in Histories
  BY DEF Blank, Unseen, Histories
<1>2. ASSUME NEW c \in Clients PROVE Witness(c) \in Histories
  <2> DEFINE old == IF pc[c] = "idle" THEN Unseen ELSE seen[c]
  <2>1. old \in Histories
    BY <1>1 DEF TypeOK
  <2>2. CredentialsFor(domain'[c], credentials') \subseteq Headers \cup {NoHeaders}
    BY CredentialsForType
  <2>3. old.live \cup CredentialsFor(domain'[c], credentials')
           \in SUBSET (Headers \cup {NoHeaders})
    BY <2>1, <2>2 DEF Histories
  <2>4. /\ old.denied \in BOOLEAN /\ old.allowed \in BOOLEAN
        /\ old.admissible \in BOOLEAN /\ old.quiet \in BOOLEAN
        /\ old.live \in SUBSET (Headers \cup {NoHeaders})
    BY <2>1 DEF Histories
  <2> HIDE DEF old
  <2>5. QED
    BY <2>3, <2>4 DEF Witness, Histories, Admissible, MatchesAny, old
<1>3. QED
  BY <1>1, <1>2 DEF Observe

---------------------------------------------------------------------------
LEMMA InitType == ASSUME Init PROVE TypeOK
<1>1. Blank \in Histories
  BY DEF Blank, Histories
<1>2. QED
  BY <1>1 DEF Init, TypeOK, Positions

\* The types of the program's own variables
ProgramType ==
  /\ allowed \subseteq Entries
  /\ denied \subseteq Entries
  /\ credentials \in [Patterns -> Headers \cup {NoHeaders}]
  /\ prompt \in BOOLEAN
  /\ removing \in {<<>>} \cup ({2} \X Entries)
  /\ pc \in [Clients -> Positions]
  /\ domain \in [Clients -> Domains \cup {<<>>}]
  /\ headers \in [Clients -> Headers \cup {NoHeaders}]
  /\ via \in [Clients -> {"none", "list", "prompt"}]
  /\ \A c \in Clients : pc[c] # "idle" => domain[c] \in Domains

\* Every step keeps them, and records its history.
LEMMA StepType == ASSUME TypeOK, Next PROVE ProgramType' /\ Observe
<1> USE DEF TypeOK, ProgramType, lists, Positions
<1>1. ASSUME NEW c \in Clients, Request(c) PROVE ProgramType' /\ Observe
  <2>1. ASSUME NEW d \in Domains, Start(c, d) PROVE ProgramType' /\ Observe
    BY <2>1 DEF Start
  <2>2. CASE ReadDenied(c)
    BY <2>2 DEF ReadDenied, Goto, Finish
  <2>3. CASE ReadAllowed(c)
    BY <2>3 DEF ReadAllowed, Admit, Goto, Finish
  <2>4. ASSUME NEW a \in Answers, Answer(c, a) PROVE ProgramType' /\ Observe
    BY <2>4 DEF Answer, Admit, Goto, Finish
  <2>5. CASE RememberAllow(c)
    BY <2>5, PolicyAssumption DEF RememberAllow, Admit
  <2>6. CASE RememberDeny(c)
    BY <2>6, PolicyAssumption DEF RememberDeny, Finish
  <2>7. CASE Inject(c)
    BY <2>7, CredentialsForType DEF Inject
  <2>8. CASE Send(c)
    BY <2>8 DEF Send, Finish
  <2>9. QED
    BY <1>1, <2>1, <2>2, <2>3, <2>4, <2>5, <2>6, <2>7, <2>8 DEF Request
<1>2. CASE HostStep
  <2> USE DEF request
  <2>1. ASSUME NEW e \in Entries, Allow(e) \/ Deny(e) \/ RemoveBegin(e)
        PROVE  ProgramType' /\ Observe
    BY <2>1 DEF Allow, Deny, RemoveBegin, RemoveFrom
  <2>2. CASE RemoveEnd
    BY <2>2 DEF RemoveEnd, RemoveFrom
  <2>3. ASSUME NEW p \in Patterns, NEW h \in Headers \cup {NoHeaders}, SetCredentials(p, h)
        PROVE  ProgramType' /\ Observe
    BY <2>3 DEF SetCredentials
  <2>4. QED
    BY <1>2, <2>1, <2>2, <2>3 DEF HostStep, RemoveCredentials
<1>3. QED
  BY <1>1, <1>2 DEF Next

\* The state of the gateway keeps its type (policy.rs, gateway.rs).
THEOREM TypeCorrect == Spec => []TypeOK
<1>1. Init => TypeOK
  BY InitType
<1>2. TypeOK /\ [Next]_vars => TypeOK'
  <2>1. ASSUME TypeOK, Next PROVE TypeOK'
    <3>1. ProgramType' /\ Observe
      BY <2>1, StepType
    <3>2. seen' \in [Clients -> Histories]
      BY <2>1, <3>1, ObserveType DEF ProgramType
    <3>3. QED
      BY <3>1, <3>2 DEF TypeOK, ProgramType
  <2>2. ASSUME TypeOK, UNCHANGED vars PROVE TypeOK'
    BY <2>2 DEF vars, TypeOK, Histories
  <2>3. QED
    BY <2>1, <2>2
<1>3. QED
  BY <1>1, <1>2, PTL DEF Spec

---------------------------------------------------------------------------
(* Safety.  ClientInv ties the history of a request to the lists as they    *)
(* are now and to what the check has already read of them.                 *)

ClientInv(c) ==
  pc[c] # "idle" =>
    /\ seen[c].denied => MatchesAny(domain[c], denied)
    /\ seen[c].allowed => MatchesAny(domain[c], allowed)
    /\ Admissible(domain[c], allowed, denied) => seen[c].admissible
    /\ pc[c] # "read_denied" => ~seen[c].denied
    /\ pc[c] \in {"prompt", "remember_allow", "remember_deny"} => ~seen[c].allowed
    /\ pc[c] = "read_allowed" /\ seen[c].quiet => ~MatchesAny(domain[c], denied)
    /\ Admitted(c) /\ via[c] = "list" /\ seen[c].quiet => seen[c].admissible
    /\ pc[c] = "inject" => CredentialsFor(domain[c], credentials) \subseteq seen[c].live
    /\ pc[c] = "send" => headers[c] \in seen[c].live

HistoryInv == \A c \in Clients : ClientInv(c)

\* With the deny list edited last, what the host means is what is listed.
LEMMA IntendedIsAllowed == Intended = allowed /\ Intended' = allowed'
  BY DEF Intended, RemoveOrder

\* What Observe adds to the history of a request that stays in progress
LEMMA Recorded ==
  ASSUME Observe, NEW c \in Clients, pc[c] # "idle", pc'[c] # "idle",
         domain'[c] = domain[c]
  PROVE  /\ seen'[c].denied = (seen[c].denied /\ MatchesAny(domain[c], denied'))
         /\ seen'[c].allowed = (seen[c].allowed /\ MatchesAny(domain[c], allowed'))
         /\ seen'[c].admissible =
              (seen[c].admissible \/ Admissible(domain[c], allowed', denied'))
         /\ seen'[c].quiet = (seen[c].quiet /\ denied' \subseteq denied)
         /\ seen'[c].live =
              IF pc'[c] = "inject"
              THEN seen[c].live \cup CredentialsFor(domain[c], credentials')
              ELSE seen[c].live
  BY IntendedIsAllowed DEF Observe, Witness

\* A smaller list matches fewer domains.
LEMMA MatchesAnyMonotonic ==
  ASSUME NEW d, NEW S, NEW T, S \subseteq T, MatchesAny(d, S)
  PROVE  MatchesAny(d, T)
  BY DEF MatchesAny

\* A step that does not move a request keeps its invariant.
LEMMA Bystander ==
  ASSUME Observe, NEW c \in Clients, ClientInv(c),
         pc'[c] = pc[c], domain'[c] = domain[c], headers'[c] = headers[c], via'[c] = via[c]
  PROVE  ClientInv(c)'
<1>1. CASE pc[c] = "idle"
  BY <1>1 DEF ClientInv
<1>2. CASE pc[c] # "idle"
  <2>1. MatchesAny(domain[c], denied') /\ denied' \subseteq denied
           => MatchesAny(domain[c], denied)
    BY MatchesAnyMonotonic
  <2>2. QED
    BY <1>2, <2>1, Recorded DEF ClientInv, Admitted
<1>3. QED
  BY <1>1, <1>2

\* Each step of a client keeps the invariant of its own request.
LEMMA OwnStep ==
  ASSUME TypeOK, NEW c \in Clients, ClientInv(c), Request(c)
  PROVE  ClientInv(c)'
<1> USE DEF TypeOK, lists
<1>1. ASSUME NEW d \in Domains, Start(c, d) PROVE ClientInv(c)'
  <2>1. pc'[c] = "read_denied" /\ domain'[c] = d /\ pc[c] = "idle"
    BY <1>1 DEF Start
  <2>2. /\ seen'[c].denied = MatchesAny(d, denied')
        /\ seen'[c].allowed = MatchesAny(d, allowed')
        /\ seen'[c].admissible = Admissible(d, allowed', denied')
    BY <1>1, <2>1, IntendedIsAllowed DEF Start, Observe, Witness, Unseen, Admissible, MatchesAny
  <2>3. QED
    BY <2>1, <2>2 DEF ClientInv, Admitted
<1>2. CASE ReadDenied(c)
  <2>1. CASE MatchesAny(domain[c], denied)
    BY <1>2, <2>1 DEF ReadDenied, Finish, ClientInv
  <2>2. CASE ~MatchesAny(domain[c], denied)
    BY <1>2, <2>2, Recorded DEF ReadDenied, Goto, ClientInv, Admitted
  <2>3. QED
    BY <2>1, <2>2
<1>3. CASE ReadAllowed(c)
  <2>1. CASE MatchesAny(domain[c], allowed)
    <3>1. Admit(c, "list") /\ UNCHANGED lists /\ Observe /\ pc[c] = "read_allowed"
      BY <1>3, <2>1 DEF ReadAllowed
    <3>2. seen[c].quiet => seen[c].admissible
      BY <2>1, <3>1 DEF ClientInv, Admissible
    <3>3. QED
      BY <1>3, <3>1, <3>2, Recorded DEF ReadAllowed, Admit, ClientInv, Admitted
  <2>2. CASE ~MatchesAny(domain[c], allowed) /\ prompt
    BY <1>3, <2>2, Recorded DEF ReadAllowed, Goto, ClientInv, Admitted
  <2>3. CASE ~MatchesAny(domain[c], allowed) /\ ~prompt
    BY <1>3, <2>3 DEF ReadAllowed, Finish, ClientInv
  <2>4. QED
    BY <2>1, <2>2, <2>3
<1>4. ASSUME NEW a \in Answers, Answer(c, a) PROVE ClientInv(c)'
  <2>1. CASE a.remember
    BY <1>4, <2>1, Recorded DEF Answer, Goto, ClientInv, Admitted
  <2>2. CASE ~a.remember /\ a.allowed
    BY <1>4, <2>2, Recorded DEF Answer, Admit, ClientInv, Admitted
  <2>3. CASE ~a.remember /\ ~a.allowed
    BY <1>4, <2>3 DEF Answer, Finish, ClientInv
  <2>4. QED
    BY <2>1, <2>2, <2>3
<1>5. CASE RememberAllow(c)
  BY <1>5, Recorded DEF RememberAllow, Admit, ClientInv, Admitted
<1>6. CASE RememberDeny(c)
  BY <1>6 DEF RememberDeny, Finish, ClientInv
<1>7. CASE Inject(c)
  BY <1>7, Recorded DEF Inject, ClientInv, Admitted
<1>8. CASE Send(c)
  BY <1>8 DEF Send, Finish, ClientInv
<1>9. QED
  BY <1>1, <1>2, <1>3, <1>4, <1>5, <1>6, <1>7, <1>8 DEF Request

\* A step of one client leaves the request of another where it is.
LEMMA OtherStep ==
  ASSUME TypeOK, NEW c \in Clients, Request(c), NEW d \in Clients, d # c
  PROVE  /\ pc'[d] = pc[d] /\ domain'[d] = domain[d]
         /\ headers'[d] = headers[d] /\ via'[d] = via[d]
  BY DEF TypeOK, Request, Start, ReadDenied, ReadAllowed, Answer, RememberAllow,
         RememberDeny, Inject, Send, Goto, Finish, Admit

LEMMA HistoryStep == ASSUME TypeOK, HistoryInv, Next PROVE HistoryInv'
<1>1. Observe
  BY StepType
<1>2. ASSUME NEW c \in Clients, Request(c) PROVE HistoryInv'
  <2>1. ASSUME NEW d \in Clients PROVE ClientInv(d)'
    <3>1. CASE d = c
      BY <1>2, <3>1, OwnStep DEF HistoryInv
    <3>2. CASE d # c
      BY <1>1, <1>2, <3>2, OtherStep, Bystander DEF HistoryInv
    <3>3. QED
      BY <3>1, <3>2
  <2>2. QED
    BY <2>1 DEF HistoryInv
<1>3. CASE HostStep
  <2>1. UNCHANGED request
    BY <1>3 DEF HostStep, Allow, Deny, RemoveBegin, RemoveEnd, SetCredentials,
                RemoveCredentials
  <2>2. QED
    BY <1>1, <2>1, Bystander DEF HistoryInv, request
<1>4. QED
  BY <1>2, <1>3 DEF Next

LEMMA HistoryInvariant == Spec => []HistoryInv
<1>1. Init => HistoryInv
  BY DEF Init, HistoryInv, ClientInv
<1>2. TypeOK /\ HistoryInv /\ [Next]_vars => HistoryInv'
  <2>1. ASSUME HistoryInv, UNCHANGED vars PROVE HistoryInv'
    BY <2>1 DEF vars, HistoryInv, ClientInv, Admitted
  <2>2. QED
    BY <2>1, HistoryStep
<1>3. QED
  BY <1>1, <1>2, TypeCorrect, PTL DEF Spec

\* No request whose domain stayed denied from the start of its check on is
\* let through (policy.rs:79), for any number of clients.
THEOREM DenialHoldsAlways == Spec => []DenialHolds
<1>1. HistoryInv => DenialHolds
  BY DEF HistoryInv, ClientInv, DenialHolds, Admitted
<1>2. QED
  BY <1>1, HistoryInvariant, PTL

\* A decided domain is not asked about again (policy.rs:73).
THEOREM DecidedNeverPromptsAlways == Spec => []DecidedNeverPrompts
<1>1. HistoryInv => DecidedNeverPrompts
  BY DEF HistoryInv, ClientInv, DecidedNeverPrompts
<1>2. QED
  BY <1>1, HistoryInvariant, PTL

\* An admission from the allow list in a check during which nothing joined the
\* deny list was right at one instant of the check (policy.rs:150-158).
THEOREM AdmissionLinearizableAlways == Spec => []AdmissionLinearizable
<1>1. HistoryInv => AdmissionLinearizable
  BY DEF HistoryInv, ClientInv, AdmissionLinearizable, Admitted
<1>2. QED
  BY <1>1, HistoryInvariant, PTL

\* The headers a request carries were stored at some instant after its
\* verdict (gateway.rs:36-41).
THEOREM CredentialsReadAfterVerdictAlways == Spec => []CredentialsReadAfterVerdict
<1>1. HistoryInv => CredentialsReadAfterVerdict
  BY DEF HistoryInv, ClientInv, CredentialsReadAfterVerdict
<1>2. QED
  BY <1>1, HistoryInvariant, PTL

--------------------------------------------------------------------------------
(* The tokens of sfae.* *)

Refreshing(t) == call[t].at = "refreshing"
Refreshed(t) == call[t].at = "refreshed"
Exchanged(t) == call[t].at = "exchanged"
Undisturbed(t) == t \notin disturbed
StoredIsGood == store["REFRESH_TOKEN"] # None => Refreshable(store["REFRESH_TOKEN"])

Typed ==
  /\ DOMAIN store = Types
  /\ call = [t \in Threads |-> call[t]]
  /\ live \subseteq DOMAIN current /\ live \subseteq 1..MaxGrants

\* What was looked up is still in the store.
LookedUp == \A t \in Threads : Refreshing(t) /\ Undisturbed(t) => call[t].token = store["REFRESH_TOKEN"]

\* The answer of a refresh: a token that is accepted and, if the old refresh token was
\* replaced, the new one; if not, the old one is as good as it was.
RefreshAnswers ==
  \A t \in Threads : Refreshed(t) /\ Undisturbed(t) =>
    /\ call[t].access # None /\ call[t].access \in valid
    /\ IF call[t].refresh = None THEN spoiled = {} => StoredIsGood ELSE Refreshable(call[t].refresh)

\* A new grant is good until it is stored.
Granted ==
  \A t \in Threads : Exchanged(t) /\ Undisturbed(t) /\ call[t].refresh # None => Refreshable(call[t].refresh)

IInv == Typed /\ LookedUp /\ RefreshAnswers /\ Granted /\ GrantKept

LEMMA InitInv == SfaeInit => IInv
  BY DEF SfaeInit, IInv, Typed, LookedUp, RefreshAnswers, Granted, GrantKept, Refreshing, Refreshed, Exchanged, Undisturbed,
         Types, Idle, None

\* A step of one call that leaves the store and the provider alone, and leads neither to nor
\* from the steps that hold tokens.
LEMMA QuietStep ==
  ASSUME IInv, NEW t \in Threads, NEW s, s.at \notin {"refreshing", "refreshed", "exchanged"},
         ~Refreshed(t), Goes(t, s), UNCHANGED <<store, provider>>,
         spoiled' = spoiled, disturbed \ {t} \subseteq disturbed'
  PROVE  IInv'
<1> USE DEF Goes, IInv, Refreshing, Refreshed, Exchanged, Undisturbed, provider
<1>1. /\ call' = [u \in Threads |-> IF u = t THEN s ELSE call[u]]
      /\ Typed'
  BY DEF Typed
<1>2. LookedUp'
  BY <1>1 DEF LookedUp
<1>3. RefreshAnswers'
  BY <1>1 DEF RefreshAnswers, StoredIsGood, Refreshable
<1>4. Granted'
  BY <1>1 DEF Granted, Refreshable
<1>5. GrantKept'
  BY <1>1 DEF GrantKept, Refreshable
<1>6. QED
  BY <1>1, <1>2, <1>3, <1>4, <1>5

LEMMA LookUpStep == ASSUME IInv, NEW t \in Threads, LookUp(t) PROVE IInv'
<1> USE DEF LookUp, Goes, Status, IInv, Refreshing, Refreshed, Exchanged, Undisturbed, provider
<1>1. CASE ~(metadata /\ store["REFRESH_TOKEN"] # None)
  BY <1>1, QuietStep
<1>2. CASE metadata /\ store["REFRESH_TOKEN"] # None
  <2> DEFINE s == [at |-> "refreshing", token |-> store["REFRESH_TOKEN"]]
  <2>1. call' = [u \in Threads |-> IF u = t THEN s ELSE call[u]] /\ Typed'
    BY <1>2 DEF Typed
  <2>2. LookedUp'
    BY <2>1 DEF LookedUp
  <2>3. RefreshAnswers'
    BY <2>1 DEF RefreshAnswers, StoredIsGood, Refreshable
  <2>4. Granted'
    BY <2>1 DEF Granted, Refreshable
  <2>5. GrantKept'
    BY <2>1 DEF GrantKept, Refreshable
  <2>6. QED
    BY <2>1, <2>2, <2>3, <2>4, <2>5
<1>3. QED
  BY <1>1, <1>2

\* A step that every other call under way sees, and after which the call itself holds no token.
LEMMA LoudStep ==
  ASSUME Typed, NEW t \in Threads, NEW s, s.at \notin {"refreshing", "refreshed", "exchanged"},
         Goes(t, s), \A u \in Threads \ {t} : call[u].at # "idle" => u \in disturbed'
  PROVE  LookedUp' /\ RefreshAnswers' /\ Granted' /\ call' = [u \in Threads |-> IF u = t THEN s ELSE call[u]]
<1>1. call' = [u \in Threads |-> IF u = t THEN s ELSE call[u]]
  BY DEF Typed, Goes
<1>2. \A u \in Threads : (~Refreshing(u)' /\ ~Refreshed(u)' /\ ~Exchanged(u)') \/ ~Undisturbed(u)'
  BY <1>1 DEF Refreshing, Refreshed, Exchanged, Undisturbed
<1>3. QED
  BY <1>1, <1>2 DEF LookedUp, RefreshAnswers, Granted

LEMMA RefreshStep == ASSUME IInv, NEW t \in Threads, Refresh(t) PROVE IInv'
<1> DEFINE token == call[t].token
           new == Token(token.grant, token.age + 1)
<1>0. call[t].at = "refreshing" /\ store' = store /\ Typed
  BY DEF Refresh, IInv
<1>1. CASE ~Refreshable(token)
  <2>1. Goes(t, Status(401)) /\ UNCHANGED <<store, provider, disturbed, spoiled>>
    BY <1>1, <1>0 DEF Refresh
  <2>2. Status(401).at = "idle" /\ ~Refreshed(t)
    BY <1>0 DEF Status, Refreshed
  <2>3. QED
    BY <2>1, <2>2, QuietStep
<1>2. ASSUME Refreshable(token), NEW rotates \in BOOLEAN,
             valid' = valid \cup {new}, UNCHANGED live,
             current' = (IF rotates THEN [current EXCEPT ![token.grant] = new.age] ELSE current)
      PROVE  /\ live' \subseteq DOMAIN current' /\ live' \subseteq 1..MaxGrants
             /\ rotates => new.grant \in live' /\ current'[new.grant] = new.age
             /\ new # None /\ new \in valid'
  <2>1. token.grant \in live /\ token.grant \in DOMAIN current /\ token.grant \in 1..MaxGrants
    BY <1>0, <1>2 DEF Typed, Refreshable
  <2>2. new.grant = token.grant /\ new # None
    BY <2>1 DEF Token, None
  <2>3. rotates => current'[token.grant] = new.age
    BY <2>1, <1>2
  <2>4. DOMAIN current' = DOMAIN current
    BY <1>2
  <2>5. QED
    BY <2>1, <2>2, <2>3, <2>4, <1>0, <1>2 DEF Typed
<1>3. ASSUME Refreshable(token), NEW rotates \in BOOLEAN,
             valid' = valid \cup {new}, UNCHANGED live,
             current' = (IF rotates THEN [current EXCEPT ![token.grant] = new.age] ELSE current),
             Goes(t, Status(401)), Fails(t),
             spoiled' = IF rotates THEN spoiled \cup {"answer lost"} ELSE spoiled
      PROVE  IInv'
  <2>1. Typed' /\ LookedUp' /\ RefreshAnswers' /\ Granted'
    <3>1. Status(401).at = "idle" /\ \A u \in Threads \ {t} : call[u].at # "idle" => u \in disturbed'
      BY <1>3 DEF Fails, Status
    <3>2. LookedUp' /\ RefreshAnswers' /\ Granted' /\ call' = [u \in Threads |-> IF u = t THEN Status(401) ELSE call[u]]
      BY <3>1, <1>0, <1>3, LoudStep
    <3>3. QED
      BY <3>2, <1>0, <1>2, <1>3 DEF Typed
  <2>2. GrantKept'
    <3>1. SUFFICES ASSUME spoiled' = {}, store["REFRESH_TOKEN"] # None, \A u \in Threads : call'[u].at # "refreshed"
                   PROVE  Refreshable(store["REFRESH_TOKEN"])'
      BY <1>0 DEF GrantKept
    <3>2. \A u \in Threads : call[u].at # "refreshed"
      BY <3>1, <1>0, <1>3 DEF Goes, Typed
    <3>3. ~rotates /\ spoiled = {} /\ UNCHANGED current
      BY <1>3, <3>1
    <3>4. QED
      BY <1>0, <1>3, <3>1, <3>2, <3>3 DEF IInv, GrantKept, Refreshable
  <2>3. QED
    BY <2>1, <2>2 DEF IInv
<1>4. ASSUME Refreshable(token), NEW rotates \in BOOLEAN,
             valid' = valid \cup {new}, UNCHANGED live,
             current' = (IF rotates THEN [current EXCEPT ![token.grant] = new.age] ELSE current),
             Goes(t, [at |-> "refreshed", access |-> new, refresh |-> IF rotates THEN new ELSE None]),
             Disturbs(t), UNCHANGED spoiled
      PROVE  IInv'
  <2>1. Typed'
    BY <1>0, <1>2, <1>4 DEF Typed, Goes
  <2>2. /\ call'[t] = [at |-> "refreshed", access |-> new, refresh |-> IF rotates THEN new ELSE None]
        /\ \A u \in Threads \ {t} : call'[u] = call[u] /\ (call'[u].at # "idle" => u \in disturbed')
        /\ Undisturbed(t)' => Undisturbed(t)
    BY <1>0, <1>4 DEF Typed, Goes, Disturbs, Undisturbed
  <2>3. LookedUp' /\ Granted'
    BY <2>2 DEF LookedUp, Granted, Refreshing, Exchanged, Undisturbed
  <2>4. ~rotates /\ Undisturbed(t)' => StoredIsGood'
    <3>1. SUFFICES ASSUME ~rotates, Undisturbed(t)' PROVE Refreshable(store["REFRESH_TOKEN"])'
      BY <1>0 DEF StoredIsGood
    <3>2. store["REFRESH_TOKEN"] = token
      BY <1>0, <2>2, <3>1 DEF IInv, LookedUp, Refreshing
    <3>3. QED
      BY <1>0, <1>4, <3>1, <3>2 DEF Refreshable
  <2>5. RefreshAnswers'
    <3>1. \A u \in Threads : Refreshed(u)' /\ Undisturbed(u)' => u = t
      BY <2>2 DEF Refreshed, Undisturbed
    <3>2. call'[t].access = new /\ call'[t].refresh = IF rotates THEN new ELSE None
      BY <2>2
    <3>3. Undisturbed(t)' => IF call'[t].refresh = None THEN StoredIsGood' ELSE Refreshable(call[t].refresh)'
      BY <3>2, <1>2, <1>4, <2>4 DEF Refreshable
    <3>4. QED
      BY <3>1, <3>2, <3>3, <1>2, <1>4 DEF RefreshAnswers
  <2>6. GrantKept'
    BY <2>2 DEF GrantKept
  <2>7. QED
    BY <2>1, <2>3, <2>5, <2>6 DEF IInv
<1>5. QED
  <2>1. CASE Refreshable(token)
    <3>1. PICK rotates \in BOOLEAN, answered \in BOOLEAN :
            /\ valid' = valid \cup {new}
            /\ current' = IF rotates THEN [current EXCEPT ![token.grant] = new.age] ELSE current
            /\ UNCHANGED live
            /\ IF answered
               THEN /\ Goes(t, [at |-> "refreshed", access |-> new, refresh |-> IF rotates THEN new ELSE None])
                    /\ Disturbs(t) /\ UNCHANGED spoiled
               ELSE Goes(t, Status(401)) /\ Fails(t)
                    /\ spoiled' = IF rotates THEN spoiled \cup {"answer lost"} ELSE spoiled
      BY <2>1 DEF Refresh
    <3>2. CASE answered
      BY <2>1, <3>1, <3>2, <1>4
    <3>3. CASE ~answered
      BY <2>1, <3>1, <3>3, <1>3
    <3>4. QED
      BY <3>2, <3>3
  <2>2. QED
    BY <2>1, <1>1

\* The steps that hold no token and change nothing in the store or at the provider
LEMMA QuietSteps ==
  ASSUME IInv, NEW t \in Threads, sfae_request(t) \/ sfae_prompt(t) \/ sfae_credentials(t) \/ oauth(t) \/ SaveMetadata(t)
  PROVE  IInv'
<1>1. PICK s : /\ Goes(t, s) /\ s.at \notin {"refreshing", "refreshed", "exchanged"}
               /\ UNCHANGED <<store, provider>> /\ spoiled' = spoiled
               /\ disturbed \ {t} \subseteq disturbed' /\ call[t].at \in {"idle", "metadata"}
  <2>1. CASE sfae_request(t)
    <3>1. CASE \E n \in {0, 200, 401} : Goes(t, Status(n))
      BY <2>1, <3>1 DEF sfae_request, Begins, Status, provider
    <3>2. CASE Goes(t, [at |-> "refused"]) \/ Goes(t, Status(200))
      BY <2>1, <3>2 DEF sfae_request, Begins, Status, provider
    <3>3. QED
      BY <2>1, <3>1, <3>2 DEF sfae_request
  <2>2. CASE sfae_prompt(t)
    BY <2>2 DEF sfae_prompt, Begins, provider
  <2>3. CASE sfae_credentials(t)
    BY <2>3 DEF sfae_credentials, Begins, provider
  <2>4. CASE oauth(t)
    BY <2>4 DEF oauth, Begins, Idle, provider
  <2>5. CASE SaveMetadata(t)
    BY <2>5 DEF SaveMetadata, Idle, Disturbs, provider
  <2>6. QED
    BY <2>1, <2>2, <2>3, <2>4, <2>5
<1>2. QED
  BY <1>1, QuietStep DEF Refreshed

LEMMA StoreAndRetryStep == ASSUME IInv, NEW t \in Threads, StoreAndRetry(t) PROVE IInv'
<1> DEFINE c == call[t]
           tokens == [type \in Types |-> IF type = "ACCESS_TOKEN" THEN c.access
                                         ELSE IF type = "REFRESH_TOKEN" THEN c.refresh ELSE None]
<1>1. PICK stored \in {{}, {"ACCESS_TOKEN"}, {"ACCESS_TOKEN", "REFRESH_TOKEN"}}, sent \in BOOLEAN :
        LET failed == "ACCESS_TOKEN" \notin stored \/ (c.refresh # None /\ "REFRESH_TOKEN" \notin stored) IN
        /\ store' = Saved(tokens, stored)
        /\ Goes(t, Status(IF failed \/ ~sent THEN 401 ELSE Retry))
        /\ IF failed \/ ~sent THEN Fails(t) ELSE Disturbs(t)
        /\ spoiled' = spoiled \cup (IF failed /\ c.refresh # None THEN {"not stored"} ELSE {})
                              \cup (IF t \in disturbed THEN {"overtaken"} ELSE {})
  BY DEF StoreAndRetry
<1> DEFINE failed == "ACCESS_TOKEN" \notin stored \/ (c.refresh # None /\ "REFRESH_TOKEN" \notin stored)
           status == IF failed \/ ~sent THEN 401 ELSE Retry
<1>2. /\ DOMAIN store' = Types /\ UNCHANGED provider
      /\ store'["REFRESH_TOKEN"] = IF "REFRESH_TOKEN" \in stored /\ c.refresh # None
                                   THEN c.refresh ELSE store["REFRESH_TOKEN"]
  BY <1>1 DEF Saved, Types, StoreAndRetry
<1>3. \A u \in Threads \ {t} : call[u].at # "idle" => u \in disturbed'
  BY <1>1 DEF Disturbs, Fails
<1>4. LookedUp' /\ RefreshAnswers' /\ Granted' /\ call' = [u \in Threads |-> IF u = t THEN Status(status) ELSE call[u]]
  <2>1. Goes(t, Status(status)) /\ Status(status).at = "idle"
    BY <1>1 DEF Status
  <2>2. QED
    BY <1>3, <2>1, LoudStep DEF IInv
<1>5. Typed'
  BY <1>2, <1>4 DEF IInv, Typed, provider
<1>6. GrantKept'
  <2>1. SUFFICES ASSUME spoiled' = {}, store'["REFRESH_TOKEN"] # None
                 PROVE  Refreshable(store["REFRESH_TOKEN"])'
    BY DEF GrantKept
  <2>2. spoiled = {} /\ t \notin disturbed /\ ~(failed /\ c.refresh # None)
    BY <1>1, <2>1
  <2>3. IF c.refresh = None THEN StoredIsGood ELSE Refreshable(c.refresh)
    BY <2>2 DEF IInv, RefreshAnswers, StoreAndRetry, Refreshed, Undisturbed
  <2>4. QED
    BY <1>2, <2>1, <2>2, <2>3 DEF StoredIsGood, Refreshable, provider
<1>7. QED
  BY <1>4, <1>5, <1>6 DEF IInv

LEMMA AnsweredStep == ASSUME IInv, NEW t \in Threads, Answered(t) PROVE IInv'
<1>1. Idle.at = "idle" /\ Goes(t, Idle) /\ ~Refreshed(t) /\ UNCHANGED provider
  BY DEF Idle, Answered, Refreshed
<1>2. CASE UNCHANGED <<store, spoiled, disturbed>>
  BY <1>1, <1>2, QuietStep
<1>3. ASSUME NEW type \in Types, NEW typed, store' = [store EXCEPT ![type] = typed],
             spoiled' = spoiled \cup {"typed"}, Disturbs(t)
      PROVE  IInv'
  <2>1. \A u \in Threads \ {t} : call[u].at # "idle" => u \in disturbed'
    BY <1>3 DEF Disturbs
  <2>2. LookedUp' /\ RefreshAnswers' /\ Granted' /\ call' = [u \in Threads |-> IF u = t THEN Idle ELSE call[u]]
    BY <1>1, <2>1, LoudStep DEF IInv
  <2>3. Typed' /\ GrantKept'
    BY <1>1, <1>3, <2>2 DEF IInv, Typed, GrantKept, provider
  <2>4. QED
    BY <2>2, <2>3 DEF IInv
<1>4. QED
  BY <1>2, <1>3 DEF Answered

LEMMA RevokeStep == ASSUME IInv, NEW t \in Threads, Revoke(t) PROVE IInv'
<1> DEFINE s == [at |-> "consent"]
<1>1. s.at = "consent" /\ Goes(t, s) /\ ~Refreshed(t) /\ UNCHANGED <<store, current>>
  BY DEF Revoke, Refreshed
<1>2. CASE UNCHANGED <<live, valid, spoiled, disturbed>>
  BY <1>1, <1>2, QuietStep DEF provider
<1>3. CASE live' \subseteq live /\ spoiled' = spoiled \cup {"revoked"} /\ Disturbs(t)
  <2>1. \A u \in Threads \ {t} : call[u].at # "idle" => u \in disturbed'
    BY <1>3 DEF Disturbs
  <2>2. LookedUp' /\ RefreshAnswers' /\ Granted' /\ call' = [u \in Threads |-> IF u = t THEN s ELSE call[u]]
    BY <1>1, <2>1, LoudStep DEF IInv
  <2>3. Typed' /\ GrantKept'
    BY <1>1, <1>3, <2>2 DEF IInv, Typed, GrantKept
  <2>4. QED
    BY <2>2, <2>3 DEF IInv
<1>4. QED
  BY <1>2, <1>3 DEF Revoke

LEMMA ConsentStep == ASSUME IInv, NEW t \in Threads, Consent(t) PROVE IInv'
<1>1. call[t].at = "consent" /\ UNCHANGED <<store, spoiled>> /\ Typed
  BY DEF Consent, IInv
<1>2. CASE Goes(t, Idle) /\ UNCHANGED <<provider, disturbed>>
  BY <1>1, <1>2, QuietStep DEF Idle, Refreshed
<1>3. ASSUME NEW g \in 1..MaxGrants, NEW refreshes \in BOOLEAN, g \notin DOMAIN current,
             live' = live \cup {g},
             current' = [h \in DOMAIN current \cup {g} |-> IF h = g THEN 1 ELSE current[h]],
             Goes(t, [at |-> "exchanged", access |-> Token(g, 1), refresh |-> IF refreshes THEN Token(g, 1) ELSE None]),
             Disturbs(t)
      PROVE  IInv'
  <2>1. Typed'
    BY <1>1, <1>3 DEF Typed, Goes
  <2>2. /\ call'[t] = [at |-> "exchanged", access |-> Token(g, 1), refresh |-> IF refreshes THEN Token(g, 1) ELSE None]
        /\ \A u \in Threads \ {t} : call'[u] = call[u] /\ (call'[u].at # "idle" => u \in disturbed')
    BY <1>1, <1>3 DEF Typed, Goes, Disturbs
  <2>3. LookedUp' /\ RefreshAnswers'
    BY <2>2 DEF LookedUp, RefreshAnswers, Refreshing, Refreshed, Undisturbed
  <2>4. Token(g, 1).grant \in live' /\ current'[Token(g, 1).grant] = Token(g, 1).age
    BY <1>3 DEF Token
  <2>5. Granted'
    BY <2>2, <2>4 DEF Granted, Exchanged, Undisturbed, Refreshable
  <2>6. GrantKept'
    <3>1. SUFFICES ASSUME spoiled = {}, store["REFRESH_TOKEN"] # None, \A u \in Threads : call'[u].at # "refreshed"
                   PROVE  Refreshable(store["REFRESH_TOKEN"])'
      BY <1>1 DEF GrantKept
    <3>2. \A u \in Threads : call[u].at # "refreshed"
      BY <3>1, <2>2, <1>1
    <3>3. Refreshable(store["REFRESH_TOKEN"])
      BY <3>1, <3>2 DEF IInv, GrantKept
    <3>4. QED
      BY <3>3, <1>1, <1>3 DEF Refreshable, Typed
  <2>7. QED
    BY <2>1, <2>3, <2>5, <2>6 DEF IInv
<1>4. QED
  BY <1>2, <1>3 DEF Consent

LEMMA StoreTokensStep == ASSUME IInv, NEW t \in Threads, StoreTokens(t) PROVE IInv'
<1> DEFINE c == call[t]
           overtaken == IF t \in disturbed THEN {"overtaken"} ELSE {}
           tokens(secret) == [type \in Types |-> IF type = "ACCESS_TOKEN" THEN c.access
                                                 ELSE IF type = "REFRESH_TOKEN" THEN c.refresh
                                                 ELSE IF secret THEN c.access ELSE None]
<1>1. PICK secret \in BOOLEAN, stored \in SUBSET Types :
        /\ store' = Saved(tokens(secret), stored)
        /\ Goes(t, Idle) \/ Goes(t, [at |-> "metadata"])
        /\ Disturbs(t)
        /\ spoiled' = IF c.refresh # None /\ "REFRESH_TOKEN" \in stored THEN overtaken ELSE spoiled \cup overtaken
  BY DEF StoreTokens, Types
<1>2. PICK s : Goes(t, s) /\ s.at \in {"idle", "metadata"}
  BY <1>1 DEF Idle
<1>3. /\ DOMAIN store' = Types /\ UNCHANGED provider /\ call[t].at = "exchanged"
      /\ store'["REFRESH_TOKEN"] = IF "REFRESH_TOKEN" \in stored /\ c.refresh # None
                                   THEN c.refresh ELSE store["REFRESH_TOKEN"]
  BY <1>1 DEF Saved, Types, StoreTokens
<1>4. \A u \in Threads \ {t} : call[u].at # "idle" => u \in disturbed'
  BY <1>1 DEF Disturbs
<1>5. LookedUp' /\ RefreshAnswers' /\ Granted' /\ call' = [u \in Threads |-> IF u = t THEN s ELSE call[u]]
  BY <1>2, <1>4, LoudStep DEF IInv
<1>6. Typed'
  BY <1>3, <1>5 DEF IInv, Typed, provider
<1>7. GrantKept'
  <2>1. SUFFICES ASSUME spoiled' = {}, store'["REFRESH_TOKEN"] # None, \A u \in Threads : call'[u].at # "refreshed"
                 PROVE  Refreshable(store["REFRESH_TOKEN"])'
    BY DEF GrantKept
  <2>2. t \notin disturbed /\ \A u \in Threads : call[u].at # "refreshed"
    BY <1>1, <1>3, <1>5, <2>1
  <2>3. CASE c.refresh # None /\ "REFRESH_TOKEN" \in stored
    <3>1. Refreshable(c.refresh)
      BY <1>3, <2>2, <2>3 DEF IInv, Granted, Exchanged, Undisturbed
    <3>2. QED
      BY <3>1, <2>3, <1>3 DEF Refreshable, provider
  <2>4. CASE ~(c.refresh # None /\ "REFRESH_TOKEN" \in stored)
    <3>1. spoiled = {} /\ store'["REFRESH_TOKEN"] = store["REFRESH_TOKEN"]
      BY <1>1, <1>3, <2>1, <2>4
    <3>2. QED
      BY <3>1, <2>1, <2>2, <1>3 DEF IInv, GrantKept, Refreshable, provider
  <2>5. QED
    BY <2>3, <2>4
<1>8. QED
  BY <1>5, <1>6, <1>7 DEF IInv

\* What the world does: tokens expire, a grant is taken back.
LEMMA WorldStep == ASSUME IInv, Expire \/ \E g \in 1..MaxGrants : TakenBack(g) PROVE IInv'
<1>1. /\ UNCHANGED <<store, current, call>> /\ live' \subseteq live
      /\ disturbed' = disturbed \cup {t \in Threads : call[t].at # "idle"}
      /\ UNCHANGED <<live, spoiled>> \/ spoiled' # {}
  BY DEF Expire, TakenBack
<1>2. \A t \in Threads : (~Refreshing(t)' /\ ~Refreshed(t)' /\ ~Exchanged(t)') \/ ~Undisturbed(t)'
  BY <1>1 DEF Refreshing, Refreshed, Exchanged, Undisturbed
<1>3. LookedUp' /\ RefreshAnswers' /\ Granted'
  BY <1>2 DEF LookedUp, RefreshAnswers, Granted
<1>4. Typed' /\ GrantKept'
  BY <1>1 DEF IInv, Typed, GrantKept, Refreshable
<1>5. QED
  BY <1>3, <1>4 DEF IInv

LEMMA NextInv == IInv /\ [SfaeNext]_sfae => IInv'
<1>1. SUFFICES ASSUME IInv, [SfaeNext]_sfae PROVE IInv'
  OBVIOUS
<1>2. CASE SfaeNext
  BY <1>1, <1>2, QuietSteps, LookUpStep, RefreshStep, StoreAndRetryStep, AnsweredStep, RevokeStep, ConsentStep,
     StoreTokensStep, WorldStep DEF SfaeNext
<1>3. CASE UNCHANGED sfae
  BY <1>1, <1>3 DEF sfae, IInv, Typed, LookedUp, RefreshAnswers, Granted, GrantKept, Refreshing, Refreshed, Exchanged,
                    Undisturbed, StoredIsGood, Refreshable
<1>4. QED
  BY <1>1, <1>2, <1>3

\* What every thread may rely on at its next step.
THEOREM Inductive == SfaeSpec => []IInv
  BY InitInv, NextInv, PTL DEF SfaeSpec

--------------------------------------------------------------------------------
\* sfae.request and sfae.oauth keep the refresh token of the keychain one that the provider
\* accepts, whatever threads interleave, unless one of the listed mishaps spoiled it.
THEOREM KeepsTheGrant == SfaeSpec => []GrantKept
  BY Inductive, PTL DEF IInv

\* A 401 that nothing disturbed is answered with a refresh that works, if one can.
LEMMA Heals ==
  ASSUME IInv, [SfaeNext]_sfae, NEW t \in Threads, call[t].at \in {"refused", "refreshing", "refreshed"},
         call'[t] = Status(401), t \notin disturbed'
  PROVE  ~metadata \/ store["REFRESH_TOKEN"] = None \/ ~Refreshable(store["REFRESH_TOKEN"])
<1>1. call'[t] # call[t] /\ Typed
  BY DEF Status, IInv
<1>2. LookUp(t) \/ Refresh(t) \/ StoreAndRetry(t)
  <2>1. PICK u \in Threads :
          \/ sfae_request(u) \/ LookUp(u) \/ Refresh(u) \/ StoreAndRetry(u)
          \/ sfae_prompt(u) \/ Answered(u) \/ sfae_credentials(u)
          \/ oauth(u) \/ Revoke(u) \/ Consent(u) \/ StoreTokens(u) \/ SaveMetadata(u)
    BY <1>1 DEF SfaeNext, sfae, Expire, TakenBack
  <2>2. u = t
    <3>1. SUFFICES ASSUME NEW s, Goes(u, s) PROVE u = t
      <4>1. LookUp(u) => \E s : Goes(u, s)
        BY DEF LookUp
      <4>2. Refresh(u) => \E s : Goes(u, s)
        BY DEF Refresh
      <4>3. StoreAndRetry(u) => \E s : Goes(u, s)
        BY DEF StoreAndRetry
      <4>4. sfae_request(u) \/ sfae_prompt(u) \/ Answered(u) \/ sfae_credentials(u) => \E s : Goes(u, s)
        BY DEF sfae_request, sfae_prompt, Answered, sfae_credentials
      <4>5. oauth(u) \/ Revoke(u) \/ SaveMetadata(u) => \E s : Goes(u, s)
        BY DEF oauth, Revoke, SaveMetadata
      <4>6. Consent(u) => \E s : Goes(u, s)
        BY DEF Consent
      <4>7. StoreTokens(u) => \E s : Goes(u, s)
        BY DEF StoreTokens
      <4>8. QED
        BY <2>1, <4>1, <4>2, <4>3, <4>4, <4>5, <4>6, <4>7
    <3>2. QED
      BY <1>1, <3>1 DEF Goes, Typed
  <2>3. QED
    BY <2>1, <2>2 DEF sfae_request, Begins, sfae_prompt, Answered, sfae_credentials, oauth, Revoke, Consent, StoreTokens, SaveMetadata
<1>3. CASE LookUp(t)
  BY <1>1, <1>3 DEF LookUp, Goes, Status, Typed
<1>4. CASE Refresh(t)
  <2>1. ~Refreshable(call[t].token) /\ t \notin disturbed
    <3>1. CASE ~Refreshable(call[t].token)
      BY <1>4, <3>1 DEF Refresh
    <3>2. CASE Refreshable(call[t].token)
      <4>1. (\E new, refresh : Goes(t, [at |-> "refreshed", access |-> new, refresh |-> refresh])) \/ Fails(t)
        BY <1>4, <3>2 DEF Refresh
      <4>2. QED
        BY <1>1, <4>1 DEF Goes, Status, Typed, Fails
    <3>3. QED
      BY <3>1, <3>2
  <2>2. call[t].token = store["REFRESH_TOKEN"]
    BY <1>4, <2>1 DEF Refresh, IInv, LookedUp, Refreshing, Undisturbed
  <2>3. QED
    BY <2>1, <2>2
<1>5. CASE StoreAndRetry(t)
  <2> DEFINE c == call[t]
             tokens == [type \in Types |-> IF type = "ACCESS_TOKEN" THEN c.access
                                           ELSE IF type = "REFRESH_TOKEN" THEN c.refresh ELSE None]
  <2>1. PICK stored : /\ "ACCESS_TOKEN" \in stored /\ store' = Saved(tokens, stored)
                      /\ Goes(t, Status(Retry)) /\ Disturbs(t)
    BY <1>5 DEF StoreAndRetry, Fails
  <2>2. t \notin disturbed /\ c.access # None /\ c.access \in valid
    BY <1>5, <2>1 DEF Disturbs, StoreAndRetry, IInv, RefreshAnswers, Refreshed, Undisturbed
  <2>3. Retry = 200
    BY <2>1, <2>2 DEF Retry, execute, Saved, Types
  <2>4. QED
    BY <1>1, <2>1, <2>3 DEF Goes, Status, Typed
<1>6. QED
  BY <1>2, <1>3, <1>4, <1>5

\* A request that nothing disturbs ends with 401 only if there was nothing to refresh its
\* tokens with (sfae.rs, try_refresh_and_retry).
THEOREM HealsUnlessDisturbed == SfaeSpec => RefreshHeals
<1>1. IInv /\ [SfaeNext]_sfae =>
        [\A t \in Threads :
           /\ call[t].at \in {"refused", "refreshing", "refreshed"} /\ call'[t] = Status(401)
           /\ t \notin disturbed'
           => ~metadata \/ store["REFRESH_TOKEN"] = None \/ ~Refreshable(store["REFRESH_TOKEN"])]_sfae
  BY Heals
<1>2. QED
  BY <1>1, Inductive, PTL DEF SfaeSpec, RefreshHeals
=============================================================================
