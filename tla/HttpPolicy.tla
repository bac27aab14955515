---------------------------- MODULE HttpPolicy ----------------------------
(***************************************************************************)
(* The policy-aware HTTP gateway of modules/native-http: DomainPolicy and  *)
(* CredentialStore (policy.rs) behind HttpGateway::request (gateway.rs).   *)
(*                                                                         *)
(* The two lists of a policy and the credential map are three separate     *)
(* RwLocks, and no method holds two of them: every locked section is one   *)
(* action and everything between two sections can interleave.  A check     *)
(* reads `denied`, then `allowed`, then may block on the user's prompt;    *)
(* the host mutates the lists and the credentials at any time.             *)
(*                                                                         *)
(* A domain is the sequence of its labels, "api.example.com" being         *)
(* <<"api", "example", "com">>, so that the suffix match with its '.'      *)
(* boundary test is a suffix of label sequences.                           *)
(***************************************************************************)
EXTENDS SequencesExt

CONSTANTS
  Clients,       \* threads that issue requests through one shared gateway
  Domains,       \* the domains requests are made to
  Entries,       \* what the host puts in the lists: domains, suffixes, "*"
  Patterns,      \* the keys of the credential store
  Headers,       \* header sets a credential can be
  NoHeaders      \* the empty header set

ASSUME PolicyAssumption ==
  /\ Domains \subseteq Entries
  /\ NoHeaders \notin Headers

VARIABLES
  allowed,       \* DomainPolicy.allowed
  denied,        \* DomainPolicy.denied
  credentials,   \* CredentialStore.credentials, NoHeaders where absent
  prompt,        \* whether the embedder supplied a DomainPrompt; never changes
  removing,      \* the host's half-done remove: its next step and its entry
  pc,            \* where in HttpGateway::request each client is
  domain,        \* the host of each client's request URL
  headers,       \* the credentials injected into each request
  via,           \* what admitted each request: the allow list or the user
  seen           \* history: what happened while each client's request ran

lists == <<allowed, denied, removing>>
request == <<pc, domain, headers, via>>
vars == <<allowed, denied, credentials, prompt, removing, pc, domain, headers,
          via, seen>>

---------------------------------------------------------------------------
(* policy.rs, matching *)

AnyHost == <<"*">>

\* domain_matches_entry: "*", the domain itself, or a suffix at a label
DomainMatchesEntry(d, e) == e # <<>> /\ (e = AnyHost \/ IsSuffix(e, d))

MatchesAny(d, set) == \E e \in set : DomainMatchesEntry(d, e)

\* The wildcard keys "*.suffix" that match d.  The code iterates a HashMap,
\* so which of several matching ones it meets first is not determined.
WildcardsFor(d, store) ==
  {p \in Patterns : /\ store[p] # NoHeaders
                    /\ Len(p) > 1 /\ Head(p) = "*"
                    /\ IsStrictSuffix(Tail(p), d)}

\* CredentialStore::get: the exact key, then "*", then any "*.suffix"
CredentialsFor(d, store) ==
  LET keys  == {p \in Patterns : store[p] # NoHeaders}
      found == IF d \in keys THEN {d}
               ELSE IF AnyHost \in keys THEN {AnyHost}
               ELSE WildcardsFor(d, store)
  IN  IF found = {} THEN {NoHeaders} ELSE {store[p] : p \in found}

---------------------------------------------------------------------------
(* State *)

Answers == [allowed : BOOLEAN, remember : BOOLEAN]   \* PromptResponse

Positions == {"idle", "read_denied", "read_allowed", "prompt", "remember_allow",
              "remember_deny", "inject", "send"}

\* Mutant: the deny list is edited first
RemoveOrder_Swapped == <<"denied", "allowed">>

\* DomainPolicy::remove takes the lock of `allowed`, releases it, and takes
\* the lock of `denied`.
RemoveOrder == <<"allowed", "denied">>

---------------------------------------------------------------------------
(* History.  Observe is a conjunct of every action: it records, for each    *)
(* request in progress, whether its domain was denied (allowed) at every   *)
(* instant so far, whether it was admissible at any, whether nothing       *)
(* joined the deny list, and the credentials it could have been given      *)
(* since its verdict.  No guard reads it.                                  *)

Histories == [denied : BOOLEAN, allowed : BOOLEAN, admissible : BOOLEAN,
              quiet : BOOLEAN, live : SUBSET (Headers \cup {NoHeaders})]

Blank == [denied |-> FALSE, allowed |-> FALSE, admissible |-> FALSE,
          quiet |-> FALSE, live |-> {}]

\* The history of a check of which no instant has been seen yet
Unseen == [denied |-> TRUE, allowed |-> TRUE, admissible |-> FALSE,
           quiet |-> TRUE, live |-> {}]

\* The allow list as the host means it: an entry whose denial a half-done
\* remove has already dropped counts as gone.
Intended ==
  IF removing # <<>> /\ RemoveOrder[2] = "allowed" THEN allowed \ {removing[2]} ELSE allowed

Admissible(d, a, n) == MatchesAny(d, a) /\ ~MatchesAny(d, n)

Witness(c) ==
  LET old == IF pc[c] = "idle" THEN Unseen ELSE seen[c]
      d   == domain'[c]
  IN  [denied     |-> old.denied /\ MatchesAny(d, denied'),
       allowed    |-> old.allowed /\ MatchesAny(d, allowed'),
       admissible |-> old.admissible \/ Admissible(d, Intended', denied'),
       quiet      |-> old.quiet /\ denied' \subseteq denied,
       live       |-> IF pc'[c] = "inject"
                      THEN old.live \cup CredentialsFor(d, credentials') ELSE old.live]

Observe == seen' = [c \in Clients |-> IF pc'[c] = "idle" THEN Blank ELSE Witness(c)]

---------------------------------------------------------------------------
TypeOK ==
  /\ allowed \subseteq Entries
  /\ denied \subseteq Entries
  /\ credentials \in [Patterns -> Headers \cup {NoHeaders}]
  /\ prompt \in BOOLEAN
  /\ removing \in {<<>>} \cup ({2} \X Entries)
  /\ pc \in [Clients -> Positions]
  /\ domain \in [Clients -> Domains \cup {<<>>}]
  /\ headers \in [Clients -> Headers \cup {NoHeaders}]
  /\ via \in [Clients -> {"none", "list", "prompt"}]
  /\ seen \in [Clients -> Histories]
  /\ \A c \in Clients : pc[c] # "idle" => domain[c] \in Domains

\* HttpGatewayBuilder::build: any lists, any credentials, prompt or none
Init ==
  /\ allowed \in SUBSET Entries
  /\ denied \in SUBSET Entries
  /\ credentials \in [Patterns -> Headers \cup {NoHeaders}]
  /\ prompt \in BOOLEAN
  /\ removing = <<>>
  /\ pc = [c \in Clients |-> "idle"]
  /\ domain = [c \in Clients |-> <<>>]
  /\ headers = [c \in Clients |-> NoHeaders]
  /\ via = [c \in Clients |-> "none"]
  /\ seen = [c \in Clients |-> Blank]

---------------------------------------------------------------------------
(* HttpGateway::request, one locked section or blocking call per action *)

Goto(c, position) ==
  /\ pc' = [pc EXCEPT ![c] = position]
  /\ UNCHANGED <<domain, headers, via>>

\* The call returns to the client: what is left of its request is dropped.
Finish(c) ==
  /\ pc' = [pc EXCEPT ![c] = "idle"]
  /\ domain' = [domain EXCEPT ![c] = <<>>]
  /\ headers' = [headers EXCEPT ![c] = NoHeaders]
  /\ via' = [via EXCEPT ![c] = "none"]

Start(c, d) ==
  /\ pc[c] = "idle"
  /\ pc' = [pc EXCEPT ![c] = "read_denied"]
  /\ domain' = [domain EXCEPT ![c] = d]
  /\ UNCHANGED <<headers, via, lists, credentials, prompt>>
  /\ Observe

\* Mutant: sends an admitted request without its credentials
Admit_NoCredentials(c, by) ==
  /\ pc' = [pc EXCEPT ![c] = "send"]
  /\ via' = [via EXCEPT ![c] = by]
  /\ UNCHANGED <<domain, headers>>

\* An admitted request goes on to inject credentials.
Admit(c, by) ==
  /\ pc' = [pc EXCEPT ![c] = "inject"]
  /\ via' = [via EXCEPT ![c] = by]
  /\ UNCHANGED <<domain, headers>>

\* Mutant: tests the deny list for the exact domain only
ReadDenied_Exact(c) ==
  /\ pc[c] = "read_denied"
  /\ IF domain[c] \in denied THEN Finish(c) ELSE Goto(c, "read_allowed")
  /\ UNCHANGED <<lists, credentials, prompt>>
  /\ Observe

\* "Deny list checked first": a match answers DomainDenied.
ReadDenied(c) ==
  /\ pc[c] = "read_denied"
  /\ \/ MatchesAny(domain[c], denied) /\ Finish(c)
     \/ ~MatchesAny(domain[c], denied) /\ Goto(c, "read_allowed")
  /\ UNCHANGED <<lists, credentials, prompt>>
  /\ Observe

\* A match admits; an unknown domain goes to the prompt, or is denied when
\* there is none.
ReadAllowed(c) ==
  /\ pc[c] = "read_allowed"
  /\ \/ MatchesAny(domain[c], allowed) /\ Admit(c, "list")
     \/ ~MatchesAny(domain[c], allowed) /\ prompt /\ Goto(c, "prompt")
     \/ ~MatchesAny(domain[c], allowed) /\ ~prompt /\ Finish(c)
  /\ UNCHANGED <<lists, credentials, prompt>>
  /\ Observe

\* prompt_domain returns: no lock is held while the user decides.
Answer(c, a) ==
  /\ pc[c] = "prompt"
  /\ \/ a.remember /\ Goto(c, IF a.allowed THEN "remember_allow" ELSE "remember_deny")
     \/ ~a.remember /\ a.allowed /\ Admit(c, "prompt")
     \/ ~a.remember /\ ~a.allowed /\ Finish(c)
  /\ UNCHANGED <<lists, credentials, prompt>>
  /\ Observe

RememberAllow(c) ==
  /\ pc[c] = "remember_allow"
  /\ allowed' = allowed \cup {domain[c]}
  /\ Admit(c, "prompt")
  /\ UNCHANGED <<denied, removing, credentials, prompt>>
  /\ Observe

RememberDeny(c) ==
  /\ pc[c] = "remember_deny"
  /\ denied' = denied \cup {domain[c]}
  /\ Finish(c)
  /\ UNCHANGED <<allowed, removing, credentials, prompt>>
  /\ Observe

\* credentials.get, after the verdict and under its own lock
Inject(c) ==
  /\ pc[c] = "inject"
  /\ \E h \in CredentialsFor(domain[c], credentials) :
       headers' = [headers EXCEPT ![c] = h]
  /\ pc' = [pc EXCEPT ![c] = "send"]
  /\ UNCHANGED <<domain, via, lists, credentials, prompt>>
  /\ Observe

\* backend.send: the request leaves the gateway.
Send(c) ==
  /\ pc[c] = "send"
  /\ Finish(c)
  /\ UNCHANGED <<lists, credentials, prompt>>
  /\ Observe

---------------------------------------------------------------------------
(* The host: allow_domain, deny_domain, remove_domain, set_credentials,    *)
(* remove_credentials.  It is one thread, so nothing else it does falls    *)
(* between the two halves of its remove.                                   *)

Allow(e) ==
  /\ removing = <<>>
  /\ allowed' = allowed \cup {e}
  /\ UNCHANGED <<denied, removing, credentials, prompt, request>>
  /\ Observe

Deny(e) ==
  /\ removing = <<>>
  /\ denied' = denied \cup {e}
  /\ UNCHANGED <<allowed, removing, credentials, prompt, request>>
  /\ Observe

RemoveFrom(list, e) ==
  IF list = "allowed"
  THEN allowed' = allowed \ {e} /\ UNCHANGED denied
  ELSE denied' = denied \ {e} /\ UNCHANGED allowed

RemoveBegin(e) ==
  /\ removing = <<>>
  /\ removing' = <<2, e>>
  /\ RemoveFrom(RemoveOrder[1], e)
  /\ UNCHANGED <<credentials, prompt, request>>
  /\ Observe

RemoveEnd ==
  /\ removing # <<>>
  /\ removing' = <<>>
  /\ RemoveFrom(RemoveOrder[2], removing[2])
  /\ UNCHANGED <<credentials, prompt, request>>
  /\ Observe

SetCredentials(p, h) ==
  /\ removing = <<>>
  /\ credentials' = [credentials EXCEPT ![p] = h]
  /\ UNCHANGED <<lists, prompt, request>>
  /\ Observe

RemoveCredentials(p) == SetCredentials(p, NoHeaders)

---------------------------------------------------------------------------
Request(c) ==
  \/ \E d \in Domains : Start(c, d)
  \/ ReadDenied(c) \/ ReadAllowed(c)
  \/ \E a \in Answers : Answer(c, a)
  \/ RememberAllow(c) \/ RememberDeny(c)
  \/ Inject(c) \/ Send(c)

HostStep ==
  \/ \E e \in Entries : Allow(e) \/ Deny(e) \/ RemoveBegin(e)
  \/ RemoveEnd
  \/ \E p \in Patterns : RemoveCredentials(p) \/ \E h \in Headers : SetCredentials(p, h)

Next == HostStep \/ \E c \in Clients : Request(c)

Spec == Init /\ [][Next]_vars

---------------------------------------------------------------------------
(* Properties *)

Admitted(c) == pc[c] \in {"inject", "send"}

\* A domain some deny entry matched at every instant since the check began
\* is never let through, whatever the allow list, other clients' remembered
\* answers and half-done removes did meanwhile (policy.rs:79).
DenialHolds == \A c \in Clients : Admitted(c) => ~seen[c].denied

\* The user is never asked about a domain that was decided, on one and the
\* same list, from the start of the check on: a remembered answer is not
\* asked for again (policy.rs:73, the PromptResponse.remember contract).
DecidedNeverPrompts ==
  \A c \in Clients :
    pc[c] = "prompt" => ~seen[c].denied /\ ~seen[c].allowed

\* When nothing joined the deny list during a check, an admission from the
\* allow list was right at one instant of it: taking an entry off both lists
\* never opens a window in which only its denial is gone (policy.rs:150-158).
AdmissionLinearizable ==
  \A c \in Clients :
    Admitted(c) /\ via[c] = "list" /\ seen[c].quiet => seen[c].admissible

\* Without the restriction to quiet checks: an admission from the allow list
\* was right at some instant of the check ("Deny list checked first so
\* explicit deny entries override allow entries", policy.rs:79).
DenyOverridesAllow ==
  \A c \in Clients :
    Admitted(c) /\ via[c] = "list" => seen[c].admissible

\* The headers a request carries were in the credential store at some
\* instant after its verdict: a credential revoked while the user was still
\* looking at the prompt is not sent (gateway.rs:36-41).
CredentialsReadAfterVerdict ==
  \A c \in Clients : pc[c] = "send" => headers[c] \in seen[c].live
=============================================================================
