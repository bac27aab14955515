----------------------------- MODULE MCGateways ------------------------------
(* Instances of HttpPolicy and Sfae for TLC, the two ways to the network:      *)
(* requests through the domain policy, and SFAE requests with credentials of   *)
(* the keychain.  The first state chooses one, and the other rests.            *)
EXTENDS MCHttpPolicy, Sfae

VARIABLE way

http == vars
all == <<way, http, sfae>>

HttpRests == Init /\ allowed = {} /\ denied = {} /\ prompt = FALSE /\ \A p \in Patterns : credentials[p] = NoHeaders

AllInit ==
  \/ way = "http" /\ Init /\ SfaeInit
  \/ way = "sfae" /\ SfaeInit /\ HttpRests

Over == way = "sfae" /\ calls = MaxCalls /\ \A t \in DOMAIN call : call[t].at = "idle"
AllNext ==
  \/ way = "http" /\ Next /\ UNCHANGED <<way, sfae>>
  \/ way = "sfae" /\ SfaeNext /\ UNCHANGED <<way, http>>
  \/ Over /\ UNCHANGED all

AllSpec == AllInit /\ [][AllNext]_all
==============================================================================
