--------------------------- MODULE MCHttpPolicy ---------------------------
(* Instances of HttpPolicy for TLC *)
EXTENDS HttpPolicy

CONSTANTS c1, c2

Site == <<"site">>
Api  == <<"api", "site">>

MCClients     == {c1, c2}
OneDomain     == {Api}
WithWildcard  == {Site, Api, <<"*">>}
NoPatterns    == {}
ExactAndAny   == {Api, <<"*", "site">>}
Symmetry      == Permutations(MCClients)

=============================================================================
