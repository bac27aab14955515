-------------------------- MODULE MCDocFutures --------------------------
(* Instances of DocFutures for TLC *)
EXTENDS DocFutures, Sequences, TLC

CONSTANTS s1, s2, r1, r2, r3, k1, k2

OneSession    == {s1}
TwoSessions   == {s1, s2}
ThreeReads    == {r1, r2, r3}
OneOwner      == [r \in ThreeReads |-> s1]
TwoOwners    == (r1 :> s1) @@ (r2 :> s2) @@ (r3 :> s1)
RepeatedKey   == (r1 :> k1) @@ (r2 :> k1) @@ (r3 :> k2)
=============================================================================
