----------------------------- MODULE MCMountFs -----------------------------
(* Instances of MountFs for TLC: two volumes of the host and its temporary   *)
(* directory, mounted anywhere in a small namespace.                        *)
EXTENDS MountFs

MCUp      == ".."
MCHere    == "."
MCNames   == {"a", "t", "e", "v1", "v2", "vt", MCUp, MCHere}

MCTmp     == <<"t">>
MCTmpHost == <<"vt">>
MCDevice  == <<"e">>
MCSynthetic == [d \in {<<"e">>} |-> {"a"}]

MCVPaths == {<<>>, <<"a">>, <<"a", "a">>, <<"a", "a", "a">>, <<"t">>, <<"t", "a">>, <<"e">>, <<"e", "a">>, <<"e", "t">>,
             <<"a", MCUp>>, <<MCUp, "v1", "a">>, <<"a", MCHere>>,
             <<"a", MCUp, "e", "t">>, <<MCHere, "e", "t">>}

MCHPaths == {<<"v1">>, <<"v1", "a">>, <<"v1", "a", "a">>, <<"v1", "t">>, <<"v1", "e">>, <<"v1", "e", "t">>,
             <<"v2">>, <<"v2", "a">>, <<"vt">>, <<"vt", "a">>}

Volumes == {<<"v1">>, <<"v2">>}

MCInitialHosts ==
  {[h \in MCHPaths |-> IF h \in Volumes THEN "dir" ELSE IF h = <<"v1", "a", "a">> THEN file
                       ELSE IF h = <<"v1", "a">> /\ file = "data" THEN "dir" ELSE "absent"]
     : file \in {"absent", "data"}}

RootAndBelow == {<<>>, <<"a">>, <<"a", "a">>}
VolumesAndSub == {<<"v1">>, <<"v2">>, <<"v1", "a">>}
=============================================================================
