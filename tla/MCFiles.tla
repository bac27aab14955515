------------------------------- MODULE MCFiles -----------------------------
(* What scripts do with files: the operations on mounts, the windows of        *)
(* fs.read, and archives.  The first state chooses one, and the others rest.   *)
EXTENDS MCMountFs, FileWindow, Archive, TLC

VARIABLE way

FileContents == {<<>>, <<"a">>, <<"a", "n">>, <<"a", "n", "b">>, <<"a", "n", "n", "b", "n">>, <<"n", "x">>}
\* -1, 1, 1.5 and 2
Halves == {-2, 2, 3, 4}

\* 1 is a directory with the directory 1 and the file 2 in it, 2 a file; 3 and 4 are the
\* names of archives, some made elsewhere.
Plain == <<>> :> Dir @@ <<1>> :> Dir @@ <<1, 1>> :> Dir
         @@ <<1, 1, 2>> :> Text("a") @@ <<1, 2>> :> Text("b") @@ <<2>> :> Text("c")
Sevenzip == Bundle("7z", <<Entry(<<1, 1, 2>>, Text("a")), Entry(<<2>>, Dir)>>, TRUE)
Linked == Bundle("tar", <<Entry(<<2>>, Text("a")), Entry(<<1, 1>>, Link), Entry(<<1>>, Dir)>>, TRUE)
HandMade == <<>> :> Dir @@ <<1>> :> Dir @@ <<1, 2>> :> Text("b") @@ <<3>> :> Sevenzip @@ <<1, 3>> :> Linked
FilesMade == {Text("a"), Text("b"), Text("c"), Sevenzip, Linked}
MountTrees == {Plain, HandMade}
Packable == {<<1>>, <<1, 2>>, <<5>>}
ArchiveNames == {<<3>>, <<1, 3>>, <<5, 3>>}
ExtractedInto == {<<>>, <<5, 1>>}

mountfs == vars
all == <<way, mountfs, reading, archiving>>

MountsRest == /\ phase = "dropped" /\ mounts = <<>> /\ host = [h \in MCHPaths |-> "absent"] /\ ownTmp = FALSE /\ event = NoEvent
              /\ indirect = FALSE
ReadRests == /\ meant = "none" /\ stage = "none" /\ request = "none" /\ content = <<>> /\ seen = {}
             /\ edits = {} /\ selected = 0 /\ got = <<>> /\ result = "none"
ArchivesRest == tree = <<>> /\ packs = {} /\ last = "none" /\ calls = 0 /\ endless = FALSE

AllInit ==
  \/ way = "mounts" /\ Init /\ ReadRests /\ ArchivesRest
  \/ way = "read" /\ ReadInit /\ MountsRest /\ ArchivesRest
  \/ way = "archives" /\ ArchiveInit /\ MountsRest /\ ReadRests

\* A read that returned, and archives after the last call
Over == \/ way = "read" /\ stage = "done"
        \/ way = "archives" /\ (calls = MaxCalls \/ endless)
AllNext ==
  \/ way = "mounts" /\ Next /\ UNCHANGED <<way, reading, archiving>>
  \/ way = "read" /\ ReadNext /\ UNCHANGED <<way, mountfs, archiving>>
  \/ way = "archives" /\ ArchiveNext /\ UNCHANGED <<way, mountfs, reading>>
  \/ Over /\ UNCHANGED all

\* event and indirect only tell what the last step did: no action reads them, and the
\* action properties are checked for every step.
Standing == <<way, phase, mounts, host, ownTmp, reading, archiving>>

AllSpec == AllInit /\ [][AllNext]_all
=============================================================================
