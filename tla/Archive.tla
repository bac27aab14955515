------------------------------ MODULE Archive -------------------------------
(* compress.* (core/src/compress.rs): archives of files and directories of one *)
(* writable mount.  A path is the sequence of its names below the mount; names *)
(* are numbers, in the order in which they sort.                               *)
EXTENDS Naturals, Sequences, FiniteSetsExt
Paths == INSTANCE SequencesExt

CONSTANTS
  Stored,     \* the files that there are at first, in the mount and in archives
  Trees,      \* what the mount holds at first: functions from paths to nodes
  Sources,    \* the paths that are packed, of which the mount itself is none
  Targets,    \* the paths of archives and outputs
  Dests,      \* the directories that are extracted into
  MaxCalls    \* calls in one behaviour

VARIABLES
  tree,     \* what the mount holds
  packs,    \* archives made by calls that returned, each with what its sources held
  last,     \* the last extraction
  calls,
  endless   \* a call copies an archive into itself and does not return
archiving == <<tree, packs, last, calls, endless>>

(* Nodes *)
Dir == [type |-> "dir"]
Text(t) == [type |-> "text", text |-> t]
Torn == [type |-> "torn"]
Empty == Text("")
Packed(by, node) == [type |-> "packed", by |-> by, of |-> node]
\* Readable to the end, or only for some of its entries
Bundle(kind, entries, whole) == [type |-> "archive", kind |-> kind, entries |-> entries, whole |-> whole]
Entry(name, node) == [name |-> name, node |-> node]
Link == [type |-> "link"]
Missing == [type |-> "missing"]

\* One function over another
f \uplus g == [x \in DOMAIN f \cup DOMAIN g |-> IF x \in DOMAIN f THEN f[x] ELSE g[x]]

exists(t, p) == p \in DOMAIN t
is_dir(t, p) == exists(t, p) /\ t[p] = Dir
is_file(t, p) == exists(t, p) /\ t[p] # Dir

\* What holds a file or a directory is a directory.
IsTree(t) ==
  /\ t = [p \in DOMAIN t |-> t[p]] /\ IsFiniteSet(DOMAIN t) /\ DOMAIN t \subseteq Seq(Nat)
  /\ \A p \in DOMAIN t : \A q \in Paths!Prefixes(p) : q # p => is_dir(t, q)
Entries(nodes) == Seq([name : Seq(Nat), node : nodes])
\* Files whose parts are among them
Closed(nodes) ==
  \A node \in nodes : /\ node.type = "archive" => node.entries \in Entries(nodes \cup {Dir, Link})
                      /\ node.type = "packed" => node.of \in nodes
ASSUME TreesAssumption ==
  /\ Closed(Stored)
  /\ \A t \in Trees : IsTree(t) /\ \A p \in DOMAIN t : t[p] \in Stored \cup {Dir}
ASSUME NamesAssumption == Sources \subseteq Seq(Nat) \ {<<>>} /\ Targets \subseteq Seq(Nat) /\ Dests \subseteq Seq(Nat)

--------------------------------------------------------------------------------
(* The host's file system; each gives the new tree, or the old one and a failure *)
Ok(t) == [ok |-> TRUE, tree |-> t]
Fails(t) == [ok |-> FALSE, tree |-> t]

create_dir_all(t, p) ==
  IF \E q \in Paths!Prefixes(p) : is_file(t, q) THEN Fails(t)
  ELSE Ok(t \uplus [q \in Paths!Prefixes(p) |-> Dir])
write(t, p, node) ==
  IF is_dir(t, Paths!Front(p)) /\ ~is_dir(t, p) THEN Ok([q \in {p} |-> node] \uplus t) ELSE Fails(t)

\* MountTable::resolve: the path or at least its parent exists.
resolve(t, p) == exists(t, p) \/ exists(t, Paths!Front(p))
resolve_source_paths(t, sources) == sources # <<>> /\ \A i \in DOMAIN sources : resolve(t, sources[i])

--------------------------------------------------------------------------------
(* Making archives *)

\* Entries are visited by name, a directory before what is in it.
Before(p, q) ==
  \/ Paths!IsStrictPrefix(p, q)
  \/ \E n \in 1..Len(p) : n <= Len(q) /\ SubSeq(p, 1, n - 1) = SubSeq(q, 1, n - 1) /\ p[n] < q[n]
Walk(paths) ==
  [k \in 1..Cardinality(paths) |->
     CHOOSE p \in paths : Cardinality({q \in paths : q = p \/ Before(q, p)}) = k]
Below(t, dir) == {p \in DOMAIN t : Paths!IsStrictPrefix(dir, p)}

\* What is below a directory, by names relative to it, under a prefix
add_dir_to_zip(t, dir, prefix) ==
  LET inside == Walk(Below(t, dir)) IN
  [i \in DOMAIN inside |-> Entry(prefix \o SubSeq(inside[i], Len(dir) + 1, Len(inside[i])), t[inside[i]])]

\* Mutant: what is in a directory is stored beside it.
Appended_Unprefixed(t, source) ==
  IF is_dir(t, source) THEN <<Entry(<<Paths!Last(source)>>, Dir)>> \o add_dir_to_zip(t, source, <<>>)
  ELSE <<Entry(<<Paths!Last(source)>>, IF is_file(t, source) THEN t[source] ELSE Missing)>>
\* A source under its own name: a directory with what is in it, or a file
Appended(t, source) ==
  LET name == <<Paths!Last(source)>> IN
  CASE is_dir(t, source) -> <<Entry(name, Dir)>> \o add_dir_to_zip(t, source, name)
    [] is_file(t, source) -> <<Entry(name, t[source])>>
    [] OTHER -> <<Entry(name, Missing)>>

append_sources_to_tar(t, sources) == Paths!FlattenSeq([i \in DOMAIN sources |-> Appended(t, sources[i])])
create_zip_multi(t, sources) == append_sources_to_tar(t, sources)
\* A directory alone is stored without its own name.
create_zip(t, source) == IF is_dir(t, source) THEN add_dir_to_zip(t, source, <<>>) ELSE Appended(t, source)

\* Where the writing of the entries stops: at a source that cannot be opened, and in a
\* zip at a name that is already there.
StopsAt(kind, entries) ==
  {i \in DOMAIN entries : \/ entries[i].node = Missing
                          \/ kind = "zip" /\ \E j \in 1..(i - 1) : entries[j].name = entries[i].name}

\* The entries written.  A zip begins the entry of a file before it opens the file.
Written(kind, entries) ==
  IF StopsAt(kind, entries) = {} THEN entries
  ELSE LET stop == Min(StopsAt(kind, entries)) IN
       SubSeq(entries, 1, stop - 1)
       \o (IF kind = "zip" /\ entries[stop].node = Missing THEN <<Entry(entries[stop].name, Empty)>> ELSE <<>>)

EntriesOf(kind, t, sources) ==
  IF kind # "zip" THEN append_sources_to_tar(t, sources)
  ELSE IF Len(sources) = 1 THEN create_zip(t, sources[1]) ELSE create_zip_multi(t, sources)

\* What the sources hold, said without the order of the walk: by the names under
\* which an extraction should find it.
Named(t, source) == [p \in {<<Paths!Last(source)>> \o SubSeq(q, Len(source) + 1, Len(q)) :
                              q \in {r \in DOMAIN t : Paths!IsPrefix(source, r)}} |->
                       t[source \o SubSeq(p, 2, Len(p))]]
\* Of functions in a list the last one that has an argument
Latest(named) ==
  [p \in UNION {DOMAIN named[i] : i \in DOMAIN named} |-> named[Max({i \in DOMAIN named : p \in DOMAIN named[i]})][p]]
Held(kind, t, sources) ==
  IF kind = "zip" /\ Len(sources) = 1 /\ is_dir(t, sources[1])
  THEN [p \in {SubSeq(q, Len(sources[1]) + 1, Len(q)) : q \in Below(t, sources[1])} |-> t[sources[1] \o p]]
  ELSE Latest([i \in DOMAIN sources |-> Named(t, sources[i])])

Called == calls < MaxCalls /\ ~endless /\ calls' = calls + 1

\* The archive is resolved, created and emptied before its sources are read, so that it
\* can be among them.  Then the copy may not end, as each byte read adds one, and
\* the archive may not be readable to its end; nor is it when the call fails.
Create(kind, sources, archive) ==
  LET made == write(tree, archive, Torn)
      entries == EntriesOf(kind, made.tree, sources)
      fails == StopsAt(kind, entries) # {}
      selfish == \E i \in DOMAIN sources : Paths!IsPrefix(sources[i], archive) IN
  /\ Called
  /\ UNCHANGED last
  /\ IF ~resolve(tree, archive) \/ ~resolve_source_paths(tree, sources) \/ ~made.ok
     THEN UNCHANGED <<tree, packs, endless>>
     ELSE \/ \E whole \in BOOLEAN :
               LET bundle == Bundle(kind, Written(kind, entries), whole) IN
               /\ ~whole => fails \/ selfish
               /\ tree' = [made.tree EXCEPT ![archive] = bundle]
               /\ packs' = packs \cup (IF fails \/ selfish THEN {}
                                       ELSE {[node |-> bundle, held |-> Held(kind, tree, sources)]})
               /\ UNCHANGED endless
          \/ selfish /\ tree' = made.tree /\ endless' = TRUE /\ UNCHANGED packs

zip(sources, archive) == Create("zip", sources, archive)
tar(sources, archive) == Create("tar", sources, archive)
targz(sources, archive) == Create("targz", sources, archive)

--------------------------------------------------------------------------------
(* Extracting *)

\* One entry, unless an earlier one failed: links are refused, and parents are made.
\* 7z archives have no entry of type link.
extract_entry(dest, state, entry) ==
  LET out == dest \o entry.name
      parents == create_dir_all(state.tree, Paths!Front(out)) IN
  IF ~state.ok \/ entry.node = Link \/ ~parents.ok THEN Fails(state.tree)
  ELSE IF entry.node = Dir THEN create_dir_all(parents.tree, out)
  ELSE write(parents.tree, out, entry.node)
extract_tar_from_reader(t, entries, dest) ==
  LET after[n \in 0..Len(entries)] ==
        IF n = 0 THEN Ok(t) ELSE extract_entry(dest, after[n - 1], entries[n]) IN
  after[Len(entries)]
extract_zip(t, entries, dest) == extract_tar_from_reader(t, entries, dest)
extract_7z(t, entries, dest) == extract_tar_from_reader(t, entries, dest)

Extracted(kind, t, entries, dest) ==
  CASE kind = "zip" -> extract_zip(t, entries, dest)
    [] kind = "7z" -> extract_7z(t, entries, dest)
    [] OTHER -> extract_tar_from_reader(t, entries, dest)

\* The destination is made first.  An archive that is not whole fails after some
\* of its entries; one that an entry replaces while it is read leaves anything
\* of the rest.
Extract(kind, archive, dest) ==
  LET made == create_dir_all(tree, dest)
      bundle == tree[archive]
      entries == bundle.entries
      over == {i \in DOMAIN entries : dest \o entries[i].name = archive} IN
  /\ Called
  /\ UNCHANGED <<packs, endless>>
  /\ CASE ~resolve(tree, archive) \/ ~made.ok -> UNCHANGED <<tree, last>>
       [] resolve(tree, archive) /\ made.ok /\ (~is_file(tree, archive) \/ bundle.type # "archive") ->
            tree' = made.tree /\ UNCHANGED last
       [] OTHER ->
            \E n \in 0..Len(entries) :
              LET all == n = Len(entries) /\ bundle.whole
                  done == Extracted(kind, made.tree, SubSeq(entries, 1, n), dest) IN
              /\ bundle.kind = kind \/ n = 0
              /\ bundle.kind = kind /\ bundle.whole /\ over = {} => all
              /\ tree' = IF over # {} /\ n >= Min(over) THEN [done.tree EXCEPT ![archive] = Torn] ELSE done.tree
              /\ last' = [call |-> calls', bundle |-> bundle, dest |-> dest,
                          ok |-> all /\ done.ok /\ over = {} /\ bundle.kind = kind]

unzip(archive, dest) == Extract("zip", archive, dest)
untar(archive, dest) == Extract("tar", archive, dest)
untargz(archive, dest) == Extract("targz", archive, dest)
un7z(archive, dest) == Extract("7z", archive, dest)

--------------------------------------------------------------------------------
(* One file at a time: read and converted before the output is touched *)
Convert(input, output, Accepts, converted) ==
  /\ Called
  /\ UNCHANGED <<packs, last, endless>>
  /\ tree' = IF resolve(tree, output) /\ is_file(tree, input) /\ Accepts
             THEN write(tree, output, converted).tree ELSE tree

bzip2(input, output) == Convert(input, output, TRUE, Packed("bzip2", tree[input]))
bunzip2(input, output) ==
  Convert(input, output, tree[input].type = "packed" /\ tree[input].by = "bzip2", tree[input].of)
xz(input, output) == Convert(input, output, TRUE, Packed("xz", tree[input]))
unxz(input, output) ==
  Convert(input, output, tree[input].type = "packed" /\ tree[input].by = "xz", tree[input].of)

--------------------------------------------------------------------------------
NoExtraction == [ok |-> FALSE]
ArchiveInit == /\ tree \in Trees /\ packs = {} /\ last = NoExtraction /\ calls = 0 /\ endless = FALSE

SourceLists == {<<s>> : s \in Sources} \cup {<<s, u>> : s \in Sources, u \in Sources}
ArchiveNext ==
  \/ \E sources \in SourceLists, archive \in Targets :
       zip(sources, archive) \/ tar(sources, archive) \/ targz(sources, archive)
  \/ \E archive \in Targets, dest \in Dests :
       unzip(archive, dest) \/ untar(archive, dest) \/ untargz(archive, dest) \/ un7z(archive, dest)
  \/ \E input, output \in Targets :
       bzip2(input, output) \/ bunzip2(input, output) \/ xz(input, output) \/ unxz(input, output)
ArchiveSpec == ArchiveInit /\ [][ArchiveNext]_archiving

--------------------------------------------------------------------------------
\* A tree into which something was unpacked: it replaces what was there, and the
\* rest stays.
Unpacked(before, dest, held) ==
  [p \in {dest \o q : q \in DOMAIN held} |-> held[SubSeq(p, Len(dest) + 1, Len(p))]]
  \uplus [p \in UNION {Paths!Prefixes(dest \o q) : q \in DOMAIN held \cup {<<>>}} |-> Dir]
  \uplus before

\* What a call packed, an extraction brings back (compress.rs, the round trips of its
\* tests): if both return without an error, the destination has what the sources
\* held when they were packed, in a directory of the source's name unless
\* it was a single directory in a zip; what else it holds stays.  Exempt is
\* an archive among its own sources.
RoundTrip ==
  [][\A pack \in packs :
       last' # last /\ last'.ok /\ last'.bundle = pack.node =>
         tree' = Unpacked(tree, last'.dest, pack.held)]_archiving
=============================================================================
