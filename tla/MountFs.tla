------------------------------ MODULE MountFs ------------------------------
(***************************************************************************)
(* The mount table of core/src/mount.rs and the fs module of               *)
(* core/src/sandbox.rs that works through it.                              *)
(*                                                                         *)
(* A path is a sequence of names.  Scripts name virtual paths; the mount   *)
(* with the longest matching prefix turns one into a host path.  Two names *)
(* are not names of files: `..` and `.`.  The mount table compares paths   *)
(* as text, in which they are names like any other; the host goes where    *)
(* they lead (as POSIX systems do).  The host is a tree of directories and *)
(* files, without symbolic links.  An operation that fails before it       *)
(* touches the host changes nothing and is a stuttering step; one that     *)
(* fails half way through (a full disk, a file in use) is an action of its *)
(* own.                                                                    *)
(***************************************************************************)
EXTENDS Naturals, Sequences, FiniteSets

CONSTANTS
  Names,         \* names in paths
  Up, Here,      \* the names .. and .
  VPaths,        \* virtual paths scripts name
  HPaths,        \* host paths that can hold something
  Synthetic,     \* synthetic directories: virtual path -> names in it
  Device,        \* the synthetic directory whose entries are devices, /dev
  Tmp, TmpHost,  \* /tmp, and the fresh directory build() makes for it
  InitialHosts,  \* host trees a sandbox may be built on
  MountPoints, MountHosts, MaxMounts  \* bound of the mounts a host adds

Nodes == {"absent", "dir", "empty", "data"}
Files == {"empty", "data"}

\* is_under_mount: m is p or an ancestor of it
Under(p, m) == Len(m) <= Len(p) /\ \A i \in 1..Len(m) : p[i] = m[i]

Parent(p) == SubSeq(p, 1, Len(p) - 1)

\* A path that leads where its names say
Direct(p) == \A i \in 1..Len(p) : p[i] \notin {Up, Here}

ASSUME PathsAssumption ==
  /\ VPaths \subseteq Seq(Names) /\ HPaths \subseteq Seq(Names)
  /\ MountPoints \subseteq VPaths /\ MountHosts \subseteq HPaths
  /\ DOMAIN Synthetic \subseteq Seq(Names)
  /\ Up # Here /\ \A p \in MountPoints \cup DOMAIN Synthetic \cup {Tmp} : Direct(p)
  /\ \A h \in HPaths : h # <<>> /\ Parent(h) \in HPaths \cup {<<>>} /\ Direct(h)
  /\ Tmp \in VPaths /\ TmpHost \in HPaths
  /\ InitialHosts \subseteq [HPaths -> Nodes]

\* A host is a tree, and the directory of temporary files is there.
ASSUME HostsAssumption ==
  \A tree \in InitialHosts, g \in HPaths :
    /\ \A h \in HPaths : Under(h, g) /\ h # g /\ tree[h] # "absent" => tree[g] = "dir"
    /\ Under(TmpHost, g) /\ g # TmpHost => tree[g] = "dir"

VARIABLES
  phase,    \* "mounting", "built", "dropped"
  mounts,   \* virtual path -> host path and permission
  host,     \* what is at each host path
  ownTmp,   \* build() made TmpHost, and dropping the sandbox removes it
  event,    \* what the last step passed to the file-activity callback
  indirect  \* history: the last step wrote through a path that is not direct

vars == <<phase, mounts, host, ownTmp, event, indirect>>

NoEvent == [path |-> <<>>, kind |-> "none"]

---------------------------------------------------------------------------
(* Paths *)

\* mount_relative
Relative(p, m) == SubSeq(p, Len(m) + 1, Len(p))

\* The host's tree; the root of the host is outside the model.
Node(h)    == IF h \in HPaths THEN host[h] ELSE IF h = <<>> THEN "dir" ELSE "absent"
Present(h) == Node(h) # "absent"

Go(at, name) == CASE name = Up -> Parent(at) [] name = Here -> at [] OTHER -> Append(at, name)

\* Where the first i names of a path of the host lead
Places(h) ==
  LET at[i \in 0..Len(h)] == IF i = 0 THEN <<>> ELSE Go(at[i - 1], h[i])
  IN  at

\* canonicalize, of a path without symbolic links
Place(h) == IF Direct(h) THEN h ELSE Places(h)[Len(h)]

\* Up leads out of directories only.
CanGo(h) == \A i \in 1..Len(h) : h[i] = Up => Node(Places(h)[i - 1]) = "dir"

---------------------------------------------------------------------------
(* Mount table *)

Covering(p) == {m \in DOMAIN mounts : Under(p, m)}

\* The longest-prefix mount
MountOf(p) == CHOOSE m \in Covering(p) : \A n \in Covering(p) : Len(n) <= Len(m)

HostOf(p) == mounts[MountOf(p)].host

\* The path as it is joined, and where it leads
JoinedPath(p) == HostOf(p) \o Relative(p, MountOf(p))
HostPath(p)   == Place(JoinedPath(p))

\* is_virtual_dir: the root, a synthetic directory, an ancestor of one or of
\* a mount
VirtualDir(p) ==
  \/ p = <<>> \/ p \in DOMAIN Synthetic
  \/ \E q \in DOMAIN mounts \cup DOMAIN Synthetic : q # p /\ Under(q, p)

\* is_synthetic_entry
SyntheticEntry(p) ==
  p # <<>> /\ Parent(p) \in DOMAIN Synthetic /\ p[Len(p)] \in Synthetic[Parent(p)]

\* synthetic_dir_for
InSynthetic(p) == \E d \in DOMAIN Synthetic : Under(p, d)

\* Mutant: does not look where the path leads
Resolves_Anywhere(p) ==
  /\ Covering(p) # {} /\ CanGo(JoinedPath(p))
  /\ Present(HostPath(p)) \/ Present(Parent(HostPath(p)))

\* resolve: the path exists, or its parent does, and it is below the mount
Resolves(p) ==
  /\ Covering(p) # {} /\ CanGo(JoinedPath(p))
  /\ Present(HostPath(p)) \/ Present(Parent(HostPath(p)))
  /\ Under(HostPath(p), HostOf(p))

ReadWrite(p) == mounts[MountOf(p)].perm = "rw"

\* Mutant: forgets the permission of the mount
ResolvesWrite_AnyPermission(p) ==
  ~(VirtualDir(p) /\ p \notin DOMAIN mounts) /\ Resolves(p)

\* resolve_write
ResolvesWrite(p) ==
  ~(VirtualDir(p) /\ p \notin DOMAIN mounts) /\ Resolves(p) /\ ReadWrite(p)

\* resolve_write_deep
ResolvesDeep(p) == Covering(p) # {} /\ ReadWrite(p) /\ \A i \in 1..Len(p) : p[i] # Up

---------------------------------------------------------------------------
(* What scripts see *)

Exists(p) == VirtualDir(p) \/ SyntheticEntry(p) \/ (Resolves(p) /\ Present(HostPath(p)))

IsDir(p) ==
  ~SyntheticEntry(p) /\ (VirtualDir(p) \/ (Resolves(p) /\ Node(HostPath(p)) = "dir"))

IsFile(p) ==
  SyntheticEntry(p) \/ (~VirtualDir(p) /\ Resolves(p) /\ Node(HostPath(p)) \in Files)

\* The host file a read of p gets to: synthetic files and devices have none.
ReadsHost(p) ==
  /\ ~SyntheticEntry(p) /\ ~(Under(p, Device) /\ p # Device) /\ ~VirtualDir(p)
  /\ Resolves(p) /\ Node(HostPath(p)) \in Files

\* Names that occur below p in the paths of Q
ChildNames(p, Q) == {q[Len(p) + 1] : q \in {q \in Q : q # p /\ Under(q, p)}}

HostNames(h) ==
  IF Node(h) # "dir" THEN {} ELSE {g[Len(g)] : g \in {g \in HPaths : g # <<>> /\ Parent(g) = h /\ Present(g)}}

\* Mutant: leaves out the mounts below the directory
Listed_NoMounts(p) ==
  (IF p \in DOMAIN mounts \/ Resolves(p) THEN HostNames(HostPath(p)) ELSE {})
    \cup (IF p \in DOMAIN Synthetic THEN Synthetic[p] ELSE {})

\* list_virtual_dir
Listed(p) ==
  ChildNames(p, DOMAIN mounts \cup DOMAIN Synthetic)
    \cup (IF p \in DOMAIN mounts \/ Resolves(p) THEN HostNames(HostPath(p)) ELSE {})
    \cup (IF p \in DOMAIN Synthetic THEN Synthetic[p] ELSE {})

Listable(p) ==
  p \in DOMAIN mounts \/ VirtualDir(p) \/ (Resolves(p) /\ Node(HostPath(p)) = "dir")

\* Mutant: forgets the synthetic directories, which a mount may cover
Writable_Synthetic(p) == ResolvesWrite(p) \/ ResolvesDeep(p)

\* fs.writable
Writable(p) == ~InSynthetic(p) /\ (ResolvesWrite(p) \/ ResolvesDeep(p))

\* fs.write answers "Read-only file system" on these grounds
WriteDenied(p) ==
  \/ InSynthetic(p) \/ (VirtualDir(p) /\ p \notin DOMAIN mounts)
  \/ (Resolves(p) /\ ~ReadWrite(p))

---------------------------------------------------------------------------
(* Host file system *)

\* A file can be created or replaced at h.
CanHoldFile(h) == h \in HPaths /\ Node(Parent(h)) = "dir" /\ Node(h) # "dir"

Put(h, node) == host' = [host EXCEPT ![h] = node]

\* create_dir_all: every missing directory on the way to h
CanMakeDirs(h) == h \in HPaths /\ \A g \in HPaths : Under(h, g) => host[g] \notin Files
MakeDirs(h) == [g \in HPaths |-> IF Under(h, g) /\ host[g] = "absent" THEN "dir" ELSE host[g]]

RemoveTree(h) == [g \in HPaths |-> IF Under(g, h) THEN "absent" ELSE host[g]]

\* rename(2): d is replaced if it is a file, or an empty directory by another
CanMove(s, d) ==
  /\ Present(s) /\ Node(Parent(d)) = "dir" /\ d \in HPaths
  /\ s = d \/ ~Under(d, s)
  /\ \/ s = d
     \/ Node(s) \in Files /\ Node(d) # "dir"
     \/ Node(s) = "dir" /\ Node(d) \notin Files
          /\ \A g \in HPaths : Under(g, d) /\ g # d => host[g] = "absent"
  /\ \A g \in HPaths : Under(g, s) /\ Present(g) => d \o Relative(g, s) \in HPaths

MoveTree(s, d) ==
  IF s = d THEN host
  ELSE [g \in HPaths |-> IF Under(g, d) THEN Node(s \o Relative(g, d))
                         ELSE IF Under(g, s) THEN "absent" ELSE host[g]]

---------------------------------------------------------------------------
(* Building *)

Init ==
  /\ phase = "mounting"
  /\ mounts = [m \in {} |-> NoEvent]
  /\ host \in InitialHosts
  /\ ownTmp = FALSE
  /\ event = NoEvent /\ indirect = FALSE

Mounted(v, h, perm) ==
  [m \in DOMAIN mounts \cup {v} |-> IF m = v THEN [host |-> h, perm |-> perm] ELSE mounts[m]]

\* add_mount: a second mount at v replaces the first.
AddMount(v, h, perm) ==
  /\ phase = "mounting" /\ Present(h)
  /\ Cardinality(DOMAIN mounts \cup {v}) <= MaxMounts
  /\ mounts' = Mounted(v, h, perm)
  /\ UNCHANGED <<phase, host, ownTmp, event, indirect>>

\* build() with its automatic /tmp
Build(auto_tmp) ==
  /\ phase = "mounting"
  /\ phase' = "built"
  /\ \/ /\ auto_tmp /\ Covering(Tmp) = {}
        /\ mounts' = Mounted(Tmp, TmpHost, "rw")
        /\ host' = MakeDirs(TmpHost)
        /\ ownTmp' = TRUE
     \/ /\ ~(auto_tmp /\ Covering(Tmp) = {})
        /\ IF Tmp \notin DOMAIN mounts /\ ResolvesDeep(Tmp) /\ CanMakeDirs(HostPath(Tmp))
           THEN host' = MakeDirs(HostPath(Tmp)) ELSE host' = host
        /\ UNCHANGED <<mounts, ownTmp>>
  /\ UNCHANGED <<event, indirect>>

\* Sandbox::drop
Drop ==
  /\ phase = "built"
  /\ phase' = "dropped"
  /\ host' = IF ownTmp THEN RemoveTree(TmpHost) ELSE host
  /\ event' = NoEvent /\ indirect' = FALSE
  /\ UNCHANGED <<mounts, ownTmp>>

---------------------------------------------------------------------------
(* fs.* *)

\* Reports to the file-activity callback, the last thing an operation does
Report(p, kind) == event' = [path |-> p, kind |-> kind]

Silent == event' = NoEvent

Fs == phase = "built" /\ UNCHANGED <<phase, mounts, ownTmp>>

\* The paths a step writes through
Through(paths) == indirect' = \E p \in paths : ~Direct(p)

Read(p) == Fs /\ ReadsHost(p) /\ Report(p, "read") /\ Through({}) /\ UNCHANGED host

List(p) == Fs /\ Listable(p) /\ Report(p, "read") /\ Through({}) /\ UNCHANGED host

\* Mutant: resolves the path as a read does
CanWrite_AsRead(p) == ~InSynthetic(p) /\ ~(VirtualDir(p) /\ p \notin DOMAIN mounts) /\ Resolves(p)

CanWrite(p) == ~InSynthetic(p) /\ ResolvesWrite(p)

Write(p, content) ==
  /\ Fs /\ CanWrite(p) /\ CanHoldFile(HostPath(p))
  /\ Put(HostPath(p), content)
  /\ Report(p, "write") /\ Through({p})

\* The write or the copy fails once the target is open, hence truncated.
WriteFails(p) ==
  /\ Fs /\ CanWrite(p) /\ CanHoldFile(HostPath(p))
  /\ Put(HostPath(p), "empty")
  /\ Silent /\ Through({p})

CanMkdir(p) == ~InSynthetic(p) /\ ResolvesDeep(p) /\ CanMakeDirs(HostPath(p))

\* The directory `.` of a missing one is not made.
Mkdir(p) ==
  /\ Fs /\ CanMkdir(p)
  /\ p # <<>> /\ p[Len(p)] = Here => Present(HostPath(p))
  /\ host' = MakeDirs(HostPath(p))
  /\ Report(p, "write") /\ Through({p})

\* create_dir_all fails with some of the directories made
MkdirFails(p) ==
  /\ Fs /\ CanMkdir(p)
  /\ \E g \in HPaths :
       /\ Under(HostPath(p), g) /\ g # HostPath(p) /\ ~Present(g)
       /\ host' = MakeDirs(g)
  /\ Silent /\ Through({p})

\* Mutant: forgets that a mount root must stay
NotMountRoot_Missing(p) == TRUE

NotMountRoot(p) == p \notin DOMAIN mounts

CanRename(p) == CanWrite(p) /\ NotMountRoot(p)

Rename(src, dst) ==
  /\ Fs /\ CanRename(src) /\ CanRename(dst) /\ CanMove(HostPath(src), HostPath(dst))
  /\ host' = MoveTree(HostPath(src), HostPath(dst))
  /\ Report(dst, "write") /\ Through({src, dst})

CanRemove(p) == CanWrite(p) /\ NotMountRoot(p) /\ Present(HostPath(p))

Remove(p) ==
  /\ Fs /\ CanRemove(p)
  /\ host' = RemoveTree(HostPath(p))
  /\ Report(p, "write") /\ Through({p})

\* remove_dir_all fails with some of the tree gone
RemoveFails(p) ==
  /\ Fs /\ CanRemove(p) /\ Node(HostPath(p)) = "dir"
  /\ \E g \in HPaths :
       /\ Under(g, HostPath(p)) /\ g # HostPath(p) /\ Present(g)
       /\ host' = RemoveTree(g)
  /\ Silent /\ Through({p})

CanCopy(p) == Resolves(p) /\ Node(HostPath(p)) \in Files

\* std::fs::copy opens the source, then truncates the target.
Copy(src, dst) ==
  /\ Fs /\ CanCopy(src)
  /\ CanWrite(dst) /\ CanHoldFile(HostPath(dst))
  /\ Put(HostPath(dst), IF HostPath(src) = HostPath(dst) THEN "empty" ELSE host[HostPath(src)])
  /\ Report(dst, "write") /\ Through({dst})

Next ==
  \/ \E v \in MountPoints, h \in MountHosts, perm \in {"ro", "rw"} : AddMount(v, h, perm)
  \/ \E auto_tmp \in BOOLEAN : Build(auto_tmp)
  \/ Drop
  \/ \E p \in VPaths : Read(p) \/ List(p) \/ Mkdir(p) \/ MkdirFails(p)
  \/ \E p \in VPaths : Remove(p) \/ RemoveFails(p) \/ WriteFails(p)
  \/ \E p \in VPaths, content \in Files : Write(p, content)
  \/ \E src, dst \in {p \in VPaths : phase = "built" /\ CanRename(p)} : Rename(src, dst)
  \/ \E src \in {p \in VPaths : phase = "built" /\ CanCopy(p)}, dst \in VPaths : Copy(src, dst)

Spec == Init /\ [][Next]_vars

---------------------------------------------------------------------------
(* Properties *)

\* Whatever is on the host is in a directory; volumes come and go.
HostIsTree ==
  \A h \in HPaths : host[h] # "absent" /\ Parent(h) \in HPaths => host[Parent(h)] = "dir"

TypeOK ==
  /\ phase \in {"mounting", "built", "dropped"}
  /\ DOMAIN mounts \subseteq VPaths
  /\ \A m \in DOMAIN mounts : mounts[m].host \in HPaths /\ mounts[m].perm \in {"ro", "rw"}
  /\ host \in [HPaths -> Nodes]
  /\ HostIsTree
  /\ ownTmp \in BOOLEAN
  /\ indirect \in BOOLEAN
  /\ event \in [path : VPaths \cup {<<>>}, kind : {"none", "read", "write"}]

\* Whatever a script does, and wherever an operation fails, only what is below
\* the host directory of a read-write mount changes (mount.rs:384).
OnlyWritableHostChanges ==
  [][\A h \in HPaths : host'[h] # host[h] =>
       \E m \in DOMAIN mounts' : mounts'[m].perm = "rw" /\ Under(h, mounts'[m].host)]_vars

\* No two mounts show the same part of the host.
HostsDisjoint ==
  \A m, n \in DOMAIN mounts : m # n => ~Under(mounts[m].host, mounts[n].host)

\* An operation on a direct path leaves every mount where it is, and no
\* operation takes a read-only one away.
MountsStay ==
  [][phase = "built" /\ phase' = "built" /\ HostsDisjoint =>
       \A m \in DOMAIN mounts :
         Present(mounts[m].host) /\ (mounts[m].perm = "ro" \/ ~indirect') => Present(mounts[m].host)']_vars

\* What the code says of any operation: a mount "is a system directory and
\* cannot be removed or renamed" (mount.rs:35).  Violated by a path that ends
\* in `..`: NotMountRoot compares its names, and Resolves follows them.
SystemDirectoriesStay ==
  [][phase = "built" /\ phase' = "built" /\ HostsDisjoint =>
       \A m \in DOMAIN mounts : Present(mounts[m].host) => Present(mounts[m].host)']_vars

\* What a script sees of a path
View(p) == <<Exists(p), IsDir(p), IsFile(p), IF ReadsHost(p) THEN Node(HostPath(p)) ELSE "none">>

\* A path that fs.writable denies (read-only mounts, synthetic namespaces,
\* nested or shadowed in any order, and what no mount covers) looks the same
\* after every operation, through whatever path, except that one on a path with
\* `..` or `.` may change what is under a synthetic directory.
UnwritableUntouched ==
  [][phase' = "built" /\ phase = "built" /\ host' # host /\ HostsDisjoint =>
       \A p \in VPaths :
         Direct(p) /\ ~Writable(p) /\ ~(InSynthetic(p) /\ indirect') => View(p)' = View(p)]_vars

\* What synthetic_dir_for is for: to keep "pseudo filesystems such as `/proc`,
\* `/etc`, and `/dev` read-only even when `/` is backed by a writable root
\* mount" (mount.rs:295).  Violated by a path that gets there over `..` or `.`.
SyntheticReadOnly ==
  [][phase' = "built" /\ phase = "built" /\ HostsDisjoint =>
       \A p \in VPaths : Direct(p) /\ InSynthetic(p) => View(p)' = View(p)]_vars

\* fs.list and fs.exists agree on the entries of a directory, through nested
\* mounts, virtual and synthetic directories.
ListAgreesWithExists ==
  phase = "built" /\ (\A m \in DOMAIN mounts : Present(mounts[m].host)) =>
    \A p \in VPaths : p # <<>> /\ p[Len(p)] \notin {Up, Here} /\ Listable(Parent(p)) =>
      (p[Len(p)] \in Listed(Parent(p)) <=> Exists(p))

\* fs.writable, which resolves a path whose parents may be missing, and
\* fs.write, which does not, agree on what is read-only, in every nesting of
\* mounts.  A directory that is only there because mounts are below it is the
\* exception: under a read-write mount it is said to be writable.
WritableAgreesWithWrite ==
  phase = "built" => \A p \in VPaths :
    Writable(p) /\ (p \in DOMAIN mounts \/ ~VirtualDir(p)) => ~WriteDenied(p)

\* What one operation says of a path, another does not deny (core/src/mount.rs, where
\* five methods look a path up, each in its own order).
AnswersAgree == ListAgreesWithExists /\ WritableAgreesWithWrite
=============================================================================
